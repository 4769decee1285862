--------------------------- MODULE MemTable_proofs ---------------------------
(***************************************************************************)
(* Proofs about the memtable: types, sorted runs and the accounted size    *)
(* (TypeOK), and that a point read answers with a value its key had while  *)
(* it ran, wherever the ladder and the flush move it (PointReadsCurrent),  *)
(* with what they rest on: the order of keys, sorted lists of keys, the    *)
(* binary search in a run and the merge of runs; and what the operators of *)
(* Pages compute: prefixes are ranges of keys, and pages are read back as  *)
(* they were written.                                                      *)
(***************************************************************************)
EXTENDS MemTable, SequenceFacts, SequenceTheorems

-----------------------------------------------------------------------------
(* The order of keys.                                                      *)

\* a and b agree up to position n and no further.
Diverge(a, b, n) ==
  /\ n \in Nat /\ n <= Len(a) /\ n <= Len(b)
  /\ \A i \in 1 .. n : a[i] = b[i]
  /\ n = Len(a) \/ n = Len(b) \/ a[n + 1] # b[n + 1]

\* Two strings of bytes part at some position.
LEMMA Diverges ==
  ASSUME NEW a \in Seq(Nat), NEW b \in Seq(Nat)
  PROVE  \E n : Diverge(a, b, n)
<1> DEFINE T == {i \in Nat : i >= Len(a) \/ i >= Len(b) \/ a[i + 1] # b[i + 1]}
<1>1. Len(a) \in T /\ Len(b) \in T /\ T \in SUBSET Nat
  OBVIOUS
<1>2. PICK n \in T : \A y \in T : n <= y
  BY <1>1, Least
<1>3. n \in Nat /\ n <= Len(a) /\ n <= Len(b)
  BY <1>1, <1>2
<1>4. ASSUME NEW i \in 1 .. n PROVE a[i] = b[i]
  <2>1. i - 1 \in Nat /\ i - 1 < n /\ (i - 1) + 1 = i
    BY <1>3, SMTT(30)
  <2>2. i - 1 \notin T
    <3> HIDE DEF T
    <3>1. i - 1 \in T => n <= i - 1
      BY <1>2
    <3> QED
      BY <1>3, <2>1, <3>1
  <2> QED
    BY <2>1, <2>2
<1>5. n = Len(a) \/ n = Len(b) \/ a[n + 1] # b[n + 1]
  BY <1>2, <1>3
<1> QED
  BY <1>3, <1>4, <1>5 DEF Diverge

\* They part at one position only.
LEMMA DivergeOnce ==
  ASSUME NEW a \in Seq(Nat), NEW b \in Seq(Nat), NEW n, NEW m, Diverge(a, b, n), Diverge(a, b, m)
  PROVE  n = m
<1>1. ASSUME NEW x, NEW y, Diverge(a, b, x), Diverge(a, b, y), x < y PROVE FALSE
  <2>1. x \in Nat /\ y \in Nat /\ y <= Len(a) /\ y <= Len(b) /\ Len(a) \in Nat /\ Len(b) \in Nat
    BY <1>1 DEF Diverge
  <2>2. x + 1 \in 1 .. y /\ x # Len(a) /\ x # Len(b)
    BY <1>1, <2>1
  <2>3. a[x + 1] = b[x + 1]
    BY <1>1, <2>2 DEF Diverge
  <2> QED
    BY <1>1, <2>2, <2>3 DEF Diverge
<1>2. n \in Nat /\ m \in Nat
  BY DEF Diverge
<1>3. ~(n < m) /\ ~(m < n)
  BY <1>1
<1> QED
  BY <1>2, <1>3

\* CommonPrefixLen is that position.
LEMMA CommonPrefixDiverges ==
  ASSUME NEW a \in Seq(Nat), NEW b \in Seq(Nat)
  PROVE  Diverge(a, b, CommonPrefixLen(a, b))
<1> DEFINE P(n) == /\ n <= Len(b) /\ SubSeq(a, 1, n) = SubSeq(b, 1, n)
                   /\ n = Len(a) \/ n = Len(b) \/ a[n + 1] # b[n + 1]
<1>1. PICK n : Diverge(a, b, n)
  BY Diverges
<1>2. ASSUME NEW m \in 0 .. Len(a), m <= Len(b)
      PROVE  SubSeq(a, 1, m) = SubSeq(b, 1, m) <=> \A i \in 1 .. m : a[i] = b[i]
  <2>1. /\ SubSeq(a, 1, m) = [i \in 1 .. m |-> a[i]]
        /\ SubSeq(b, 1, m) = [i \in 1 .. m |-> b[i]]
    BY <1>2
  <2> QED
    BY <2>1
<1>3. n \in 0 .. Len(a) /\ P(n)
  BY <1>1, <1>2 DEF Diverge
<1> DEFINE c == CommonPrefixLen(a, b)
<1>4. c \in 0 .. Len(a) /\ P(c)
  BY <1>3 DEF CommonPrefixLen
<1> HIDE DEF c
<1>5. c \in Nat /\ c <= Len(a) /\ c <= Len(b)
  BY <1>4
<1>6. \A i \in 1 .. c : a[i] = b[i]
  BY <1>2, <1>4
<1>7. Diverge(a, b, c)
  BY <1>4, <1>5, <1>6 DEF Diverge
<1> QED
  BY <1>7 DEF c

\* What CmpSeq says of strings that part at n.
LEMMA CmpAt ==
  ASSUME NEW a \in Seq(Nat), NEW b \in Seq(Nat), NEW n, Diverge(a, b, n)
  PROVE  /\ CmpSeq(a, b) \in {-1, 0, 1}
         /\ CmpSeq(a, b) = 0 <=> n = Len(a) /\ n = Len(b)
         /\ CmpSeq(a, b) < 0 <=> n < Len(b) /\ (n = Len(a) \/ a[n + 1] < b[n + 1])
<1>1. CommonPrefixLen(a, b) = n
  BY CommonPrefixDiverges, DivergeOnce
<1>2. n \in Nat /\ Len(a) \in Nat /\ Len(b) \in Nat /\ n <= Len(a) /\ n <= Len(b)
  BY DEF Diverge
<1>3. CASE n = Len(a) /\ n = Len(b)
  <2>1. CmpSeq(a, b) = 0
    BY <1>1, <1>2, <1>3 DEF CmpSeq
  <2> QED
    BY <1>2, <1>3, <2>1
<1>4. CASE n = Len(a) /\ n < Len(b)
  <2>1. CmpSeq(a, b) = -1
    BY <1>1, <1>2, <1>4 DEF CmpSeq
  <2> QED
    BY <1>2, <1>4, <2>1
<1>5. CASE n = Len(b) /\ n < Len(a)
  <2>1. CmpSeq(a, b) = 1
    BY <1>1, <1>2, <1>5 DEF CmpSeq
  <2> QED
    BY <1>2, <1>5, <2>1
<1>6. CASE n < Len(a) /\ n < Len(b)
  <2>1. CmpSeq(a, b) = IF a[n + 1] < b[n + 1] THEN -1 ELSE 1
    BY <1>1, <1>2, <1>6 DEF CmpSeq
  <2> QED
    BY <1>2, <1>6, <2>1
<1> QED
  BY <1>2, <1>3, <1>4, <1>5, <1>6

\* Keys that compare equal are equal.
LEMMA CmpEqual ==
  ASSUME NEW a \in Seq(Nat), NEW b \in Seq(Nat)
  PROVE  CmpSeq(a, b) \in {-1, 0, 1} /\ (CmpSeq(a, b) = 0 <=> a = b)
<1>1. PICK n : Diverge(a, b, n)
  BY Diverges
<1>2. CmpSeq(a, b) \in {-1, 0, 1} /\ (CmpSeq(a, b) = 0 <=> n = Len(a) /\ n = Len(b))
  BY <1>1, CmpAt
<1>3. n = Len(a) /\ n = Len(b) => a = b
  <2> SUFFICES ASSUME n = Len(a), n = Len(b) PROVE a = b
    OBVIOUS
  <2>1. \A i \in 1 .. Len(a) : a[i] = b[i]
    BY <1>1 DEF Diverge
  <2> QED
    BY <2>1, SeqEqual
<1>4. a = b => n = Len(a) /\ n = Len(b)
  BY <1>1 DEF Diverge
<1> QED
  BY <1>2, <1>3, <1>4

\* The order is total.
LEMMA CmpTotal ==
  ASSUME NEW a \in Seq(Nat), NEW b \in Seq(Nat)
  PROVE  /\ CmpSeq(a, b) < 0 => ~(CmpSeq(b, a) < 0)
         /\ CmpSeq(a, b) < 0 \/ a = b \/ CmpSeq(b, a) < 0
<1>1. PICK n : Diverge(a, b, n)
  BY Diverges
<1>2. Diverge(b, a, n)
  BY <1>1 DEF Diverge
<1>3. CmpSeq(a, b) < 0 <=> n < Len(b) /\ (n = Len(a) \/ a[n + 1] < b[n + 1])
  BY <1>1, CmpAt
<1>4. CmpSeq(b, a) < 0 <=> n < Len(a) /\ (n = Len(b) \/ b[n + 1] < a[n + 1])
  BY <1>2, CmpAt
<1>5. CmpSeq(a, b) = 0 <=> n = Len(a) /\ n = Len(b)
  BY <1>1, CmpAt
<1>6. CmpSeq(a, b) = 0 <=> a = b
  BY CmpEqual
<1>7. n \in Nat /\ Len(a) \in Nat /\ Len(b) \in Nat /\ n <= Len(a) /\ n <= Len(b)
  BY <1>1 DEF Diverge
<1>8. CASE n < Len(a) /\ n < Len(b)
  <2>1. n + 1 \in 1 .. Len(a) /\ n + 1 \in 1 .. Len(b)
    BY <1>7, <1>8
  <2>2. a[n + 1] \in Nat /\ b[n + 1] \in Nat /\ a[n + 1] # b[n + 1]
    BY <1>1, <1>8, <2>1 DEF Diverge
  <2> QED
    BY <1>3, <1>4, <1>7, <1>8, <2>2
<1>9. CASE ~(n < Len(a) /\ n < Len(b))
  BY <1>3, <1>4, <1>5, <1>6, <1>7, <1>9
<1> QED
  BY <1>8, <1>9

\* The order is transitive.
LEMMA CmpTransitive ==
  ASSUME NEW a \in Seq(Nat), NEW b \in Seq(Nat), NEW c \in Seq(Nat),
         CmpSeq(a, b) < 0, CmpSeq(b, c) < 0
  PROVE  CmpSeq(a, c) < 0
<1>1. PICK n : Diverge(a, b, n)
  BY Diverges
<1>2. PICK m : Diverge(b, c, m)
  BY Diverges
<1>3. n < Len(b) /\ (n = Len(a) \/ a[n + 1] < b[n + 1])
  BY <1>1, CmpAt
<1>4. m < Len(c) /\ (m = Len(b) \/ b[m + 1] < c[m + 1])
  BY <1>2, CmpAt
<1>5. /\ n \in Nat /\ m \in Nat /\ Len(a) \in Nat /\ Len(b) \in Nat /\ Len(c) \in Nat
      /\ n <= Len(a) /\ n <= Len(b) /\ m <= Len(b) /\ m <= Len(c)
  BY <1>1, <1>2, SMTT(30) DEF Diverge
<1>6. /\ \A i \in 1 .. n : a[i] = b[i]
      /\ \A i \in 1 .. m : b[i] = c[i]
  BY <1>1, <1>2 DEF Diverge
<1>7. CASE n < m
  <2>1. b[n + 1] = c[n + 1] /\ n + 1 \in 1 .. Len(b)
    BY <1>5, <1>6, <1>7
  <2>2. \A i \in 1 .. n : a[i] = c[i]
    BY <1>5, <1>6, <1>7
  <2>3. b[n + 1] \in Nat
    BY <2>1
  <2>4. n = Len(a) \/ a[n + 1] # c[n + 1]
    <3>1. n # Len(a) => n + 1 \in 1 .. Len(a)
      BY <1>5
    <3>2. n # Len(a) => a[n + 1] \in Nat
      BY <3>1
    <3> QED
      BY <1>3, <2>1, <2>3, <3>2
  <2>5. Diverge(a, c, n)
    BY <1>5, <1>7, <2>2, <2>4 DEF Diverge
  <2>6. n < Len(c) /\ (n = Len(a) \/ a[n + 1] < c[n + 1])
    BY <1>3, <1>5, <1>7, <2>1
  <2> QED
    BY <2>5, <2>6, CmpAt
<1>8. CASE m < n
  <2>1. a[m + 1] = b[m + 1] /\ m + 1 \in 1 .. Len(b) /\ m + 1 \in 1 .. Len(c)
    BY <1>4, <1>5, <1>6, <1>8, SMTT(30)
  <2>2. \A i \in 1 .. m : a[i] = c[i]
    BY <1>5, <1>6, <1>8
  <2>3. b[m + 1] \in Nat /\ c[m + 1] \in Nat
    BY <2>1
  <2>4. m # Len(b)
    BY <1>5, <1>8
  <2>5. b[m + 1] < c[m + 1] /\ a[m + 1] # c[m + 1]
    BY <1>4, <2>1, <2>3, <2>4
  <2>6. m <= Len(a)
    BY <1>5, <1>8
  <2>7. Diverge(a, c, m)
    BY <1>5, <2>2, <2>5, <2>6 DEF Diverge
  <2> QED
    BY <1>4, <2>1, <2>5, <2>7, CmpAt
<1>9. CASE n = m
  <2>1. \A i \in 1 .. n : a[i] = c[i]
    BY <1>5, <1>6, <1>9
  <2>2. b[n + 1] < c[n + 1] /\ n + 1 \in 1 .. Len(b) /\ n + 1 \in 1 .. Len(c)
    BY <1>3, <1>4, <1>5, <1>9
  <2>3. b[n + 1] \in Nat /\ c[n + 1] \in Nat
    BY <2>2
  <2>4. n # Len(a) => n + 1 \in 1 .. Len(a)
    BY <1>5
  <2>5. n = Len(a) \/ a[n + 1] < c[n + 1]
    <3>1. n # Len(a) => a[n + 1] \in Nat
      BY <2>4
    <3> QED
      BY <1>3, <2>2, <2>3, <3>1, SMTT(30)
  <2>6. n = Len(a) \/ a[n + 1] # c[n + 1]
    <3>1. n # Len(a) => a[n + 1] \in Nat
      BY <2>4
    <3> QED
      BY <2>3, <2>5, <3>1
  <2>7. Diverge(a, c, n)
    BY <1>4, <1>5, <1>9, <2>1, <2>6 DEF Diverge
  <2> QED
    BY <1>4, <1>9, <2>5, <2>7, CmpAt
<1> QED
  BY <1>5, <1>7, <1>8, <1>9

-----------------------------------------------------------------------------
(* Sorted lists of keys.                                                   *)

\* The keys of S below k.
Below(S, k) == {j \in S : CmpSeq(j, k) < 0}

\* Of two keys of a set the smaller one has fewer keys of the set below it.
LEMMA RankGrows ==
  ASSUME NEW S \in SUBSET Seq(Nat), IsFiniteSet(S), NEW j \in S, NEW k \in S, CmpSeq(j, k) < 0
  PROVE  /\ Cardinality(Below(S, j)) < Cardinality(Below(S, k))
         /\ Cardinality(Below(S, j)) \in Nat /\ Cardinality(Below(S, k)) \in Nat
<1>1. Below(S, j) \subseteq Below(S, k)
  <2> SUFFICES ASSUME NEW i \in S, CmpSeq(i, j) < 0 PROVE CmpSeq(i, k) < 0
    BY DEF Below
  <2>1. i \in Seq(Nat) /\ j \in Seq(Nat) /\ k \in Seq(Nat)
    OBVIOUS
  <2> QED
    BY <2>1, CmpTransitive
<1>2. j \in Below(S, k) /\ j \notin Below(S, j)
  <2>1. j \in Seq(Nat)
    OBVIOUS
  <2>2. CmpSeq(j, j) = 0
    BY <2>1, CmpEqual
  <2> QED
    BY <2>2 DEF Below
<1>3. IsFiniteSet(Below(S, k)) /\ IsFiniteSet(Below(S, j))
  <2>1. Below(S, k) \in SUBSET S /\ Below(S, j) \in SUBSET S
    BY DEF Below
  <2> QED
    BY <2>1, FS_Subset
<1>4. Cardinality(Below(S, j)) \in Nat /\ Cardinality(Below(S, k)) \in Nat
  BY <1>3, FS_CardinalityType
<1>5. /\ Cardinality(Below(S, j)) <= Cardinality(Below(S, k))
      /\ Cardinality(Below(S, k)) = Cardinality(Below(S, j)) => Below(S, k) = Below(S, j)
  BY <1>1, <1>3, FS_Subset
<1> QED
  BY <1>2, <1>4, <1>5

\* The ranks of the keys of a finite set are the numbers below its size.
LEMMA Ranks ==
  ASSUME NEW S \in SUBSET Seq(Nat), IsFiniteSet(S)
  PROVE  /\ \A k \in S : Cardinality(Below(S, k)) \in 0 .. Cardinality(S) - 1
         /\ \A i \in 1 .. Cardinality(S) : \E k \in S : Cardinality(Below(S, k)) = i - 1
<1> DEFINE n == Cardinality(S)
           rank == [k \in S |-> Cardinality(Below(S, k))]
<1>1. n \in Nat
  BY FS_CardinalityType
<1>2. ASSUME NEW k \in S PROVE Cardinality(Below(S, k)) \in 0 .. n - 1
  <2>1. Below(S, k) \in SUBSET S
    BY DEF Below
  <2>2. k \notin Below(S, k)
    <3>1. k \in Seq(Nat)
      OBVIOUS
    <3>2. CmpSeq(k, k) = 0
      BY <3>1, CmpEqual
    <3> QED
      BY <3>2 DEF Below
  <2>3. /\ IsFiniteSet(Below(S, k)) /\ Cardinality(Below(S, k)) <= n
        /\ n = Cardinality(Below(S, k)) => S = Below(S, k)
    BY <2>1, FS_Subset
  <2>4. Cardinality(Below(S, k)) \in Nat
    BY <2>3, FS_CardinalityType
  <2>5. Cardinality(Below(S, k)) # n
    BY <2>2, <2>3
  <2> HIDE DEF n
  <2> QED
    BY <1>1, <2>3, <2>4, <2>5
<1>3. ASSUME NEW j \in S, NEW k \in S, rank[j] = rank[k] PROVE j = k
  <2>1. j \in Seq(Nat) /\ k \in Seq(Nat)
    OBVIOUS
  <2>2. CmpSeq(j, k) < 0 \/ j = k \/ CmpSeq(k, j) < 0
    BY <2>1, CmpTotal
  <2>3. Cardinality(Below(S, j)) = Cardinality(Below(S, k))
    BY <1>3
  <2>4. CASE CmpSeq(j, k) < 0
    BY <2>3, <2>4, RankGrows
  <2>5. CASE CmpSeq(k, j) < 0
    BY <2>3, <2>5, RankGrows
  <2> QED
    BY <2>2, <2>4, <2>5
<1> HIDE DEF n
<1>4. rank \in [S -> 0 .. n - 1]
  BY <1>2
<1> HIDE DEF rank
<1>5. rank \in Injection(S, 0 .. n - 1)
  BY <1>3, <1>4 DEF Injection, IsInjective
<1>6. IsFiniteSet(0 .. n - 1) /\ Cardinality(0 .. n - 1) = n
  <2>1. 0 \in Int /\ n - 1 \in Int
    BY <1>1
  <2>2. IsFiniteSet(0 .. n - 1) /\ Cardinality(0 .. n - 1) = IF 0 > n - 1 THEN 0 ELSE n - 1 - 0 + 1
    BY <2>1, FS_Interval
  <2> QED
    BY <1>1, <2>2
<1>7. rank \in Surjection(S, 0 .. n - 1)
  <2>1. Cardinality(S) = Cardinality(0 .. n - 1)
    BY <1>6 DEF n
  <2> QED
    BY <1>5, <1>6, <2>1, FS_Injection
<1>8. \A r \in 0 .. n - 1 : \E k \in S : rank[k] = r
  BY <1>7 DEF Surjection
<1>9. ASSUME NEW i \in 1 .. n PROVE \E k \in S : Cardinality(Below(S, k)) = i - 1
  <2>1. i - 1 \in 0 .. n - 1
    BY <1>1
  <2> QED
    BY <1>8, <2>1 DEF rank
<1> QED
  BY <1>2, <1>9 DEF n

\* s lists the keys of S in order, each once.
Ascends(s) == \A i, j \in DOMAIN s : i < j => CmpSeq(s[i], s[j]) < 0
Lists(s, S) == s \in Seq(S) /\ Len(s) = Cardinality(S) /\ ToSet(s) = S /\ Ascends(s)

\* SortedKeys lists the keys of a finite set in order, each once.
LEMMA SortedKeysList ==
  ASSUME NEW S \in SUBSET Seq(Nat), IsFiniteSet(S)
  PROVE  Lists(SortedKeys(S), S)
<1> DEFINE s == SortedKeys(S)
           n == Cardinality(S)
<1>1. n \in Nat
  BY FS_CardinalityType
<1>2. s = [i \in 1 .. n |-> CHOOSE k \in S : Cardinality(Below(S, k)) = i - 1]
  BY DEF SortedKeys, Below
<1>3. ASSUME NEW i \in 1 .. n PROVE s[i] \in S /\ Cardinality(Below(S, s[i])) = i - 1
  <2>1. \E k \in S : Cardinality(Below(S, k)) = i - 1
    BY Ranks
  <2>2. s[i] = CHOOSE k \in S : Cardinality(Below(S, k)) = i - 1
    BY <1>2
  <2> HIDE DEF s
  <2> QED
    BY <2>1, <2>2
<1>4. DOMAIN s = 1 .. n
  BY <1>2
<1> HIDE DEF s
<1>5. s \in Seq(S) /\ Len(s) = n
  <2>1. s \in [1 .. n -> S]
    BY <1>2, <1>3
  <2> HIDE DEF n
  <2> QED
    BY <1>1, <2>1
<1>6. ASSUME NEW k \in S PROVE \E i \in 1 .. n : s[i] = k
  <2>1. PICK r \in 0 .. n - 1 : Cardinality(Below(S, k)) = r
    BY Ranks
  <2>2. r + 1 \in 1 .. n /\ (r + 1) - 1 = r
    <3> HIDE DEF n
    <3> QED
      BY <1>1
  <2>3. s[r + 1] \in S /\ Cardinality(Below(S, s[r + 1])) = r
    BY <1>3, <2>2
  <2>4. PICK j : j = s[r + 1]
    OBVIOUS
  <2>5. j \in Seq(Nat) /\ k \in Seq(Nat) /\ j \in S /\ Cardinality(Below(S, j)) = r
    BY <2>3, <2>4
  <2>6. CmpSeq(j, k) < 0 \/ j = k \/ CmpSeq(k, j) < 0
    BY <2>5, CmpTotal
  <2>7. ~(CmpSeq(j, k) < 0) /\ ~(CmpSeq(k, j) < 0)
    BY <2>1, <2>5, RankGrows
  <2> QED
    BY <2>2, <2>4, <2>6, <2>7
<1>7. ToSet(s) = S
  BY <1>3, <1>4, <1>6 DEF ToSet
<1>8. ASSUME NEW i \in 1 .. n, NEW j \in 1 .. n, i < j PROVE CmpSeq(s[i], s[j]) < 0
  <2>1. PICK a, b : a = s[i] /\ b = s[j]
    OBVIOUS
  <2>2. a \in S /\ b \in S /\ Cardinality(Below(S, a)) = i - 1 /\ Cardinality(Below(S, b)) = j - 1
    BY <1>3, <2>1
  <2>3. a \in Seq(Nat) /\ b \in Seq(Nat)
    BY <2>2
  <2>4. CmpSeq(a, b) < 0 \/ a = b \/ CmpSeq(b, a) < 0
    BY <2>3, CmpTotal
  <2>5. i \in Int /\ j \in Int /\ i - 1 < j - 1
    BY <1>1, <1>8
  <2>6. ~(CmpSeq(b, a) < 0)
    <3>1. CmpSeq(b, a) < 0 => j - 1 < i - 1
      BY <2>2, RankGrows
    <3> QED
      BY <2>5, <3>1
  <2>7. a # b
    BY <2>2, <2>5
  <2> QED
    BY <2>1, <2>4, <2>6, <2>7
<1>9. Lists(s, S)
  BY <1>4, <1>5, <1>7, <1>8 DEF Lists, Ascends
<1> QED
  BY <1>9 DEF s

-----------------------------------------------------------------------------
(* Records, runs and lists of records.                                     *)

\* Keys are strings of bytes.
LEMMA KeysAreBytes == AllKeys \subseteq Seq(Nat)
<1>1. 0 .. MaxByte \subseteq Nat
  OBVIOUS
<1>2. Seq(0 .. MaxByte) \subseteq Seq(Nat)
  BY <1>1, SeqMonotonic
<1> QED
  BY <1>2, MemTableAssumption

\* The parts of a record of a list.
LEMMA RecordParts ==
  ASSUME NEW recs \in Seq(Records), NEW i \in DOMAIN recs
  PROVE  /\ recs[i] \in Records /\ recs[i].k \in AllKeys /\ recs[i].k \in Seq(Nat)
         /\ recs[i].v \in Vals \cup {NoValue} /\ recs[i].del \in BOOLEAN
<1>1. recs[i] \in Records
  OBVIOUS
<1>2. PICK r : r = recs[i]
  OBVIOUS
<1>3. r \in Records
  BY <1>1, <1>2
<1>4. r.k \in AllKeys /\ r.v \in Vals \cup {NoValue} /\ r.del \in BOOLEAN
  BY <1>3 DEF Records
<1>5. r.k \in Seq(Nat)
  BY <1>4, KeysAreBytes
<1> QED
  BY <1>2, <1>3, <1>4, <1>5

\* The keys of a list of records: a finite set of keys, no more than the list is long.
LEMMA RecKeysFinite ==
  ASSUME NEW recs \in Seq(Records)
  PROVE  /\ RecKeys(recs) \in SUBSET AllKeys /\ RecKeys(recs) \in SUBSET Seq(Nat)
         /\ IsFiniteSet(RecKeys(recs)) /\ Cardinality(RecKeys(recs)) <= Len(recs)
         /\ Cardinality(RecKeys(recs)) \in Nat
<1>1. \A i \in DOMAIN recs : recs[i].k \in AllKeys
  BY RecordParts
<1>2. RecKeys(recs) \in SUBSET AllKeys
  BY <1>1 DEF RecKeys
<1> DEFINE f == [i \in 1 .. Len(recs) |-> recs[i].k]
<1>3. f \in Surjection(1 .. Len(recs), RecKeys(recs))
  <2>1. DOMAIN recs = 1 .. Len(recs)
    OBVIOUS
  <2> QED
    BY <2>1 DEF Surjection, RecKeys
<1>4. Len(recs) \in Nat /\ IsFiniteSet(1 .. Len(recs)) /\ Cardinality(1 .. Len(recs)) = Len(recs)
  <2>1. Len(recs) \in Nat /\ 1 \in Int /\ Len(recs) \in Int
    OBVIOUS
  <2>2. IsFiniteSet(1 .. Len(recs)) /\ Cardinality(1 .. Len(recs)) = IF 1 > Len(recs) THEN 0 ELSE Len(recs) - 1 + 1
    BY <2>1, FS_Interval
  <2> QED
    BY <2>1, <2>2
<1>5. IsFiniteSet(RecKeys(recs)) /\ Cardinality(RecKeys(recs)) <= Len(recs)
  <2> HIDE DEF f
  <2> QED
    BY <1>3, <1>4, FS_Surjection
<1> QED
  BY <1>2, <1>5, KeysAreBytes, FS_CardinalityType

\* The last record of a key in a list.
LastOf(recs, k) == Max({j \in DOMAIN recs : recs[j].k = k})

\* It is a record of the key, and no later one is.
LEMMA LastOfIsLast ==
  ASSUME NEW recs \in Seq(Records), NEW k \in RecKeys(recs)
  PROVE  /\ LastOf(recs, k) \in DOMAIN recs /\ recs[LastOf(recs, k)].k = k
         /\ \A j \in DOMAIN recs : recs[j].k = k => j <= LastOf(recs, k)
<1> DEFINE T == {j \in DOMAIN recs : recs[j].k = k}
<1>1. T \in SUBSET Nat /\ T # {} /\ Len(recs) \in Nat /\ \A x \in T : x <= Len(recs)
  BY DEF RecKeys
<1>2. Max(T) \in T /\ \A y \in T : y <= Max(T)
  <2> HIDE DEF T
  <2> QED
    BY <1>1, MaxGreatest
<1> QED
  BY <1>2 DEF LastOf

\* A record per key of a list, in key order: the keys are those of the list,
\* and the record of each is the last one.
LEMMA NewestPerKeyRun ==
  ASSUME NEW recs \in Seq(Records)
  PROVE  /\ NewestPerKey(recs) \in Seq(Records) /\ IsRun(NewestPerKey(recs))
         /\ Len(NewestPerKey(recs)) = Cardinality(RecKeys(recs))
         /\ RecKeys(NewestPerKey(recs)) = RecKeys(recs)
         /\ \A i \in DOMAIN NewestPerKey(recs) :
              NewestPerKey(recs)[i] = recs[LastOf(recs, NewestPerKey(recs)[i].k)]
<1> DEFINE K == RecKeys(recs)
           run == NewestPerKey(recs)
<1>1. K \in SUBSET Seq(Nat) /\ IsFiniteSet(K)
  BY RecKeysFinite
<1>2. PICK ks : ks = SortedKeys(K)
  OBVIOUS
<1>3. Lists(ks, K)
  BY <1>1, <1>2, SortedKeysList
<1>4. ks \in Seq(K) /\ Len(ks) = Cardinality(K) /\ ToSet(ks) = K /\ DOMAIN ks = 1 .. Len(ks)
  BY <1>3 DEF Lists
<1>5. run = [i \in DOMAIN ks |-> recs[LastOf(recs, ks[i])]]
  BY <1>2 DEF NewestPerKey, LastOf
<1> HIDE DEF run
<1>6. ASSUME NEW i \in DOMAIN ks
      PROVE  run[i] \in Records /\ run[i].k = ks[i] /\ run[i] = recs[LastOf(recs, ks[i])]
  <2>1. ks[i] \in K
    BY <1>4
  <2>2. LastOf(recs, ks[i]) \in DOMAIN recs /\ recs[LastOf(recs, ks[i])].k = ks[i]
    BY <2>1, LastOfIsLast
  <2>3. run[i] = recs[LastOf(recs, ks[i])]
    BY <1>5
  <2>4. recs[LastOf(recs, ks[i])] \in Records
    BY <2>2
  <2> QED
    BY <2>2, <2>3, <2>4
<1>7. DOMAIN run = DOMAIN ks /\ run \in Seq(Records) /\ Len(run) = Len(ks)
  <2>1. run \in [1 .. Len(ks) -> Records] /\ Len(ks) \in Nat
    BY <1>4, <1>5, <1>6
  <2> QED
    BY <1>4, <2>1
<1>8. IsRun(run)
  BY <1>3, <1>6, <1>7 DEF Lists, Ascends, IsRun
<1>9. RecKeys(run) = K
  <2>1. RecKeys(run) = {ks[i] : i \in DOMAIN ks}
    BY <1>6, <1>7 DEF RecKeys
  <2> QED
    BY <1>4, <2>1 DEF ToSet
<1>10. \A i \in DOMAIN run : run[i] = recs[LastOf(recs, run[i].k)]
  BY <1>6, <1>7
<1> QED
  BY <1>4, <1>7, <1>8, <1>9, <1>10 DEF run

\* A key of a run has one record in it.
LEMMA RunOnce ==
  ASSUME NEW run \in Seq(Records), IsRun(run), NEW i \in DOMAIN run, NEW j \in DOMAIN run,
         run[i].k = run[j].k
  PROVE  i = j
<1>1. \A m \in DOMAIN run : run[m].k \in Seq(Nat)
  BY RecordParts
<1>2. CmpSeq(run[i].k, run[j].k) = 0 /\ CmpSeq(run[j].k, run[i].k) = 0
  BY <1>1, CmpEqual
<1>3. ~(i < j) /\ ~(j < i)
  BY <1>2 DEF IsRun
<1> QED
  BY <1>3

\* RecOf finds it.
LEMMA RecOfRun ==
  ASSUME NEW run \in Seq(Records), IsRun(run), NEW i \in DOMAIN run
  PROVE  RecOf(run, run[i].k) = run[i]
<1> DEFINE c == CHOOSE j \in DOMAIN run : run[j].k = run[i].k
<1>1. c \in DOMAIN run /\ run[c].k = run[i].k
  OBVIOUS
<1> HIDE DEF c
<1>2. c = i
  BY <1>1, RunOnce
<1> QED
  BY <1>2 DEF RecOf, c

-----------------------------------------------------------------------------
(* The binary search in a run.                                             *)

\* One round of the search.
Halve(run, k, s) ==
  LET mid == (s.lo + s.hi) \div 2
  IN CASE s.lo >= s.hi -> s
       [] s.lo < s.hi /\ CmpKeys(run[mid + 1].k, k) < 0 -> [s EXCEPT !.lo = mid + 1]
       [] OTHER -> [s EXCEPT !.hi = mid]

\* g holds the bounds after each of n rounds.
Searches(g, run, k, n) ==
  /\ g[0] = [lo |-> 0, hi |-> Len(run)]
  /\ \A i \in 1 .. n : g[i] = Halve(run, k, g[i - 1])

\* What a round makes of the bounds.
LEMMA HalveBounds ==
  ASSUME NEW run, NEW k, NEW s \in [lo : Nat, hi : Nat]
  PROVE  \E mid \in Nat :
           /\ s.lo >= s.hi => Halve(run, k, s) = s
           /\ s.lo < s.hi => s.lo <= mid /\ mid < s.hi
           /\ s.lo < s.hi /\ CmpSeq(run[mid + 1].k, k) < 0 =>
                Halve(run, k, s) = [lo |-> mid + 1, hi |-> s.hi]
           /\ s.lo < s.hi /\ ~(CmpSeq(run[mid + 1].k, k) < 0) =>
                Halve(run, k, s) = [lo |-> s.lo, hi |-> mid]
<1>1. PICK lo \in Nat, hi \in Nat : lo = s.lo /\ hi = s.hi /\ s = [lo |-> lo, hi |-> hi]
  OBVIOUS
<1>2. PICK mid \in Nat : mid = (lo + hi) \div 2 /\ (lo < hi => lo <= mid /\ mid < hi)
  OBVIOUS
<1>3. Halve(run, k, s) =
        CASE lo >= hi -> s
          [] lo < hi /\ CmpSeq(run[mid + 1].k, k) < 0 -> [s EXCEPT !.lo = mid + 1]
          [] OTHER -> [s EXCEPT !.hi = mid]
  BY <1>1, <1>2 DEF Halve, CmpKeys
<1>4. lo >= hi => Halve(run, k, s) = s
  BY <1>3
<1>5. lo < hi /\ CmpSeq(run[mid + 1].k, k) < 0 => Halve(run, k, s) = [lo |-> mid + 1, hi |-> hi]
  BY <1>1, <1>3
<1>6. lo < hi /\ ~(CmpSeq(run[mid + 1].k, k) < 0) => Halve(run, k, s) = [lo |-> lo, hi |-> mid]
  BY <1>1, <1>3
<1> QED
  BY <1>1, <1>2, <1>4, <1>5, <1>6

\* The recursion of the search has a solution.
LEMMA SearchExists ==
  ASSUME NEW run \in Seq(Records), NEW k
  PROVE  \E g : g = [n \in 0 .. Len(run) |->
                       IF n = 0 THEN [lo |-> 0, hi |-> Len(run)] ELSE Halve(run, k, g[n - 1])]
<1> DEFINE C == [lo : Nat, hi : Nat]
           F == [p \in C \X Records |-> Halve(run, k, p[1])]
           b == [lo |-> 0, hi |-> Len(run)]
<1>1. b \in C
  OBVIOUS
<1>2. ASSUME NEW s \in C PROVE Halve(run, k, s) \in C
  <2>1. s.lo \in Nat /\ s.hi \in Nat
    OBVIOUS
  <2>2. PICK mid \in Nat :
           /\ s.lo >= s.hi => Halve(run, k, s) = s
           /\ s.lo < s.hi /\ CmpSeq(run[mid + 1].k, k) < 0 =>
                Halve(run, k, s) = [lo |-> mid + 1, hi |-> s.hi]
           /\ s.lo < s.hi /\ ~(CmpSeq(run[mid + 1].k, k) < 0) =>
                Halve(run, k, s) = [lo |-> s.lo, hi |-> mid]
    BY HalveBounds
  <2>3. [lo |-> mid + 1, hi |-> s.hi] \in C /\ [lo |-> s.lo, hi |-> mid] \in C
    BY <2>1
  <2>4. s.lo >= s.hi \/ s.lo < s.hi
    BY <2>1
  <2> HIDE DEF C
  <2> QED
    BY <2>2, <2>3, <2>4
<1> HIDE DEF C, b
<1>3. F \in [C \X Records -> C]
  BY <1>2
<1>4. \A s \in C, r \in Records : F[<<s, r>>] = Halve(run, k, s)
  OBVIOUS
<1> HIDE DEF F
<1>5. PICK h \in [0 .. Len(run) -> C] : Folds(h, F, b, run)
  BY <1>1, <1>3, FoldExists
<1>6. ASSUME NEW n \in 0 .. Len(run)
      PROVE  h[n] = IF n = 0 THEN b ELSE Halve(run, k, h[n - 1])
  <2>1. CASE n = 0
    BY <1>5, <2>1 DEF Folds
  <2>2. CASE n # 0
    <3>1. n \in 1 .. Len(run) /\ n - 1 \in 0 .. Len(run)
      BY <2>2
    <3>2. h[n] = F[<<h[n - 1], run[n]>>] /\ h[n - 1] \in C /\ run[n] \in Records
      BY <1>5, <3>1 DEF Folds
    <3> QED
      BY <1>4, <2>2, <3>2
  <2> QED
    BY <2>1, <2>2
<1>7. h = [n \in 0 .. Len(run) |-> IF n = 0 THEN b ELSE Halve(run, k, h[n - 1])]
  BY <1>6, Zenon
<1> QED
  BY <1>7, Zenon DEF b

\* The bounds: everything below lo is below the key, nothing from hi on is, and
\* every round takes one position away.
Narrows(s, run, k, n) ==
  /\ s \in [lo : Nat, hi : Nat] /\ s.lo <= s.hi /\ s.hi <= Len(run)
  /\ \A i \in 1 .. s.lo : CmpSeq(run[i].k, k) < 0
  /\ \A i \in s.hi + 1 .. Len(run) : ~(CmpSeq(run[i].k, k) < 0)
  /\ s.hi - s.lo <= Len(run) - n

\* A round keeps the bounds.
LEMMA HalveNarrows ==
  ASSUME NEW run \in Seq(Records), IsRun(run), NEW k \in Seq(Nat), NEW n \in 1 .. Len(run), NEW s,
         Narrows(s, run, k, n - 1)
  PROVE  Narrows(Halve(run, k, s), run, k, n)
<1>1. s \in [lo : Nat, hi : Nat] /\ s.lo \in Nat /\ s.hi \in Nat
  BY DEF Narrows
<1>2. PICK lo \in Nat, hi \in Nat : lo = s.lo /\ hi = s.hi
  BY <1>1
<1>3. PICK mid \in Nat :
         /\ lo >= hi => Halve(run, k, s) = s
         /\ lo < hi => lo <= mid /\ mid < hi
         /\ lo < hi /\ CmpSeq(run[mid + 1].k, k) < 0 =>
              Halve(run, k, s) = [lo |-> mid + 1, hi |-> hi]
         /\ lo < hi /\ ~(CmpSeq(run[mid + 1].k, k) < 0) =>
              Halve(run, k, s) = [lo |-> lo, hi |-> mid]
  BY <1>1, <1>2, HalveBounds
<1>4. /\ lo <= hi /\ hi <= Len(run) /\ hi - lo <= Len(run) - (n - 1)
      /\ Len(run) \in Nat /\ DOMAIN run = 1 .. Len(run)
  BY <1>2 DEF Narrows
<1>5. /\ \A i \in 1 .. lo : CmpSeq(run[i].k, k) < 0
      /\ \A i \in hi + 1 .. Len(run) : ~(CmpSeq(run[i].k, k) < 0)
  BY <1>2 DEF Narrows
<1>6. \A i \in 1 .. Len(run) : run[i].k \in Seq(Nat)
  BY <1>4, RecordParts
<1>7. CASE lo >= hi
  <2>1. Halve(run, k, s) = s /\ hi - lo <= Len(run) - n
    BY <1>3, <1>4, <1>7
  <2> QED
    BY <1>2, <2>1 DEF Narrows
<1>8. CASE lo < hi /\ CmpSeq(run[mid + 1].k, k) < 0
  <2>1. PICK t : t = [lo |-> mid + 1, hi |-> hi]
    OBVIOUS
  <2>2. t = Halve(run, k, s) /\ t.lo = mid + 1 /\ t.hi = hi /\ t \in [lo : Nat, hi : Nat]
    BY <1>3, <1>8, <2>1
  <2>3. mid + 1 \in 1 .. Len(run) /\ mid + 1 <= hi /\ hi - (mid + 1) <= Len(run) - n
    BY <1>3, <1>4, <1>8
  <2>4. ASSUME NEW i \in 1 .. mid + 1 PROVE CmpSeq(run[i].k, k) < 0
    <3>1. CASE i = mid + 1
      BY <1>8, <3>1
    <3>2. CASE i # mid + 1
      <4>1. i \in DOMAIN run /\ mid + 1 \in DOMAIN run /\ i < mid + 1
        BY <1>4, <2>3, <3>2
      <4>2. CmpSeq(run[i].k, run[mid + 1].k) < 0
        BY <4>1 DEF IsRun
      <4>3. run[i].k \in Seq(Nat) /\ run[mid + 1].k \in Seq(Nat)
        BY <4>1, RecordParts
      <4> QED
        BY <1>8, <4>2, <4>3, CmpTransitive
    <3> QED
      BY <3>1, <3>2
  <2>5. Narrows(t, run, k, n)
    BY <1>4, <1>5, <2>2, <2>3, <2>4 DEF Narrows
  <2> QED
    BY <2>2, <2>5
<1>9. CASE lo < hi /\ ~(CmpSeq(run[mid + 1].k, k) < 0)
  <2>1. PICK t : t = [lo |-> lo, hi |-> mid]
    OBVIOUS
  <2>2. t = Halve(run, k, s) /\ t.lo = lo /\ t.hi = mid /\ t \in [lo : Nat, hi : Nat]
    BY <1>3, <1>9, <2>1
  <2>3. mid + 1 \in 1 .. Len(run) /\ lo <= mid /\ mid <= Len(run) /\ mid - lo <= Len(run) - n
    BY <1>3, <1>4, <1>9
  <2>4. ASSUME NEW i \in mid + 1 .. Len(run), CmpSeq(run[i].k, k) < 0 PROVE FALSE
    <3>1. CASE i = mid + 1
      BY <1>9, <2>4, <3>1
    <3>2. CASE i # mid + 1
      <4>1. i \in DOMAIN run /\ mid + 1 \in DOMAIN run /\ mid + 1 < i
        BY <1>4, <2>3, <3>2
      <4>2. CmpSeq(run[mid + 1].k, run[i].k) < 0
        BY <4>1 DEF IsRun
      <4>3. run[i].k \in Seq(Nat) /\ run[mid + 1].k \in Seq(Nat)
        BY <4>1, RecordParts
      <4>4. CmpSeq(run[mid + 1].k, k) < 0
        BY <2>4, <4>2, <4>3, CmpTransitive
      <4> QED
        BY <1>9, <4>4
    <3> QED
      BY <3>1, <3>2
  <2>5. Narrows(t, run, k, n)
    BY <1>4, <1>5, <2>2, <2>3, <2>4 DEF Narrows
  <2> QED
    BY <2>2, <2>5
<1> QED
  BY <1>4, <1>7, <1>8, <1>9

\* After the last round the search has found where the key belongs.
LEMMA SearchEnds ==
  ASSUME NEW run \in Seq(Records), IsRun(run), NEW k \in Seq(Nat), NEW g,
         Searches(g, run, k, Len(run))
  PROVE  /\ Narrows(g[Len(run)], run, k, Len(run))
         /\ g[Len(run)].lo = g[Len(run)].hi
<1> DEFINE T == {n \in 0 .. Len(run) : Narrows(g[n], run, k, n)}
<1>1. Len(run) \in Nat
  OBVIOUS
<1>2. 0 \in T
  <2>1. PICK s : s = [lo |-> 0, hi |-> Len(run)]
    OBVIOUS
  <2>2. s.lo = 0 /\ s.hi = Len(run) /\ s \in [lo : Nat, hi : Nat] /\ g[0] = s
    BY <1>1, <2>1 DEF Searches
  <2>3. Narrows(s, run, k, 0)
    BY <1>1, <2>2 DEF Narrows
  <2> QED
    BY <1>1, <2>2, <2>3
<1>3. ASSUME NEW i \in 1 .. Len(run), i - 1 \in T PROVE i \in T
  <2>1. g[i] = Halve(run, k, g[i - 1]) /\ Narrows(g[i - 1], run, k, i - 1)
    BY <1>3 DEF Searches
  <2>2. Narrows(g[i], run, k, i)
    BY <2>1, HalveNarrows
  <2> QED
    BY <2>2
<1> HIDE DEF T
<1>4. \A i \in 0 .. Len(run) : i \in T
  BY <1>1, <1>2, <1>3, Induct
<1>5. Narrows(g[Len(run)], run, k, Len(run))
  BY <1>1, <1>4 DEF T
<1>6. PICK s : s = g[Len(run)]
  OBVIOUS
<1>7. s.lo = s.hi
  BY <1>1, <1>5, <1>6 DEF Narrows
<1> QED
  BY <1>5, <1>6, <1>7

\* The binary search of findRun ends and finds the record of a key in a sorted run if
\* there is one.
THEOREM FindRun ==
  ASSUME NEW run \in Seq(Records), IsRun(run), NEW k \in AllKeys
  PROVE  /\ findRun(run, k) # 0 <=> k \in RecKeys(run)
         /\ k \in RecKeys(run) => run[findRun(run, k)] = RecOf(run, k)
<1> DEFINE g == CHOOSE x : x = [n \in 0 .. Len(run) |->
                     IF n = 0 THEN [lo |-> 0, hi |-> Len(run)] ELSE Halve(run, k, x[n - 1])]
           lo == g[Len(run)].lo
<1>1. g = [n \in 0 .. Len(run) |->
             IF n = 0 THEN [lo |-> 0, hi |-> Len(run)] ELSE Halve(run, k, g[n - 1])]
  <2>1. \E x : x = [n \in 0 .. Len(run) |->
             IF n = 0 THEN [lo |-> 0, hi |-> Len(run)] ELSE Halve(run, k, x[n - 1])]
    BY SearchExists
  <2> QED
    BY <2>1, Zenon
<1>2. findRun(run, k) = IF lo < Len(run) /\ CmpKeys(run[lo + 1].k, k) = 0 THEN lo + 1 ELSE 0
  BY DEF findRun, Halve
<1> HIDE DEF g
<1>3. Searches(g, run, k, Len(run))
  <2>1. Len(run) \in Nat /\ 0 \in 0 .. Len(run) /\ \A i \in 1 .. Len(run) : i \in 0 .. Len(run) /\ i # 0
    OBVIOUS
  <2> QED
    BY <1>1, <2>1, Zenon DEF Searches
<1>4. k \in Seq(Nat)
  BY KeysAreBytes
<1>5. Narrows(g[Len(run)], run, k, Len(run)) /\ g[Len(run)].lo = g[Len(run)].hi
  BY <1>3, <1>4, SearchEnds
<1> HIDE DEF lo
<1>6. /\ lo \in Nat /\ lo <= Len(run) /\ Len(run) \in Nat /\ DOMAIN run = 1 .. Len(run)
      /\ \A i \in 1 .. lo : CmpSeq(run[i].k, k) < 0
      /\ \A i \in lo + 1 .. Len(run) : ~(CmpSeq(run[i].k, k) < 0)
  BY <1>5 DEF Narrows, lo
<1>7. \A i \in 1 .. Len(run) : run[i].k \in Seq(Nat) /\ (CmpSeq(run[i].k, k) = 0 <=> run[i].k = k)
  BY <1>4, <1>6, RecordParts, CmpEqual
<1>8. ASSUME NEW i \in 1 .. Len(run), run[i].k = k PROVE i = lo + 1 /\ findRun(run, k) = i
  <2>1. CmpSeq(run[i].k, k) = 0
    BY <1>7, <1>8
  <2>2. ~(i <= lo)
    BY <1>6, <2>1
  <2>3. lo + 1 \in 1 .. Len(run) /\ lo + 1 <= i
    BY <1>6, <2>2
  <2>4. ~(lo + 1 < i)
    <3> SUFFICES ASSUME lo + 1 < i PROVE FALSE
      OBVIOUS
    <3>1. CmpSeq(run[lo + 1].k, run[i].k) < 0
      BY <1>6, <2>3 DEF IsRun
    <3> QED
      BY <1>6, <1>8, <2>3, <3>1
  <2>5. i = lo + 1
    BY <1>6, <2>3, <2>4
  <2> QED
    BY <1>2, <1>6, <2>1, <2>5 DEF CmpKeys
<1>9. findRun(run, k) # 0 => k \in RecKeys(run)
  <2> SUFFICES ASSUME findRun(run, k) # 0 PROVE k \in RecKeys(run)
    OBVIOUS
  <2>1. lo < Len(run) /\ CmpSeq(run[lo + 1].k, k) = 0
    BY <1>2 DEF CmpKeys
  <2>2. lo + 1 \in DOMAIN run /\ run[lo + 1].k = k
    BY <1>6, <1>7, <2>1
  <2> QED
    BY <2>2 DEF RecKeys
<1>10. ASSUME k \in RecKeys(run) PROVE findRun(run, k) # 0 /\ run[findRun(run, k)] = RecOf(run, k)
  <2>1. PICK i \in DOMAIN run : run[i].k = k
    BY <1>10 DEF RecKeys
  <2>2. findRun(run, k) = i /\ i # 0
    BY <1>6, <1>8, <2>1
  <2>3. RecOf(run, k) = run[i]
    BY <2>1, RecOfRun
  <2> QED
    BY <2>2, <2>3
<1> QED
  BY <1>9, <1>10

-----------------------------------------------------------------------------
(* What decides a key: the last record of the delta, else the record of    *)
(* the newest run that has the key.                                        *)

IsLadder(rs) == rs \in Seq(Seq(Records)) /\ \A i \in DOMAIN rs : IsRun(rs[i])

TopRec(rs, k) == RecOf(rs[Max(Holders(rs, k))], k)

Newest(rs, delta, k) ==
  IF k \in RecKeys(delta) THEN <<delta[LastOf(delta, k)]>>
  ELSE IF Holders(rs, k) # {} THEN <<TopRec(rs, k)>> ELSE <<>>

\* The newest run that has the key.
LEMMA TopHolder ==
  ASSUME NEW rs \in Seq(Seq(Records)), NEW k, Holders(rs, k) # {}
  PROVE  /\ Max(Holders(rs, k)) \in DOMAIN rs /\ k \in RecKeys(rs[Max(Holders(rs, k))])
         /\ \A i \in Holders(rs, k) : i <= Max(Holders(rs, k))
<1> DEFINE T == Holders(rs, k)
<1>1. T \in SUBSET Nat /\ Len(rs) \in Nat /\ \A x \in T : x <= Len(rs)
  BY DEF Holders
<1>2. Max(T) \in T /\ \A y \in T : y <= Max(T)
  <2> HIDE DEF T
  <2> QED
    BY <1>1, MaxGreatest DEF T
<1> QED
  BY <1>2 DEF Holders

\* A number that is in the set and not below any of its members is Max.
LEMMA MaxIs ==
  ASSUME NEW T \in SUBSET Nat, NEW m \in T, \A y \in T : y <= m
  PROVE  Max(T) = m
<1>1. Max(T) \in T /\ \A y \in T : y <= Max(T)
  BY MaxGreatest, T # {}, m \in Nat
<1>2. m <= Max(T) /\ Max(T) <= m /\ Max(T) \in Nat /\ m \in Nat
  BY <1>1
<1> QED
  BY <1>2

\* Who has a key is what the runs hold.
LEMMA HoldersHold ==
  ASSUME NEW rs \in Seq(Seq(Records)), NEW k
  PROVE  Holders(rs, k) # {} <=> k \in RunKeys(rs)
BY DEF Holders, RunKeys

\* The newest run of two ladders, one after the other.
LEMMA TopConcat ==
  ASSUME NEW D \in Seq(Seq(Records)), NEW R \in Seq(Seq(Records)), NEW k
  PROVE  /\ Holders(D \o R, k) # {} <=> Holders(D, k) # {} \/ Holders(R, k) # {}
         /\ Holders(R, k) # {} => TopRec(D \o R, k) = TopRec(R, k)
         /\ Holders(R, k) = {} /\ Holders(D, k) # {} => TopRec(D \o R, k) = TopRec(D, k)
<1>1. /\ Len(D) \in Nat /\ Len(R) \in Nat /\ D \o R \in Seq(Seq(Records))
      /\ DOMAIN D = 1 .. Len(D) /\ DOMAIN R = 1 .. Len(R) /\ DOMAIN (D \o R) = 1 .. Len(D) + Len(R)
  OBVIOUS
<1>2. PICK n \in Nat, m \in Nat : n = Len(D) /\ m = Len(R)
  BY <1>1
<1>3. PICK A : A = D \o R
  OBVIOUS
<1>4. /\ \A i \in 1 .. n : A[i] = D[i]
      /\ \A i \in 1 .. m : A[n + i] = R[i]
  BY <1>1, <1>2, <1>3, ConcatProperties
<1>5. /\ \A i \in 1 .. n : i \in Holders(A, k) <=> i \in Holders(D, k)
      /\ \A i \in 1 .. m : n + i \in Holders(A, k) <=> i \in Holders(R, k)
      /\ \A i \in Holders(A, k) : i \in 1 .. n \/ (i - n \in 1 .. m /\ n + (i - n) = i)
  BY <1>1, <1>2, <1>3, <1>4 DEF Holders
<1>6. /\ Holders(D, k) \subseteq 1 .. n /\ Holders(R, k) \subseteq 1 .. m
      /\ Holders(A, k) \in SUBSET Nat
  BY <1>1, <1>2, <1>3 DEF Holders
<1>7. Holders(A, k) # {} <=> Holders(D, k) # {} \/ Holders(R, k) # {}
  <2>1. ASSUME NEW i \in Holders(A, k) PROVE Holders(D, k) # {} \/ Holders(R, k) # {}
    BY <1>5
  <2>2. ASSUME NEW i \in Holders(D, k) PROVE Holders(A, k) # {}
    BY <1>5, <1>6
  <2>3. ASSUME NEW i \in Holders(R, k) PROVE Holders(A, k) # {}
    BY <1>5, <1>6
  <2> QED
    BY <2>1, <2>2, <2>3
<1>8. ASSUME Holders(R, k) # {} PROVE TopRec(A, k) = TopRec(R, k)
  <2>1. PICK t : t = Max(Holders(R, k))
    OBVIOUS
  <2>2. t \in Holders(R, k) /\ t \in 1 .. m /\ \A i \in Holders(R, k) : i <= t
    BY <1>6, <1>8, <2>1, TopHolder DEF Holders
  <2>3. n + t \in Holders(A, k) /\ A[n + t] = R[t]
    BY <1>4, <1>5, <2>2
  <2>4. ASSUME NEW i \in Holders(A, k) PROVE i <= n + t
    <3>1. CASE i \in 1 .. n
      BY <2>2, <3>1
    <3>2. CASE i - n \in 1 .. m /\ n + (i - n) = i
      <4>1. i - n \in Holders(R, k)
        BY <1>5, <3>2
      <4>2. i - n <= t /\ i \in Nat
        BY <1>6, <2>2, <4>1
      <4> QED
        BY <2>2, <4>2
    <3> QED
      BY <1>5, <3>1, <3>2
  <2>5. Max(Holders(A, k)) = n + t
    BY <1>6, <2>3, <2>4, MaxIs
  <2> QED
    BY <2>1, <2>3, <2>5 DEF TopRec
<1>9. ASSUME Holders(R, k) = {}, Holders(D, k) # {} PROVE TopRec(A, k) = TopRec(D, k)
  <2>1. PICK t : t = Max(Holders(D, k))
    OBVIOUS
  <2>2. t \in Holders(D, k) /\ t \in 1 .. n /\ \A i \in Holders(D, k) : i <= t
    BY <1>6, <1>9, <2>1, TopHolder DEF Holders
  <2>3. t \in Holders(A, k) /\ A[t] = D[t]
    BY <1>4, <1>5, <2>2
  <2>4. ASSUME NEW i \in Holders(A, k) PROVE i <= t
    <3>1. i \in 1 .. n
      BY <1>5, <1>9
    <3> QED
      BY <1>5, <2>2, <3>1
  <2>5. Max(Holders(A, k)) = t
    BY <1>6, <2>3, <2>4, MaxIs
  <2> QED
    BY <2>1, <2>3, <2>5 DEF TopRec
<1> QED
  BY <1>3, <1>7, <1>8, <1>9

\* One run as a ladder.
LEMMA TopSingle ==
  ASSUME NEW run \in Seq(Records), NEW k
  PROVE  /\ Holders(<<run>>, k) # {} <=> k \in RecKeys(run)
         /\ k \in RecKeys(run) => TopRec(<<run>>, k) = RecOf(run, k)
<1>1. DOMAIN <<run>> = {1} /\ <<run>>[1] = run
  OBVIOUS
<1>2. PICK s : s = <<run>>
  OBVIOUS
<1>3. Holders(s, k) = IF k \in RecKeys(run) THEN {1} ELSE {}
  BY <1>1, <1>2 DEF Holders
<1>4. Max({1}) = 1
  BY MaxIs, {1} \in SUBSET Nat, 1 \in {1}, \A y \in {1} : y <= 1
<1> QED
  BY <1>1, <1>2, <1>3, <1>4 DEF TopRec

\* A lookup finds what decides the key.
LEMMA LookupNewest ==
  ASSUME NEW rs, IsLadder(rs), NEW delta \in Seq(Records), NEW k \in AllKeys
  PROVE  Lookup(rs, delta, k) = Newest(rs, delta, k)
<1> DEFINE B == {j \in 1 .. Len(delta) : delta[j].k = k}
           H == {i \in 1 .. Len(rs) : findRun(rs[i], k) # 0}
           b == SelectLastInSeq(delta, LAMBDA r : r.k = k)
           i == SelectLastInSeq(rs, LAMBDA run : findRun(run, k) # 0)
<1>1. rs \in Seq(Seq(Records)) /\ DOMAIN rs = 1 .. Len(rs) /\ DOMAIN delta = 1 .. Len(delta)
  BY DEF IsLadder
<1>2. b = IF B # {} THEN Max(B) ELSE 0
  BY DEF SelectLastInSeq
<1>3. i = IF H # {} THEN Max(H) ELSE 0
  BY DEF SelectLastInSeq
<1>4. ASSUME NEW n \in DOMAIN rs
      PROVE  /\ findRun(rs[n], k) # 0 <=> k \in RecKeys(rs[n])
             /\ k \in RecKeys(rs[n]) => rs[n][findRun(rs[n], k)] = RecOf(rs[n], k)
  <2>1. rs[n] \in Seq(Records) /\ IsRun(rs[n])
    BY <1>1 DEF IsLadder
  <2> QED
    BY <2>1, FindRun
<1>5. H = Holders(rs, k)
  BY <1>1, <1>4 DEF Holders
<1>6. B # {} <=> k \in RecKeys(delta)
  BY <1>1 DEF RecKeys
<1>7. LastOf(delta, k) = Max(B)
  BY <1>1 DEF LastOf
<1>8. Lookup(rs, delta, k) = CASE b # 0 -> <<delta[b]>>
                               [] b = 0 /\ i # 0 -> <<rs[i][findRun(rs[i], k)]>>
                               [] OTHER -> <<>>
  BY DEF Lookup
<1> HIDE DEF B, H, b, i
<1>9. CASE k \in RecKeys(delta)
  <2>1. b = LastOf(delta, k) /\ b \in DOMAIN delta
    BY <1>2, <1>6, <1>7, <1>9, LastOfIsLast
  <2>2. b # 0
    BY <1>1, <2>1
  <2> QED
    BY <1>8, <1>9, <2>1, <2>2 DEF Newest
<1>10. CASE k \notin RecKeys(delta) /\ Holders(rs, k) # {}
  <2>1. b = 0 /\ i = Max(Holders(rs, k))
    BY <1>2, <1>3, <1>5, <1>6, <1>10
  <2>2. i \in DOMAIN rs /\ k \in RecKeys(rs[i])
    BY <1>1, <1>10, <2>1, TopHolder
  <2>3. i # 0 /\ rs[i][findRun(rs[i], k)] = RecOf(rs[i], k)
    BY <1>1, <1>4, <2>2
  <2> QED
    BY <1>8, <1>10, <2>1, <2>3 DEF Newest, TopRec
<1>11. CASE k \notin RecKeys(delta) /\ Holders(rs, k) = {}
  <2>1. b = 0 /\ i = 0
    BY <1>2, <1>3, <1>5, <1>6, <1>11
  <2> QED
    BY <1>8, <1>11, <2>1 DEF Newest
<1> QED
  BY <1>9, <1>10, <1>11

-----------------------------------------------------------------------------
(* Runs merged into one.                                                   *)

\* The keys of a ladder are a finite set of keys.
LEMMA RunKeysFinite ==
  ASSUME NEW rs \in Seq(Seq(Records))
  PROVE  /\ RunKeys(rs) \in SUBSET AllKeys /\ RunKeys(rs) \in SUBSET Seq(Nat)
         /\ IsFiniteSet(RunKeys(rs)) /\ Cardinality(RunKeys(rs)) \in Nat
<1>1. \A i \in DOMAIN rs : RecKeys(rs[i]) \in SUBSET AllKeys /\ IsFiniteSet(RecKeys(rs[i]))
  <2> SUFFICES ASSUME NEW i \in DOMAIN rs
               PROVE  RecKeys(rs[i]) \in SUBSET AllKeys /\ IsFiniteSet(RecKeys(rs[i]))
    OBVIOUS
  <2>1. rs[i] \in Seq(Records)
    OBVIOUS
  <2> QED
    BY <2>1, RecKeysFinite
<1> DEFINE P == {RecKeys(rs[i]) : i \in DOMAIN rs}
           f == [i \in 1 .. Len(rs) |-> RecKeys(rs[i])]
<1>2. IsFiniteSet(P)
  <2>1. DOMAIN rs = 1 .. Len(rs) /\ Len(rs) \in Int
    OBVIOUS
  <2>2. f \in Surjection(1 .. Len(rs), P)
    BY <2>1 DEF Surjection
  <2>3. IsFiniteSet(1 .. Len(rs))
    BY <2>1, FS_Interval
  <2> HIDE DEF f, P
  <2> QED
    BY <2>2, <2>3, FS_Surjection
<1>3. IsFiniteSet(UNION P)
  BY <1>1, <1>2, FS_UNION
<1>4. RunKeys(rs) = UNION P
  BY DEF RunKeys
<1>5. RunKeys(rs) \in SUBSET AllKeys
  BY <1>1, <1>4
<1> QED
  BY <1>3, <1>4, <1>5, KeysAreBytes, FS_CardinalityType

\* The record that decides a key in a ladder is one of its records, of that key.
LEMMA TopRecIn ==
  ASSUME NEW rs, IsLadder(rs), NEW k, k \in RunKeys(rs)
  PROVE  /\ TopRec(rs, k) \in Records /\ TopRec(rs, k).k = k
         /\ \E i \in DOMAIN rs : TopRec(rs, k) \in ToSet(rs[i])
<1>1. rs \in Seq(Seq(Records))
  BY DEF IsLadder
<1>2. Holders(rs, k) # {}
  BY <1>1, HoldersHold
<1>3. PICK t : t = Max(Holders(rs, k))
  OBVIOUS
<1>4. t \in DOMAIN rs /\ k \in RecKeys(rs[t])
  BY <1>1, <1>2, <1>3, TopHolder
<1>5. PICK run : run = rs[t]
  OBVIOUS
<1>6. run \in Seq(Records) /\ IsRun(run)
  BY <1>1, <1>4, <1>5 DEF IsLadder
<1>7. PICK j \in DOMAIN run : run[j].k = k
  BY <1>4, <1>5 DEF RecKeys
<1>8. TopRec(rs, k) = run[j]
  BY <1>3, <1>5, <1>6, <1>7, RecOfRun DEF TopRec
<1>9. run[j] \in Records /\ run[j] \in ToSet(run)
  BY <1>6, RecordParts DEF ToSet
<1> QED
  BY <1>4, <1>5, <1>7, <1>8, <1>9

\* Runs as one: a run of the same keys, with the record that decides each.
LEMMA MergeRunsRun ==
  ASSUME NEW rs, IsLadder(rs)
  PROVE  /\ MergeRuns(rs) \in Seq(Records) /\ IsRun(MergeRuns(rs))
         /\ RecKeys(MergeRuns(rs)) = RunKeys(rs)
         /\ \A i \in DOMAIN MergeRuns(rs) :
              MergeRuns(rs)[i] = TopRec(rs, MergeRuns(rs)[i].k)
<1> DEFINE K == RunKeys(rs)
           run == MergeRuns(rs)
<1>1. K \in SUBSET Seq(Nat) /\ IsFiniteSet(K)
  BY RunKeysFinite DEF IsLadder
<1>2. PICK ks : ks = SortedKeys(K)
  OBVIOUS
<1>3. Lists(ks, K)
  BY <1>1, <1>2, SortedKeysList
<1>4. ks \in Seq(K) /\ ToSet(ks) = K /\ DOMAIN ks = 1 .. Len(ks)
  BY <1>3 DEF Lists
<1>5. run = [i \in DOMAIN ks |-> TopRec(rs, ks[i])]
  BY <1>2 DEF MergeRuns, TopRec
<1> HIDE DEF run
<1>6. ASSUME NEW i \in DOMAIN ks
      PROVE  run[i] \in Records /\ run[i].k = ks[i] /\ run[i] = TopRec(rs, ks[i])
  <2>1. ks[i] \in K
    BY <1>4
  <2>2. run[i] = TopRec(rs, ks[i])
    BY <1>5
  <2> QED
    BY <2>1, <2>2, TopRecIn
<1>7. DOMAIN run = DOMAIN ks /\ run \in Seq(Records)
  <2>1. run \in [1 .. Len(ks) -> Records] /\ Len(ks) \in Nat
    BY <1>4, <1>5, <1>6
  <2> QED
    BY <1>4, <2>1
<1>8. IsRun(run)
  BY <1>3, <1>6, <1>7 DEF Lists, Ascends, IsRun
<1>9. RecKeys(run) = K
  <2>1. RecKeys(run) = {ks[i] : i \in DOMAIN ks}
    BY <1>6, <1>7 DEF RecKeys
  <2> QED
    BY <1>4, <2>1 DEF ToSet
<1>10. \A i \in DOMAIN run : run[i] = TopRec(rs, run[i].k)
  BY <1>6, <1>7
<1> QED
  BY <1>7, <1>8, <1>9, <1>10 DEF run

\* The record of a key in the merged run.
LEMMA MergeRunsRec ==
  ASSUME NEW rs, IsLadder(rs), NEW k \in RunKeys(rs)
  PROVE  RecOf(MergeRuns(rs), k) = TopRec(rs, k)
<1>1. PICK run : run = MergeRuns(rs)
  OBVIOUS
<1>2. /\ run \in Seq(Records) /\ IsRun(run) /\ RecKeys(run) = RunKeys(rs)
      /\ \A i \in DOMAIN run : run[i] = TopRec(rs, run[i].k)
  BY <1>1, MergeRunsRun
<1>3. PICK i \in DOMAIN run : run[i].k = k
  BY <1>2 DEF RecKeys
<1>4. RecOf(run, k) = run[i]
  BY <1>2, <1>3, RecOfRun
<1> QED
  BY <1>1, <1>2, <1>3, <1>4

-----------------------------------------------------------------------------
(* The ladder's operations: what they keep and what they do to reads.      *)

\* The live part of a ladder: delta and runs over records, and a size no smaller
\* than what the delta and the runs can hold.
Sound(l) ==
  /\ l \in [buf : Seq(Records), runs : Seq(Seq(Records)), size : Nat]
  /\ IsLadder(l.runs)
  /\ l.size >= Len(l.buf) + Cardinality(RunKeys(l.runs))

\* All its records.
RecordsOf(l) == ToSet(l.buf) \cup UNION {ToSet(l.runs[i]) : i \in DOMAIN l.runs}

\* m reads like l, whatever the draining runs are.
ReadsAlike(l, m) ==
  \A D \in Seq(Seq(Records)), k \in AllKeys :
    Newest(D \o m.runs, m.buf, k) = Newest(D \o l.runs, l.buf, k)

\* m holds what l held and reads like it.
Rearranged(l, m) == Sound(m) /\ RecordsOf(m) \subseteq RecordsOf(l) /\ ReadsAlike(l, m)

\* The keys of two ladders, one after the other.
LEMMA RunKeysConcat ==
  ASSUME NEW D \in Seq(Seq(Records)), NEW R \in Seq(Seq(Records))
  PROVE  RunKeys(D \o R) = RunKeys(D) \cup RunKeys(R)
<1>1. D \o R \in Seq(Seq(Records))
  OBVIOUS
<1>2. ASSUME NEW k PROVE k \in RunKeys(D \o R) <=> k \in RunKeys(D) \/ k \in RunKeys(R)
  BY <1>1, HoldersHold, TopConcat
<1> QED
  BY <1>2

\* The keys of one run.
LEMMA RunKeysSingle ==
  ASSUME NEW run \in Seq(Records)
  PROVE  RunKeys(<<run>>) = RecKeys(run) /\ <<run>> \in Seq(Seq(Records))
<1>1. <<run>> \in Seq(Seq(Records))
  OBVIOUS
<1>2. ASSUME NEW k PROVE k \in RunKeys(<<run>>) <=> k \in RecKeys(run)
  BY <1>1, HoldersHold, TopSingle
<1> QED
  BY <1>1, <1>2

\* The delta becomes a run.
LEMMA MaterializeRearranges ==
  ASSUME NEW l, Sound(l)
  PROVE  Rearranged(l, materialize(l)) /\ materialize(l).buf = <<>>
<1>1. PICK b \in Seq(Records), R \in Seq(Seq(Records)), s \in Nat :
        /\ b = l.buf /\ R = l.runs /\ s = l.size /\ IsLadder(R)
        /\ s >= Len(b) + Cardinality(RunKeys(R))
  BY DEF Sound
<1>2. CASE b = <<>>
  <2>1. materialize(l) = l
    BY <1>1, <1>2 DEF materialize
  <2> QED
    BY <1>1, <1>2, <2>1 DEF Rearranged, ReadsAlike
<1>3. CASE b # <<>>
  <2>1. PICK run : run = NewestPerKey(b)
    OBVIOUS
  <2>2. /\ run \in Seq(Records) /\ IsRun(run)
        /\ Len(run) = Cardinality(RecKeys(b)) /\ RecKeys(run) = RecKeys(b)
        /\ \A i \in DOMAIN run : run[i] = b[LastOf(b, run[i].k)]
    BY <2>1, NewestPerKeyRun
  <2>3. PICK t : t = s - (Len(b) - Len(run))
    OBVIOUS
  <2>4. PICK m : m = [buf |-> <<>>, runs |-> Append(R, run), size |-> t]
    OBVIOUS
  <2>5. materialize(l) = m
    BY <1>1, <1>3, <2>1, <2>3, <2>4 DEF materialize
  <2>6. m.buf = <<>> /\ m.runs = R \o <<run>> /\ m.size = t
    BY <2>2, <2>4, AppendIsConcat
  <2>7. <<run>> \in Seq(Seq(Records)) /\ RunKeys(<<run>>) = RecKeys(b)
    BY <2>2, RunKeysSingle
  <2>8. RunKeys(m.runs) = RunKeys(R) \cup RecKeys(b)
    BY <2>6, <2>7, RunKeysConcat
  <2>9. Cardinality(RunKeys(m.runs)) <= Cardinality(RunKeys(R)) + Cardinality(RecKeys(b))
    <3>1. IsFiniteSet(RunKeys(R)) /\ Cardinality(RunKeys(R)) \in Nat
      BY RunKeysFinite
    <3>2. IsFiniteSet(RecKeys(b)) /\ Cardinality(RecKeys(b)) \in Nat
      BY RecKeysFinite
    <3>3. Cardinality(RunKeys(R) \cup RecKeys(b))
            = Cardinality(RunKeys(R)) + Cardinality(RecKeys(b)) - Cardinality(RunKeys(R) \cap RecKeys(b))
      BY <3>1, <3>2, FS_Union
    <3>4. IsFiniteSet(RunKeys(R) \cap RecKeys(b))
      BY <3>1, FS_Subset
    <3>5. Cardinality(RunKeys(R) \cap RecKeys(b)) \in Nat
      BY <3>4, FS_CardinalityType
    <3> QED
      BY <2>8, <3>1, <3>2, <3>3, <3>5
  <2>10. m.runs \in Seq(Seq(Records)) /\ Len(b) \in Nat
    BY <2>6, <2>7
  <2>11. t \in Nat /\ t >= 0 + Cardinality(RunKeys(m.runs))
    <3>1. Cardinality(RunKeys(R)) \in Nat /\ Cardinality(RunKeys(m.runs)) \in Nat
      BY <2>10, RunKeysFinite
    <3>2. Cardinality(RecKeys(b)) \in Nat
      BY RecKeysFinite
    <3> QED
      BY <1>1, <2>2, <2>3, <2>9, <2>10, <3>1, <3>2, SMTT(30)
  <2>12. IsLadder(m.runs)
    <3>1. ASSUME NEW i \in DOMAIN (R \o <<run>>) PROVE IsRun((R \o <<run>>)[i])
      <4>1. DOMAIN R = 1 .. Len(R) /\ Len(R) \in Nat /\ i \in 1 .. Len(R) + 1
        OBVIOUS
      <4>2. CASE i \in 1 .. Len(R)
        <5>1. (R \o <<run>>)[i] = R[i]
          BY <4>2
        <5> QED
          BY <1>1, <4>1, <4>2, <5>1 DEF IsLadder
      <4>3. CASE i = Len(R) + 1
        <5>1. (R \o <<run>>)[i] = run
          BY <4>3
        <5> QED
          BY <2>2, <5>1
      <4> QED
        BY <4>1, <4>2, <4>3
    <3> QED
      BY <2>6, <2>10, <3>1 DEF IsLadder
  <2>13. Sound(m)
    <3>1. m \in [buf : Seq(Records), runs : Seq(Seq(Records)), size : Nat]
      BY <2>4, <2>6, <2>10, <2>11
    <3>2. Len(m.buf) = 0
      BY <2>6
    <3> QED
      BY <2>6, <2>11, <2>12, <3>1, <3>2 DEF Sound
  <2>14. ToSet(run) \subseteq ToSet(b)
    <3> SUFFICES ASSUME NEW i \in DOMAIN run PROVE run[i] \in ToSet(b)
      BY DEF ToSet
    <3>1. run[i].k \in RecKeys(b)
      BY <2>2 DEF RecKeys
    <3>2. LastOf(b, run[i].k) \in DOMAIN b
      BY <3>1, LastOfIsLast
    <3> QED
      BY <2>2, <3>2 DEF ToSet
  <2>15. RecordsOf(m) \subseteq RecordsOf(l)
    <3>1. ASSUME NEW i \in DOMAIN (R \o <<run>>)
          PROVE  ToSet((R \o <<run>>)[i]) \subseteq RecordsOf(l)
      <4>1. DOMAIN R = 1 .. Len(R) /\ Len(R) \in Nat /\ i \in 1 .. Len(R) + 1
        OBVIOUS
      <4>2. CASE i \in 1 .. Len(R)
        <5>1. (R \o <<run>>)[i] = R[i]
          BY <4>2
        <5> QED
          BY <1>1, <4>1, <4>2, <5>1 DEF RecordsOf
      <4>3. CASE i = Len(R) + 1
        <5>1. (R \o <<run>>)[i] = run
          BY <4>3
        <5> QED
          BY <1>1, <2>14, <5>1 DEF RecordsOf
      <4> QED
        BY <4>1, <4>2, <4>3
    <3>2. ToSet(m.buf) = {}
      BY <2>6 DEF ToSet
    <3> QED
      BY <2>6, <3>1, <3>2 DEF RecordsOf
  <2>16. ASSUME NEW D \in Seq(Seq(Records)), NEW k \in AllKeys
         PROVE  Newest(D \o m.runs, m.buf, k) = Newest(D \o l.runs, l.buf, k)
    <3>1. D \o R \in Seq(Seq(Records))
      BY ConcatProperties
    <3>2. PICK A \in Seq(Seq(Records)) : A = D \o R
      BY <3>1
    <3>3. D \o (R \o <<run>>) = (D \o R) \o <<run>>
      <4> DEFINE S == Seq(Records)
      <4>1. D \in Seq(S) /\ R \in Seq(S) /\ <<run>> \in Seq(S)
        BY <2>7
      <4> HIDE DEF S
      <4> QED
        BY <4>1, ConcatAssociative
    <3>4. D \o m.runs = A \o <<run>>
      BY <2>6, <3>2, <3>3
    <3>5. RecKeys(m.buf) = {}
      BY <2>6 DEF RecKeys
    <3>6. CASE k \in RecKeys(b)
      <4>1. Holders(<<run>>, k) # {} /\ TopRec(<<run>>, k) = RecOf(run, k)
        BY <2>2, <3>6, TopSingle
      <4>2. Holders(A \o <<run>>, k) # {} /\ TopRec(A \o <<run>>, k) = RecOf(run, k)
        BY <2>7, <4>1, TopConcat, ZenonT(40)
      <4>3. PICK i \in DOMAIN run : run[i].k = k
        BY <2>2, <3>6 DEF RecKeys
      <4>4. RecOf(run, k) = b[LastOf(b, k)]
        BY <2>2, <4>3, RecOfRun
      <4> QED
        BY <1>1, <3>4, <3>5, <3>6, <4>2, <4>4 DEF Newest
    <3>7. CASE k \notin RecKeys(b)
      <4>1. Holders(<<run>>, k) = {}
        BY <2>2, <3>7, TopSingle
      <4>2. /\ Holders(A \o <<run>>, k) # {} <=> Holders(A, k) # {}
            /\ Holders(A, k) # {} => TopRec(A \o <<run>>, k) = TopRec(A, k)
        BY <2>7, <4>1, TopConcat
      <4> QED
        BY <1>1, <3>2, <3>4, <3>5, <3>7, <4>2 DEF Newest
    <3> QED
      BY <3>6, <3>7
  <2> QED
    BY <2>5, <2>6, <2>13, <2>15, <2>16 DEF Rearranged, ReadsAlike
<1> QED
  BY <1>2, <1>3

\* Too many runs become one.
LEMMA MergeRearranges ==
  ASSUME NEW l, Sound(l)
  PROVE  Rearranged(l, maybeMerge(l)) /\ maybeMerge(l).buf = l.buf
<1>1. PICK b \in Seq(Records), R \in Seq(Seq(Records)), s \in Nat :
        /\ b = l.buf /\ R = l.runs /\ s = l.size /\ IsLadder(R)
        /\ s >= Len(b) + Cardinality(RunKeys(R)) /\ l = [buf |-> b, runs |-> R, size |-> s]
  BY DEF Sound
<1>2. CASE Len(R) <= MaxActiveRuns
  <2>1. maybeMerge(l) = l
    BY <1>1, <1>2 DEF maybeMerge
  <2> QED
    BY <2>1 DEF Rearranged, ReadsAlike
<1>3. CASE ~(Len(R) <= MaxActiveRuns)
  <2>1. PICK run : run = MergeRuns(R)
    OBVIOUS
  <2>2. /\ run \in Seq(Records) /\ IsRun(run) /\ RecKeys(run) = RunKeys(R)
        /\ \A i \in DOMAIN run : run[i] = TopRec(R, run[i].k)
    BY <1>1, <2>1, MergeRunsRun
  <2>3. PICK m : m = [buf |-> b, runs |-> <<run>>, size |-> s]
    OBVIOUS
  <2>4. maybeMerge(l) = m
    BY <1>1, <1>3, <2>1, <2>3 DEF maybeMerge
  <2>5. m.buf = b /\ m.runs = <<run>> /\ m.size = s
    BY <2>3
  <2>6. <<run>> \in Seq(Seq(Records)) /\ RunKeys(<<run>>) = RunKeys(R)
    BY <2>2, RunKeysSingle
  <2>7. DOMAIN <<run>> = {1} /\ <<run>>[1] = run
    OBVIOUS
  <2>8. Sound(m)
    <3>1. IsLadder(<<run>>)
      BY <2>2, <2>6, <2>7 DEF IsLadder
    <3>2. m \in [buf : Seq(Records), runs : Seq(Seq(Records)), size : Nat]
      BY <2>3, <2>6
    <3> QED
      BY <1>1, <2>5, <2>6, <3>1, <3>2 DEF Sound
  <2>9. RecordsOf(m) \subseteq RecordsOf(l)
    <3>1. ASSUME NEW i \in DOMAIN run PROVE run[i] \in RecordsOf(l)
      <4>1. run[i].k \in RunKeys(R)
        BY <2>2 DEF RecKeys
      <4>2. PICK j \in DOMAIN R : TopRec(R, run[i].k) \in ToSet(R[j])
        BY <1>1, <4>1, TopRecIn
      <4> QED
        BY <1>1, <2>2, <4>2 DEF RecordsOf
    <3>2. ToSet(run) \subseteq RecordsOf(l)
      BY <3>1 DEF ToSet
    <3> QED
      BY <1>1, <2>5, <2>7, <3>2 DEF RecordsOf
  <2>10. ASSUME NEW D \in Seq(Seq(Records)), NEW k \in AllKeys
         PROVE  Newest(D \o m.runs, m.buf, k) = Newest(D \o l.runs, l.buf, k)
    <3>1. CASE k \in RunKeys(R)
      <4>1. Holders(<<run>>, k) # {} /\ TopRec(<<run>>, k) = RecOf(run, k)
        BY <2>2, <3>1, TopSingle
      <4>2. RecOf(run, k) = TopRec(R, k)
        BY <1>1, <2>1, <3>1, MergeRunsRec
      <4>3. Holders(D \o <<run>>, k) # {} /\ TopRec(D \o <<run>>, k) = TopRec(R, k)
        BY <2>6, <4>1, <4>2, TopConcat
      <4>4. Holders(R, k) # {}
        BY <3>1, HoldersHold
      <4>5. Holders(D \o R, k) # {} /\ TopRec(D \o R, k) = TopRec(R, k)
        BY <4>4, TopConcat
      <4> QED
        BY <1>1, <2>5, <4>3, <4>5 DEF Newest
    <3>2. CASE k \notin RunKeys(R)
      <4>1. Holders(<<run>>, k) = {}
        BY <2>2, <3>2, TopSingle
      <4>2. Holders(R, k) = {}
        BY <3>2, HoldersHold
      <4>3. /\ Holders(D \o <<run>>, k) # {} <=> Holders(D, k) # {}
            /\ Holders(D, k) # {} => TopRec(D \o <<run>>, k) = TopRec(D, k)
        BY <2>6, <4>1, TopConcat
      <4>4. /\ Holders(D \o R, k) # {} <=> Holders(D, k) # {}
            /\ Holders(D, k) # {} => TopRec(D \o R, k) = TopRec(D, k)
        BY <4>2, TopConcat
      <4> QED
        BY <1>1, <2>5, <4>3, <4>4 DEF Newest
    <3> QED
      BY <3>1, <3>2
  <2> QED
    BY <1>1, <2>4, <2>5, <2>8, <2>9, <2>10 DEF Rearranged, ReadsAlike
<1> QED
  BY <1>2, <1>3

\* Rearranging twice.
LEMMA RearrangedTwice ==
  ASSUME NEW l, NEW m, NEW n, Rearranged(l, m), Rearranged(m, n)
  PROVE  Rearranged(l, n)
BY DEF Rearranged, ReadsAlike

\* What a scan, a capture and a full delta do first.
LEMMA MaterializedRearranges ==
  ASSUME NEW l, Sound(l)
  PROVE  Rearranged(l, maybeMerge(materialize(l))) /\ maybeMerge(materialize(l)).buf = <<>>
<1>1. PICK m : m = materialize(l)
  OBVIOUS
<1>2. Rearranged(l, m) /\ m.buf = <<>>
  BY <1>1, MaterializeRearranges
<1>3. Rearranged(m, maybeMerge(m)) /\ maybeMerge(m).buf = m.buf
  BY <1>2, MergeRearranges DEF Rearranged
<1> QED
  BY <1>1, <1>2, <1>3, RearrangedTwice

\* m reads like l, but the key of r as r.
ReadsAppended(l, m, r) ==
  \A D \in Seq(Seq(Records)), k \in AllKeys :
    Newest(D \o m.runs, m.buf, k) = IF k = r.k THEN <<r>> ELSE Newest(D \o l.runs, l.buf, k)

\* m is l with r added.
Appended(l, m, r) == Sound(m) /\ RecordsOf(m) \subseteq RecordsOf(l) \cup {r} /\ ReadsAppended(l, m, r)

\* The last record of a key in a list that a record is appended to.
LEMMA AppendNewest ==
  ASSUME NEW b \in Seq(Records), NEW r \in Records, NEW rs, NEW k
  PROVE  Newest(rs, Append(b, r), k) = IF k = r.k THEN <<r>> ELSE Newest(rs, b, k)
<1>1. PICK n \in Nat : n = Len(b)
  OBVIOUS
<1>2. PICK a : a = Append(b, r)
  OBVIOUS
<1>3. /\ a \in Seq(Records) /\ DOMAIN b = 1 .. n /\ DOMAIN a = 1 .. n + 1
      /\ a[n + 1] = r /\ \A i \in 1 .. n : a[i] = b[i]
  BY <1>1, <1>2
<1>4. CASE k = r.k
  <2>1. n + 1 \in {j \in DOMAIN a : a[j].k = k}
    BY <1>3, <1>4
  <2>2. LastOf(a, k) = n + 1
    <3>1. {j \in DOMAIN a : a[j].k = k} \in SUBSET Nat
      BY <1>3
    <3>2. \A y \in {j \in DOMAIN a : a[j].k = k} : y <= n + 1
      BY <1>3
    <3> QED
      BY <2>1, <3>1, <3>2, MaxIs DEF LastOf
  <2>3. k \in RecKeys(a)
    BY <2>1 DEF RecKeys
  <2> QED
    BY <1>2, <1>3, <1>4, <2>2, <2>3 DEF Newest
<1>5. CASE k # r.k
  <2>1. {j \in DOMAIN a : a[j].k = k} = {j \in DOMAIN b : b[j].k = k}
    BY <1>3, <1>5
  <2>2. LastOf(a, k) = LastOf(b, k)
    BY <2>1 DEF LastOf
  <2>3. k \in RecKeys(a) <=> k \in RecKeys(b)
    BY <2>1 DEF RecKeys
  <2>4. k \in RecKeys(b) => a[LastOf(b, k)] = b[LastOf(b, k)]
    BY <1>3, LastOfIsLast
  <2> QED
    BY <1>2, <1>5, <2>2, <2>3, <2>4 DEF Newest
<1> QED
  BY <1>4, <1>5

\* Appending a record, with the delta at its limit made a run.
LEMMA AppendAppends ==
  ASSUME NEW l, Sound(l), NEW r \in Records
  PROVE  Appended(l, appendRec(l, r), r)
<1>1. PICK b \in Seq(Records), R \in Seq(Seq(Records)), s \in Nat :
        /\ b = l.buf /\ R = l.runs /\ s = l.size /\ IsLadder(R)
        /\ s >= Len(b) + Cardinality(RunKeys(R)) /\ l = [buf |-> b, runs |-> R, size |-> s]
  BY DEF Sound
<1>2. PICK m : m = [buf |-> Append(b, r), runs |-> R, size |-> s + 1]
  OBVIOUS
<1>3. m = [buf |-> Append(l.buf, r), runs |-> l.runs, size |-> l.size + 1]
  BY <1>1, <1>2
<1>4. m.buf = Append(b, r) /\ m.runs = R /\ m.size = s + 1
  BY <1>2
<1>5. Append(b, r) \in Seq(Records) /\ Len(Append(b, r)) = Len(b) + 1 /\ Len(b) \in Nat
  OBVIOUS
<1>6. Sound(m)
  <2>1. m \in [buf : Seq(Records), runs : Seq(Seq(Records)), size : Nat]
    BY <1>2, <1>5
  <2>2. Cardinality(RunKeys(R)) \in Nat
    BY RunKeysFinite
  <2>3. s + 1 >= Len(Append(b, r)) + Cardinality(RunKeys(R))
    BY <1>1, <1>5, <2>2
  <2> QED
    BY <1>1, <1>4, <2>1, <2>3 DEF Sound
<1>7. ToSet(Append(b, r)) = ToSet(b) \cup {r}
  <2>1. Append(b, r) = b \o <<r>> /\ <<r>> \in Seq(Records) /\ ToSet(<<r>>) = {r}
    BY DEF ToSet
  <2>2. PICK q \in Seq(Records) : q = <<r>>
    BY <2>1
  <2>3. ToSet(b \o q) = ToSet(b) \cup ToSet(q)
    BY ConcatElements
  <2> QED
    BY <2>1, <2>2, <2>3
<1>8. RecordsOf(m) \subseteq RecordsOf(l) \cup {r}
  BY <1>1, <1>4, <1>7 DEF RecordsOf
<1>9. ReadsAppended(l, m, r)
  BY <1>1, <1>4, AppendNewest DEF ReadsAppended
<1>10. appendRec(l, r) = IF Len(m.buf) >= MaxBufEntries THEN maybeMerge(materialize(m)) ELSE m
  BY <1>3 DEF appendRec
<1>11. CASE appendRec(l, r) = m
  BY <1>6, <1>8, <1>9, <1>11 DEF Appended
<1>12. CASE appendRec(l, r) = maybeMerge(materialize(m))
  <2>1. Rearranged(m, maybeMerge(materialize(m)))
    BY <1>6, MaterializedRearranges
  <2> QED
    BY <1>8, <1>9, <1>12, <2>1 DEF Rearranged, Appended, ReadsAlike, ReadsAppended
<1> QED
  BY <1>10, <1>11, <1>12

-----------------------------------------------------------------------------
(* A batch: one key after the other.                                       *)

Ladders == {l \in [buf : Seq(Records), runs : Seq(Seq(Records)), size : Nat] : Sound(l)}

KeyRec(k) == Rec(k, NoValue, FALSE)

\* The record a batch writes for a key.
LEMMA KeyRecType ==
  ASSUME NEW k \in AllKeys
  PROVE  KeyRec(k) \in Records /\ KeyRec(k).k = k /\ KeyRec(k).v = NoValue /\ KeyRec(k).del = FALSE
BY DEF KeyRec, Rec, Records

\* A ladder with one key more.
LEMMA AppendKeyType ==
  ASSUME NEW l \in Ladders, NEW k \in Keys
  PROVE  appendKey(l, k) \in Ladders /\ Appended(l, appendKey(l, k), KeyRec(k))
<1>1. k \in AllKeys /\ Sound(l)
  BY DEF AllKeys, Ladders
<1>2. KeyRec(k) \in Records
  BY <1>1, KeyRecType
<1>3. Appended(l, appendRec(l, KeyRec(k)), KeyRec(k))
  BY <1>1, <1>2, AppendAppends
<1>4. appendKey(l, k) = appendRec(l, KeyRec(k))
  BY DEF appendKey, KeyRec
<1> QED
  BY <1>3, <1>4 DEF Appended, Ladders, Sound

\* The ladders between the keys of a batch.
Batched(h, l, ks) ==
  /\ h \in [0 .. Len(ks) -> Ladders] /\ h[0] = l
  /\ \A i \in 1 .. Len(ks) : h[i] = appendKey(h[i - 1], ks[i])

\* A batch is one key after the other.
LEMMA BatchFold ==
  ASSUME NEW l \in Ladders, NEW ks \in Seq(Keys)
  PROVE  \E h : Batched(h, l, ks) /\ FoldLeft(appendKey, l, ks) = h[Len(ks)]
<1> DEFINE F == [p \in Ladders \X Keys |-> appendKey(p[1], p[2])]
           n == Len(ks)
           Solves(g) == g = [s \in SUBSET (DOMAIN ks) |->
                              IF s = {} THEN l ELSE appendKey(g[s \ {Max(s)}], ks[Max(s)])]
<1>1. F \in [Ladders \X Keys -> Ladders]
  <2>1. \A p \in Ladders \X Keys : appendKey(p[1], p[2]) \in Ladders
    BY AppendKeyType
  <2> QED
    BY <2>1
<1>2. \A c \in Ladders, d \in Keys : F[<<c, d>>] = appendKey(c, d)
  OBVIOUS
<1>3. DOMAIN ks = 1 .. n /\ n \in Nat
  OBVIOUS
<1>4. FoldLeft(appendKey, l, ks) = (CHOOSE g : Solves(g))[DOMAIN ks]
  BY DEF FoldLeft, MapThenFoldSet
<1> HIDE DEF F
<1>5. \E g : Solves(g)
  <2>1. PICK g \in [SUBSET (1 .. n) -> Ladders] : FoldsSets(g, F, l, ks, n)
    BY <1>1, FoldSetsExists
  <2>2. ASSUME NEW s \in SUBSET (1 .. n)
        PROVE  g[s] = IF s = {} THEN l ELSE appendKey(g[s \ {Max(s)}], ks[Max(s)])
    <3>1. g[s] = IF s = {} THEN l ELSE F[<<g[s \ {Max(s)}], ks[Max(s)]>>]
      BY <2>1 DEF FoldsSets
    <3>2. s # {} => g[s \ {Max(s)}] \in Ladders /\ ks[Max(s)] \in Keys
      BY <1>3, <2>1, MaxIsIndex
    <3> QED
      BY <1>2, <3>1, <3>2
  <2> QED
    BY <1>3, <2>1, <2>2
<1>6. PICK g : Solves(g) /\ FoldLeft(appendKey, l, ks) = g[1 .. n]
  <2>1. Solves(CHOOSE g : Solves(g))
    BY <1>5, Zenon
  <2> QED
    BY <1>3, <1>4, <2>1, Zenon
<1> DEFINE h == [i \in 0 .. n |-> g[1 .. i]]
<1>7. h[0] = l
  <2>1. h[0] = g[{}] /\ {} \in SUBSET (1 .. n)
    BY <1>3
  <2> QED
    BY <1>3, <1>6, <2>1
<1>8. ASSUME NEW i \in 1 .. n PROVE h[i] = appendKey(h[i - 1], ks[i])
  <2>1. 1 .. i \in SUBSET (1 .. n) /\ 1 .. i # {} /\ i \in Nat \ {0}
    <3> HIDE DEF n, h
    <3>1. i \in Nat \ {0} /\ i <= n
      BY <1>3
    <3> QED
      BY <1>3, <3>1
  <2>2. g[1 .. i] = appendKey(g[(1 .. i) \ {Max(1 .. i)}], ks[Max(1 .. i)])
    BY <1>3, <1>6, <2>1
  <2>3. h[i] = g[1 .. i] /\ h[i - 1] = g[1 .. i - 1]
    BY <1>3
  <2> QED
    BY <2>1, <2>2, <2>3, LastIndex
<1>9. h[n] = g[1 .. n]
  BY <1>3
<1> HIDE DEF h
<1>10. \A i \in 0 .. n : h[i] \in Ladders
  <2> DEFINE T == {i \in 0 .. n : h[i] \in Ladders}
  <2>1. 0 \in T
    BY <1>3, <1>7
  <2>2. ASSUME NEW i \in 1 .. n, i - 1 \in T PROVE i \in T
    BY <1>3, <1>8, <2>2, AppendKeyType
  <2> HIDE DEF T
  <2>3. \A i \in 0 .. n : i \in T
    BY <1>3, <2>1, <2>2, Induct
  <2> QED
    BY <2>3 DEF T
<1>11. h \in [0 .. n -> Ladders]
  BY <1>10 DEF h
<1>12. Batched(h, l, ks)
  BY <1>7, <1>8, <1>11 DEF Batched
<1> QED
  BY <1>6, <1>9, <1>12

\* m is l with the keys S added.
KeysAppended(l, m, S) ==
  /\ Sound(m) /\ RecordsOf(m) \subseteq RecordsOf(l) \cup {KeyRec(k) : k \in AllKeys}
  /\ \A D \in Seq(Seq(Records)), k \in AllKeys :
       Newest(D \o m.runs, m.buf, k) =
         IF k \in S THEN <<KeyRec(k)>> ELSE Newest(D \o l.runs, l.buf, k)

\* One key more.
LEMMA OneKeyMore ==
  ASSUME NEW l, NEW m, NEW S, KeysAppended(l, m, S), NEW x, NEW k \in AllKeys,
         Appended(m, x, KeyRec(k))
  PROVE  KeysAppended(l, x, S \cup {k})
<1>1. KeyRec(k).k = k
  BY KeyRecType
<1>2. Sound(x) /\ RecordsOf(x) \subseteq RecordsOf(l) \cup {KeyRec(j) : j \in AllKeys}
  BY DEF KeysAppended, Appended
<1>3. ASSUME NEW D \in Seq(Seq(Records)), NEW j \in AllKeys
      PROVE  Newest(D \o x.runs, x.buf, j) =
               IF j \in S \cup {k} THEN <<KeyRec(j)>> ELSE Newest(D \o l.runs, l.buf, j)
  <2>1. Newest(D \o x.runs, x.buf, j) =
          IF j = k THEN <<KeyRec(k)>> ELSE Newest(D \o m.runs, m.buf, j)
    BY <1>1 DEF Appended, ReadsAppended
  <2>2. Newest(D \o m.runs, m.buf, j) =
          IF j \in S THEN <<KeyRec(j)>> ELSE Newest(D \o l.runs, l.buf, j)
    BY DEF KeysAppended
  <2> QED
    BY <2>1, <2>2
<1> QED
  BY <1>2, <1>3 DEF KeysAppended

\* A batch adds its keys.
LEMMA BatchAppends ==
  ASSUME NEW l, Sound(l), NEW ks \in Seq(Keys)
  PROVE  KeysAppended(l, FoldLeft(appendKey, l, ks), ToSet(ks))
<1>1. l \in Ladders
  BY DEF Ladders, Sound
<1>2. PICK h : Batched(h, l, ks) /\ FoldLeft(appendKey, l, ks) = h[Len(ks)]
  BY <1>1, BatchFold
<1>3. PICK n \in Nat : n = Len(ks) /\ DOMAIN ks = 1 .. n
  OBVIOUS
<1> DEFINE First(i) == {ks[j] : j \in 1 .. i}
           T == {i \in 0 .. n : KeysAppended(l, h[i], First(i))}
<1>4. 0 \in T
  <2>1. First(0) = {} /\ h[0] = l
    BY <1>2 DEF Batched
  <2>2. KeysAppended(l, l, {})
    BY DEF KeysAppended
  <2> HIDE DEF First
  <2>3. KeysAppended(l, h[0], First(0))
    BY <2>1, <2>2, Zenon
  <2>4. 0 \in 0 .. n
    OBVIOUS
  <2> QED
    BY <2>3, <2>4, Zenon
<1>5. ASSUME NEW i \in 1 .. n, i - 1 \in T PROVE i \in T
  <2>1. i - 1 \in 0 .. n /\ h[i - 1] \in Ladders /\ h[i] = appendKey(h[i - 1], ks[i])
    BY <1>2, <1>3 DEF Batched
  <2>2. ks[i] \in Keys /\ ks[i] \in AllKeys
    BY <1>3 DEF AllKeys
  <2>3. First(i) = First(i - 1) \cup {ks[i]}
    <3>1. 1 .. i = (1 .. i - 1) \cup {i}
      BY <1>3
    <3> QED
      BY <3>1
  <2>4. KeysAppended(l, h[i - 1], First(i - 1))
    BY <1>5
  <2> HIDE DEF First
  <2>5. Appended(h[i - 1], h[i], KeyRec(ks[i]))
    BY <2>1, <2>2, AppendKeyType
  <2>6. KeysAppended(l, h[i], First(i - 1) \cup {ks[i]})
    BY <2>2, <2>4, <2>5, OneKeyMore
  <2>7. KeysAppended(l, h[i], First(i)) /\ i \in 0 .. n
    BY <2>3, <2>6
  <2> QED
    BY <2>7, Zenon
<1> HIDE DEF T
<1>6. \A i \in 0 .. n : i \in T
  BY <1>4, <1>5, Induct
<1>7. KeysAppended(l, h[n], First(n))
  <2>1. n \in T
    BY <1>6
  <2> HIDE DEF First
  <2> QED
    BY <2>1, Zenon DEF T
<1>8. First(n) = ToSet(ks)
  BY <1>3 DEF ToSet
<1> QED
  BY <1>2, <1>3, <1>7, <1>8

-----------------------------------------------------------------------------
(* A drain: what the merged pages hold.                                    *)

\* What a record says of its key.
ValueOf(r) == IF r.del THEN Absent ELSE r.v

Values == Vals \cup {NoValue, Absent}

\* The pages once the captured runs are in them.
Drained(D, content, k) == IF k \in RunKeys(D) THEN ValueOf(TopRec(D, k)) ELSE content[k]

\* The value of an entry of a list made from keys.
LEMMA EntryOf ==
  ASSUME NEW K, NEW ks \in Seq(K), NEW f, NEW es, es = [i \in DOMAIN ks |-> Entry(ks[i], f[ks[i]])]
  PROVE  /\ RecKeys(es) = ToSet(ks)
         /\ \A k \in ToSet(ks) : RecOf(es, k).x = f[k]
<1>1. DOMAIN es = DOMAIN ks /\ \A i \in DOMAIN ks : es[i].k = ks[i] /\ es[i].x = f[ks[i]]
  BY DEF Entry
<1>2. RecKeys(es) = ToSet(ks)
  BY <1>1 DEF RecKeys, ToSet
<1>3. ASSUME NEW k \in ToSet(ks) PROVE RecOf(es, k).x = f[k]
  <2>1. \E i \in DOMAIN es : es[i].k = k
    BY <1>1 DEF ToSet
  <2>2. PICK c : c = CHOOSE i \in DOMAIN es : es[i].k = k
    OBVIOUS
  <2>3. c \in DOMAIN es /\ es[c].k = k
    BY <2>1, <2>2
  <2>4. es[c].x = f[k]
    BY <1>1, <2>3
  <2> QED
    BY <2>2, <2>4 DEF RecOf
<1> QED
  BY <1>2, <1>3

\* The drain of pairs leaves in the pages what decides each key.
LEMMA DrainKvMerges ==
  ASSUME NEW D, IsLadder(D), NEW content \in Contents, NEW d, d = DrainKvSorted(D)
  PROVE  \A k \in AllKeys : MergedPages(content, d.pairs, d.deleted)[k] = Drained(D, content, k)
<1>1. PICK recs : recs = MergeRuns(D)
  OBVIOUS
<1>2. RecKeys(recs) = RunKeys(D) /\ (\A k \in RunKeys(D) : RecOf(recs, k) = TopRec(D, k))
  BY <1>1, MergeRunsRun, MergeRunsRec
<1>3. PICK X : X = {k \in RecKeys(recs) : RecOf(recs, k).del}
  OBVIOUS
<1>4. RunKeys(D) \in SUBSET Seq(Nat) /\ IsFiniteSet(RunKeys(D))
  BY RunKeysFinite DEF IsLadder
<1>5. PICK L : L = RecKeys(recs) \ X
  OBVIOUS
<1>6. L \in SUBSET Seq(Nat) /\ IsFiniteSet(L)
  <2>1. L \in SUBSET RunKeys(D)
    BY <1>2, <1>5
  <2> QED
    BY <1>4, <2>1, FS_Subset
<1>7. PICK ks : ks = SortedKeys(L)
  OBVIOUS
<1>8. ks \in Seq(L) /\ ToSet(ks) = L
  BY <1>6, <1>7, SortedKeysList DEF Lists
<1>9. PICK es : es = [i \in DOMAIN ks |-> Entry(ks[i], RecOf(recs, ks[i]).v)]
  OBVIOUS
<1>10. d.pairs = es /\ d.deleted = X
  BY <1>1, <1>3, <1>5, <1>7, <1>9 DEF DrainKvSorted
<1>11. RecKeys(es) = L /\ (\A k \in L : RecOf(es, k).x = RecOf(recs, k).v)
  <2>1. PICK f : f = [k \in L |-> RecOf(recs, k).v]
    OBVIOUS
  <2>2. \A k \in L : f[k] = RecOf(recs, k).v
    BY <2>1
  <2>3. \A i \in DOMAIN ks : ks[i] \in L
    BY <1>8
  <2>4. es = [i \in DOMAIN ks |-> Entry(ks[i], f[ks[i]])]
    BY <1>9, <2>2, <2>3
  <2>5. RecKeys(es) = ToSet(ks) /\ \A k \in ToSet(ks) : RecOf(es, k).x = f[k]
    BY <1>8, <2>4, EntryOf
  <2> QED
    BY <1>8, <2>2, <2>5
<1>12. ASSUME NEW k \in AllKeys PROVE MergedPages(content, es, X)[k] = Drained(D, content, k)
  <2>1. MergedPages(content, es, X)[k] =
          CASE k \in X -> Absent
            [] k \in RecKeys(es) \ X -> RecOf(es, k).x
            [] OTHER -> content[k]
    BY DEF MergedPages
  <2>2. CASE k \in X
    BY <1>2, <1>3, <2>1, <2>2 DEF Drained, ValueOf
  <2>3. CASE k \in L
    BY <1>2, <1>3, <1>5, <1>11, <2>1, <2>3 DEF Drained, ValueOf
  <2>4. CASE k \notin X /\ k \notin L
    BY <1>2, <1>3, <1>5, <1>11, <2>1, <2>4 DEF Drained
  <2> QED
    BY <2>2, <2>3, <2>4
<1> QED
  BY <1>10, <1>12

\* The records of a key-only family.
Plain == {KeyRec(k) : k \in AllKeys}

\* The drain of keys leaves in the pages what decides each key.
LEMMA DrainMerges ==
  ASSUME NEW D, IsLadder(D), NEW content \in Contents,
         \A i \in DOMAIN D : ToSet(D[i]) \subseteq Plain
  PROVE  \A k \in AllKeys : MergedPages(content, DrainSorted(D), {})[k] = Drained(D, content, k)
<1>1. PICK recs : recs = MergeRuns(D)
  OBVIOUS
<1>2. RecKeys(recs) = RunKeys(D)
  BY <1>1, MergeRunsRun
<1>3. PICK es : es = DrainSorted(D)
  OBVIOUS
<1>4. DOMAIN es = DOMAIN recs /\ \A i \in DOMAIN recs : es[i].k = recs[i].k /\ es[i].x = NoValue
  BY <1>1, <1>3 DEF DrainSorted, Entry
<1>5. RecKeys(es) = RunKeys(D)
  BY <1>2, <1>4 DEF RecKeys
<1>6. ASSUME NEW k \in RunKeys(D) PROVE RecOf(es, k).x = NoValue /\ ValueOf(TopRec(D, k)) = NoValue
  <2>1. \E i \in DOMAIN es : es[i].k = k
    BY <1>5 DEF RecKeys
  <2>2. PICK c : c = CHOOSE i \in DOMAIN es : es[i].k = k
    OBVIOUS
  <2>3. c \in DOMAIN es
    BY <2>1, <2>2
  <2>4. RecOf(es, k).x = NoValue
    BY <1>4, <2>2, <2>3 DEF RecOf
  <2>5. PICK i \in DOMAIN D : TopRec(D, k) \in ToSet(D[i])
    BY TopRecIn
  <2>6. PICK j \in AllKeys : TopRec(D, k) = KeyRec(j)
    BY <2>5 DEF Plain
  <2>7. ValueOf(TopRec(D, k)) = NoValue
    BY <2>6, KeyRecType DEF ValueOf
  <2> QED
    BY <2>4, <2>7
<1>7. ASSUME NEW k \in AllKeys PROVE MergedPages(content, es, {})[k] = Drained(D, content, k)
  <2>1. MergedPages(content, es, {})[k] =
          CASE k \in {} -> Absent
            [] k \in RecKeys(es) \ {} -> RecOf(es, k).x
            [] OTHER -> content[k]
    BY DEF MergedPages
  <2>2. CASE k \in RunKeys(D)
    BY <1>5, <1>6, <2>1, <2>2 DEF Drained
  <2>3. CASE k \notin RunKeys(D)
    BY <1>5, <2>1, <2>3 DEF Drained
  <2> QED
    BY <2>2, <2>3
<1> QED
  BY <1>3, <1>7

\* What a drain leaves is a value for every key.
LEMMA DrainedType ==
  ASSUME NEW D, IsLadder(D), NEW content \in Contents, NEW k \in AllKeys
  PROVE  Drained(D, content, k) \in Values
<1>1. CASE k \in RunKeys(D)
  <2>1. PICK r : r = TopRec(D, k)
    OBVIOUS
  <2>2. r \in Records
    BY <1>1, <2>1, TopRecIn
  <2>3. r.v \in Vals \cup {NoValue}
    BY <2>2 DEF Records
  <2> QED
    BY <1>1, <2>1, <2>3 DEF Drained, ValueOf, Values
<1>2. CASE k \notin RunKeys(D)
  BY <1>2 DEF Drained, Contents, Values
<1> QED
  BY <1>1, <1>2

-----------------------------------------------------------------------------
(* The inductive invariant.                                                *)

\* A read of the deciding record, if there is one, else of the pages.
ReadAs(hit, page) == IF hit = <<>> THEN page ELSE ValueOf(hit[1])

\* The memtable is well formed.
LadderOK ==
  /\ kv \in BOOLEAN /\ phase \in {"idle", "captured", "prepared", "swapped"}
  /\ pages \in Contents /\ nextPages \in Contents /\ store \in Contents
  /\ Sound(Live) /\ IsLadder(draining)

\* A key-only family holds keys: no value and no tombstone.
KeysOnly ==
  ~kv => RecordsOf(Live) \subseteq Plain /\ \A i \in DOMAIN draining : ToSet(draining[i]) \subseteq Plain

\* A flush in flight: it starts from the published pages, the pages it has prepared
\* are those with the captured runs merged in, and once they are published they hold
\* what the captured runs decide.
FlushOK ==
  /\ phase = "idle" => draining = <<>>
  /\ phase = "captured" => nextPages = pages
  /\ phase = "prepared" => \A k \in AllKeys : nextPages[k] = Drained(draining, pages, k)
  /\ phase = "swapped" => \A k \in AllKeys : pages[k] = Drained(draining, pages, k)

\* The record that decides a key, or else the pages, hold its value.
NewestDecides ==
  \A k \in AllKeys : ReadAs(Newest(draining \o runs, buf, k), pages[k]) = store[k]

MemInv == LadderOK /\ KeysOnly /\ FlushOK /\ NewestDecides

Empty == [buf |-> <<>>, runs |-> <<>>, size |-> 0]

\* An empty ladder, at the start and after every capture.
LEMMA EmptySound == Sound(Empty) /\ RecordsOf(Empty) = {} /\ IsLadder(<<>>)
<1>1. PICK l : l = Empty
  OBVIOUS
<1>2. l.buf = <<>> /\ l.runs = <<>> /\ l.size = 0
  BY <1>1 DEF Empty
<1>3. l \in [buf : Seq(Records), runs : Seq(Seq(Records)), size : Nat]
  BY <1>1 DEF Empty
<1>4. IsLadder(<<>>) /\ RunKeys(<<>>) = {}
  BY DEF IsLadder, RunKeys
<1>5. Cardinality(RunKeys(<<>>)) = 0
  BY <1>4, FS_EmptySet
<1>6. l.size >= Len(l.buf) + Cardinality(RunKeys(l.runs))
  BY <1>2, <1>5
<1>7. Sound(l)
  BY <1>2, <1>3, <1>4, <1>6 DEF Sound
<1>8. RecordsOf(l) = {}
  BY <1>2 DEF RecordsOf, ToSet
<1> QED
  BY <1>1, <1>4, <1>7, <1>8

\* The initial states.
LEMMA InitInv == MemInit => MemInv
<1> SUFFICES ASSUME MemInit PROVE MemInv
  OBVIOUS
<1>1. /\ kv \in BOOLEAN /\ buf = <<>> /\ runs = <<>> /\ draining = <<>> /\ size = 0
      /\ pages = Nothing /\ nextPages = Nothing /\ phase = "idle" /\ store = Nothing
  BY DEF MemInit
<1>2. Nothing \in Contents
  BY DEF Nothing, Contents
<1>3. IsLadder(<<>>) /\ RunKeys(<<>>) = {} /\ RecKeys(<<>>) = {} /\ \A k : Holders(<<>>, k) = {}
  BY DEF IsLadder, RunKeys, RecKeys, Holders
<1>4. Sound(Live)
  BY <1>1, EmptySound DEF Live, Empty
<1>5. LadderOK
  BY <1>1, <1>2, <1>3, <1>4 DEF LadderOK
<1>6. KeysOnly
  BY <1>1 DEF KeysOnly, RecordsOf, Live, ToSet
<1>7. FlushOK
  BY <1>1 DEF FlushOK
<1>8. NewestDecides
  <2>1. <<>> \o <<>> = <<>>
    OBVIOUS
  <2>2. \A k : Newest(<<>>, <<>>, k) = <<>>
    BY <1>3 DEF Newest
  <2> QED
    BY <1>1, <2>1, <2>2 DEF NewestDecides, ReadAs
<1> QED
  BY <1>5, <1>6, <1>7, <1>8 DEF MemInv

\* A step that changes only the live ladder, and the store as the ladder then reads.
LEMMA LiveStep ==
  ASSUME MemInv, NEW m, Sound(m), SetLive(m),
         UNCHANGED <<kv, draining, pages, nextPages, phase>>,
         store' \in Contents, ~kv => RecordsOf(m) \subseteq Plain,
         \A k \in AllKeys : ReadAs(Newest(draining \o m.runs, m.buf, k), pages[k]) = store'[k]
  PROVE  MemInv'
<1>1. /\ LadderOK /\ KeysOnly /\ FlushOK
      /\ kv' = kv /\ draining' = draining /\ pages' = pages /\ nextPages' = nextPages /\ phase' = phase
  BY DEF MemInv
<1>2. buf' = m.buf /\ runs' = m.runs /\ size' = m.size
  BY DEF SetLive
<1>3. Live' = m
  BY <1>2 DEF Live, Sound
<1>4. LadderOK'
  BY <1>1, <1>3 DEF LadderOK
<1>5. KeysOnly'
  BY <1>1, <1>3 DEF KeysOnly
<1>6. FlushOK'
  BY <1>1 DEF FlushOK
<1>7. NewestDecides'
  BY <1>1, <1>2 DEF NewestDecides
<1> QED
  BY <1>4, <1>5, <1>6, <1>7 DEF MemInv

\* The live ladder of a state of the invariant.
LEMMA LiveSound ==
  ASSUME MemInv
  PROVE  /\ Sound(Live) /\ IsLadder(draining) /\ draining \in Seq(Seq(Records))
         /\ Live.buf = buf /\ Live.runs = runs /\ Live.size = size
         /\ buf \in Seq(Records) /\ runs \in Seq(Seq(Records)) /\ IsLadder(runs) /\ size \in Nat
<1>1. Sound(Live) /\ IsLadder(draining)
  BY DEF MemInv, LadderOK
<1>2. Live.buf = buf /\ Live.runs = runs /\ Live.size = size
  BY DEF Live
<1> QED
  BY <1>1, <1>2 DEF Sound, IsLadder

\* Materialization before a scan.
LEMMA EnsureMaterializedInv ==
  ASSUME MemInv, EnsureMaterialized
  PROVE  MemInv'
<1>1. PICK m : m = maybeMerge(materialize(Live))
  OBVIOUS
<1>2. Rearranged(Live, m)
  BY <1>1, LiveSound, MaterializedRearranges
<1>3. SetLive(m) /\ UNCHANGED <<kv, draining, pages, nextPages, phase>> /\ store' = store
  BY <1>1 DEF EnsureMaterialized, Materialized
<1>4. Sound(m) /\ store' \in Contents /\ (~kv => RecordsOf(m) \subseteq Plain)
  BY <1>2, <1>3 DEF Rearranged, MemInv, LadderOK, KeysOnly
<1>5. \A k \in AllKeys : ReadAs(Newest(draining \o m.runs, m.buf, k), pages[k]) = store'[k]
  BY <1>2, <1>3, LiveSound DEF Rearranged, ReadsAlike, MemInv, NewestDecides
<1> QED
  BY <1>3, <1>4, <1>5, LiveStep

\* A record written: the ladder reads it.
LEMMA AppendInv ==
  ASSUME MemInv, kv, NEW r \in Records, SetLive(appendRec(Live, r)),
         UNCHANGED <<kv, draining, pages, nextPages, phase>>,
         store' = [store EXCEPT ![r.k] = ValueOf(r)]
  PROVE  MemInv'
<1>1. PICK m : m = appendRec(Live, r)
  OBVIOUS
<1>2. Appended(Live, m, r)
  BY <1>1, LiveSound, AppendAppends
<1>3. r.k \in AllKeys /\ ValueOf(r) \in Vals \cup {NoValue, Absent} /\ store \in Contents
  BY DEF Records, ValueOf, MemInv, LadderOK
<1>4. store' \in Contents
  BY <1>3 DEF Contents
<1>5. ASSUME NEW k \in AllKeys
      PROVE  ReadAs(Newest(draining \o m.runs, m.buf, k), pages[k]) = store'[k]
  <2>1. Newest(draining \o m.runs, m.buf, k) =
          IF k = r.k THEN <<r>> ELSE Newest(draining \o runs, buf, k)
    BY <1>2, LiveSound DEF Appended, ReadsAppended
  <2>2. CASE k = r.k
    <3>1. store'[k] = ValueOf(r)
      BY <1>3, <2>2 DEF Contents
    <3>2. ReadAs(<<r>>, pages[k]) = ValueOf(r)
      BY DEF ReadAs
    <3> QED
      BY <2>1, <2>2, <3>1, <3>2
  <2>3. CASE k # r.k
    <3>1. store'[k] = store[k]
      BY <1>3, <2>3 DEF Contents
    <3> QED
      BY <2>1, <2>3, <3>1 DEF MemInv, NewestDecides
  <2> QED
    BY <2>2, <2>3
<1>6. Sound(m)
  BY <1>2 DEF Appended
<1> QED
  BY <1>1, <1>4, <1>5, <1>6, LiveStep

\* A put.
LEMMA PutKvInv ==
  ASSUME MemInv, NEW k \in KvKeys, NEW v \in Vals, PutKv(k, v)
  PROVE  MemInv'
<1>1. PICK r : r = Rec(k, v, FALSE)
  OBVIOUS
<1>2. r \in Records /\ r.k = k /\ ValueOf(r) = v
  BY <1>1 DEF Rec, Records, AllKeys, ValueOf
<1> QED
  BY <1>1, <1>2, AppendInv DEF PutKv, Writes

\* A deletion.
LEMMA DeleteKvInv ==
  ASSUME MemInv, NEW k \in KvKeys, DeleteKv(k)
  PROVE  MemInv'
<1>1. PICK r : r = Rec(k, NoValue, TRUE)
  OBVIOUS
<1>2. r \in Records /\ r.k = k /\ ValueOf(r) = Absent
  BY <1>1 DEF Rec, Records, AllKeys, ValueOf
<1> QED
  BY <1>1, <1>2, AppendInv DEF DeleteKv, Writes

\* A batch of keys.
LEMMA BatchInv ==
  ASSUME MemInv, NEW ks \in Batches, Batch(ks)
  PROVE  MemInv'
<1>1. ks \in Seq(Keys) /\ ToSet(ks) \subseteq Keys
  BY MemTableAssumption DEF ToSet
<1>2. PICK m : m = FoldLeft(appendKey, Live, ks)
  OBVIOUS
<1>3. KeysAppended(Live, m, ToSet(ks))
  BY <1>1, <1>2, LiveSound, BatchAppends
<1>4. /\ ~kv /\ SetLive(m) /\ UNCHANGED <<kv, draining, pages, nextPages, phase>>
      /\ store' = [k \in AllKeys |-> IF k \in ToSet(ks) THEN NoValue ELSE store[k]]
  BY <1>2 DEF Batch, Writes
<1>5. store' \in Contents
  BY <1>4 DEF Contents, MemInv, LadderOK
<1>6. Sound(m) /\ RecordsOf(m) \subseteq Plain
  BY <1>3, <1>4 DEF KeysAppended, MemInv, KeysOnly, Plain
<1>7. ASSUME NEW k \in AllKeys
      PROVE  ReadAs(Newest(draining \o m.runs, m.buf, k), pages[k]) = store'[k]
  <2>1. Newest(draining \o m.runs, m.buf, k) =
          IF k \in ToSet(ks) THEN <<KeyRec(k)>> ELSE Newest(draining \o runs, buf, k)
    BY <1>3, LiveSound DEF KeysAppended
  <2>2. CASE k \in ToSet(ks)
    <3>1. store'[k] = NoValue
      BY <1>4, <2>2
    <3>2. ReadAs(<<KeyRec(k)>>, pages[k]) = NoValue
      BY KeyRecType DEF ReadAs, ValueOf
    <3> QED
      BY <2>1, <2>2, <3>1, <3>2
  <2>3. CASE k \notin ToSet(ks)
    <3>1. store'[k] = store[k]
      BY <1>4, <2>3
    <3> QED
      BY <2>1, <2>3, <3>1 DEF MemInv, NewestDecides
  <2> QED
    BY <2>2, <2>3
<1> QED
  BY <1>4, <1>5, <1>6, <1>7, LiveStep

\* No draining runs, or no active ones.
LEMMA EmptyConcat ==
  ASSUME NEW R \in Seq(Seq(Records))
  PROVE  R \o <<>> = R /\ <<>> \o R = R
<1> DEFINE S == Seq(Records)
<1>1. R \in Seq(S)
  OBVIOUS
<1> HIDE DEF S
<1> QED
  BY <1>1, ConcatEmptySeq

\* A capture: the ladder becomes the draining runs.
LEMMA FreezeAllCaptureInv ==
  ASSUME MemInv, FreezeAllCapture
  PROVE  MemInv'
<1>1. PICK m : m = maybeMerge(materialize(Live))
  OBVIOUS
<1>2. Rearranged(Live, m) /\ m.buf = <<>>
  BY <1>1, LiveSound, MaterializedRearranges
<1>3. /\ phase = "idle" /\ draining' = m.runs /\ SetLive(Empty) /\ phase' = "captured"
      /\ nextPages' = pages /\ kv' = kv /\ pages' = pages /\ store' = store
  BY <1>1 DEF FreezeAllCapture, Materialized, Empty
<1>4. LadderOK /\ KeysOnly /\ draining = <<>>
  BY <1>3 DEF MemInv, FlushOK
<1>5. buf' = <<>> /\ runs' = <<>> /\ Live' = Empty
  BY <1>3 DEF SetLive, Empty, Live
<1>6. m.runs \in Seq(Seq(Records)) /\ IsLadder(m.runs)
  BY <1>2 DEF Rearranged, Sound
<1>7. LadderOK'
  BY <1>3, <1>4, <1>5, <1>6, EmptySound DEF LadderOK
<1>8. KeysOnly'
  <2>1. ASSUME ~kv, NEW i \in DOMAIN m.runs PROVE ToSet(m.runs[i]) \subseteq Plain
    <3>1. ToSet(m.runs[i]) \subseteq RecordsOf(m)
      BY DEF RecordsOf
    <3> QED
      BY <1>2, <1>4, <2>1, <3>1 DEF Rearranged, KeysOnly
  <2> QED
    BY <1>3, <1>5, <2>1, EmptySound DEF KeysOnly
<1>9. FlushOK'
  BY <1>3 DEF FlushOK
<1>10. ASSUME NEW k \in AllKeys
       PROVE  ReadAs(Newest(m.runs \o <<>>, <<>>, k), pages[k]) = store[k]
  <2>1. m.runs \o <<>> = <<>> \o m.runs
    BY <1>6, EmptyConcat
  <2>2. Newest(<<>> \o m.runs, <<>>, k) = Newest(<<>> \o runs, buf, k)
    BY <1>2, <1>4, LiveSound DEF Rearranged, ReadsAlike
  <2>3. ReadAs(Newest(<<>> \o runs, buf, k), pages[k]) = store[k]
    BY <1>4 DEF MemInv, NewestDecides
  <2> QED
    BY <2>1, <2>2, <2>3
<1>11. NewestDecides'
  BY <1>3, <1>5, <1>10 DEF NewestDecides
<1> QED
  BY <1>7, <1>8, <1>9, <1>11 DEF MemInv

\* The drain into the captured pages.
LEMMA DrainBatchInv ==
  ASSUME MemInv, DrainBatch
  PROVE  MemInv'
<1>1. PICK d : d = IF kv THEN DrainKvSorted(draining)
                   ELSE [pairs |-> DrainSorted(draining), deleted |-> {}]
  OBVIOUS
<1>2. /\ phase = "captured" /\ phase' = "prepared"
      /\ nextPages' = MergedPages(nextPages, d.pairs, d.deleted)
      /\ kv' = kv /\ buf' = buf /\ runs' = runs /\ draining' = draining /\ size' = size
      /\ pages' = pages /\ store' = store
  BY <1>1 DEF DrainBatch, ladder
<1>3. /\ LadderOK /\ KeysOnly /\ nextPages = pages /\ pages \in Contents /\ IsLadder(draining)
      /\ kv \in BOOLEAN
  BY <1>2 DEF MemInv, FlushOK, LadderOK
<1>4. ASSUME NEW k \in AllKeys
      PROVE  MergedPages(pages, d.pairs, d.deleted)[k] = Drained(draining, pages, k)
  <2>1. CASE kv
    <3>1. d = DrainKvSorted(draining)
      BY <1>1, <2>1
    <3> QED
      BY <1>3, <3>1, DrainKvMerges
  <2>2. CASE ~kv
    <3>1. d.pairs = DrainSorted(draining) /\ d.deleted = {}
      BY <1>1, <2>2
    <3>2. \A i \in DOMAIN draining : ToSet(draining[i]) \subseteq Plain
      BY <1>3, <2>2 DEF KeysOnly
    <3> QED
      BY <1>3, <3>1, <3>2, DrainMerges
  <2> QED
    BY <1>3, <2>1, <2>2
<1>5. ASSUME NEW k \in AllKeys PROVE nextPages'[k] = Drained(draining, pages, k)
  BY <1>2, <1>3, <1>4
<1>6. nextPages' \in Contents
  <2>1. PICK f : f = MergedPages(pages, d.pairs, d.deleted)
    OBVIOUS
  <2>2. f = [k \in AllKeys |-> f[k]]
    BY <2>1 DEF MergedPages
  <2>3. \A k \in AllKeys : f[k] \in Values
    BY <1>3, <1>4, <2>1, DrainedType
  <2>4. f \in [AllKeys -> Values]
    BY <2>2, <2>3
  <2> QED
    BY <1>2, <1>3, <2>1, <2>4 DEF Contents, Values
<1>7. Live' = Live
  BY <1>2 DEF Live
<1>8. LadderOK'
  BY <1>2, <1>3, <1>6, <1>7 DEF LadderOK
<1>9. KeysOnly'
  BY <1>2, <1>3, <1>7 DEF KeysOnly
<1>10. FlushOK'
  BY <1>2, <1>5 DEF FlushOK
<1>11. NewestDecides'
  BY <1>2 DEF MemInv, NewestDecides
<1> QED
  BY <1>8, <1>9, <1>10, <1>11 DEF MemInv

\* The pages of the flush are published: a record of the draining runs hides them.
LEMMA PublishTreesInv ==
  ASSUME MemInv, PublishTrees
  PROVE  MemInv'
<1>1. /\ phase = "prepared" /\ pages' = nextPages /\ phase' = "swapped" /\ nextPages' = Nothing
      /\ kv' = kv /\ buf' = buf /\ runs' = runs /\ draining' = draining /\ size' = size
      /\ store' = store
  BY DEF PublishTrees, ladder
<1>2. LadderOK /\ KeysOnly /\ \A k \in AllKeys : nextPages[k] = Drained(draining, pages, k)
  BY <1>1 DEF MemInv, FlushOK
<1>3. Live' = Live /\ Nothing \in Contents
  BY <1>1 DEF Live, Nothing, Contents
<1>4. LadderOK'
  BY <1>1, <1>2, <1>3 DEF LadderOK
<1>5. KeysOnly'
  BY <1>1, <1>2, <1>3 DEF KeysOnly
<1>6. FlushOK'
  <2>1. ASSUME NEW k \in AllKeys PROVE nextPages[k] = Drained(draining, nextPages, k)
    BY <1>2 DEF Drained
  <2> QED
    BY <1>1, <2>1 DEF FlushOK
<1>7. ASSUME NEW k \in AllKeys
      PROVE  ReadAs(Newest(draining \o runs, buf, k), nextPages[k]) = store[k]
  <2>1. ReadAs(Newest(draining \o runs, buf, k), pages[k]) = store[k]
    BY DEF MemInv, NewestDecides
  <2>2. Holders(draining \o runs, k) # {} <=> Holders(draining, k) # {} \/ Holders(runs, k) # {}
    BY LiveSound, TopConcat
  <2>3. Holders(draining, k) # {} <=> k \in RunKeys(draining)
    BY LiveSound, HoldersHold
  <2>4. Newest(draining \o runs, buf, k) = <<>> => nextPages[k] = pages[k]
    BY <1>2, <2>2, <2>3 DEF Newest, Drained
  <2> QED
    BY <2>1, <2>4 DEF ReadAs
<1>8. NewestDecides'
  BY <1>1, <1>7 DEF NewestDecides
<1> QED
  BY <1>4, <1>5, <1>6, <1>8 DEF MemInv

\* The draining runs are discarded: the pages hold what they decided.
LEMMA PublishInv ==
  ASSUME MemInv, Publish
  PROVE  MemInv'
<1>1. /\ phase = "swapped" /\ pages' = pages /\ draining' = <<>> /\ phase' = "idle"
      /\ nextPages' = nextPages /\ kv' = kv /\ buf' = buf /\ runs' = runs /\ size' = size
      /\ store' = store
  BY DEF Publish
<1>2. LadderOK /\ KeysOnly /\ \A k \in AllKeys : pages[k] = Drained(draining, pages, k)
  BY <1>1 DEF MemInv, FlushOK
<1>3. Live' = Live
  BY <1>1 DEF Live
<1>4. LadderOK'
  BY <1>1, <1>2, <1>3, EmptySound DEF LadderOK
<1>5. KeysOnly'
  BY <1>1, <1>2, <1>3 DEF KeysOnly
<1>6. FlushOK'
  BY <1>1 DEF FlushOK
<1>7. ASSUME NEW k \in AllKeys
      PROVE  ReadAs(Newest(<<>> \o runs, buf, k), pages[k]) = store[k]
  <2>1. <<>> \o runs = runs
    BY LiveSound, EmptyConcat
  <2>2. ReadAs(Newest(draining \o runs, buf, k), pages[k]) = store[k]
    BY DEF MemInv, NewestDecides
  <2>3. /\ Holders(draining \o runs, k) # {} <=> Holders(draining, k) # {} \/ Holders(runs, k) # {}
        /\ Holders(runs, k) # {} => TopRec(draining \o runs, k) = TopRec(runs, k)
        /\ Holders(runs, k) = {} /\ Holders(draining, k) # {} =>
             TopRec(draining \o runs, k) = TopRec(draining, k)
    BY LiveSound, TopConcat
  <2>4. Holders(draining, k) # {} <=> k \in RunKeys(draining)
    BY LiveSound, HoldersHold
  <2>5. CASE k \in RecKeys(buf) \/ Holders(runs, k) # {}
    <3>1. Newest(runs, buf, k) = Newest(draining \o runs, buf, k) /\ Newest(runs, buf, k) # <<>>
      BY <2>3, <2>5 DEF Newest
    <3> QED
      BY <2>1, <2>2, <3>1 DEF ReadAs
  <2>6. CASE k \notin RecKeys(buf) /\ Holders(runs, k) = {}
    <3>1. Newest(runs, buf, k) = <<>>
      BY <2>6 DEF Newest
    <3>2. CASE k \in RunKeys(draining)
      <4>1. Newest(draining \o runs, buf, k) = <<TopRec(draining, k)>>
        BY <2>3, <2>4, <2>6, <3>2 DEF Newest
      <4>2. pages[k] = ValueOf(TopRec(draining, k))
        BY <1>2, <3>2 DEF Drained
      <4> QED
        BY <2>1, <2>2, <3>1, <4>1, <4>2 DEF ReadAs
    <3>3. CASE k \notin RunKeys(draining)
      <4>1. Newest(draining \o runs, buf, k) = <<>>
        BY <2>3, <2>4, <2>6, <3>3 DEF Newest
      <4> QED
        BY <2>1, <2>2, <3>1, <4>1
    <3> QED
      BY <3>2, <3>3
  <2> QED
    BY <2>5, <2>6
<1>8. NewestDecides'
  BY <1>1, <1>7 DEF NewestDecides
<1> QED
  BY <1>4, <1>5, <1>6, <1>8 DEF MemInv

\* Every step keeps the invariant.
LEMMA NextInv == MemInv /\ [MemNext]_memVars => MemInv'
<1> SUFFICES ASSUME MemInv, [MemNext]_memVars PROVE MemInv'
  OBVIOUS
<1>1. CASE \E ks \in Batches : Batch(ks)
  BY <1>1, BatchInv
<1>2. CASE \E k \in KvKeys, v \in Vals : PutKv(k, v)
  BY <1>2, PutKvInv
<1>3. CASE \E k \in KvKeys : DeleteKv(k)
  BY <1>3, DeleteKvInv
<1>4. CASE EnsureMaterialized
  BY <1>4, EnsureMaterializedInv
<1>5. CASE FreezeAllCapture
  BY <1>5, FreezeAllCaptureInv
<1>6. CASE DrainBatch
  BY <1>6, DrainBatchInv
<1>7. CASE PublishTrees
  BY <1>7, PublishTreesInv
<1>8. CASE Publish
  BY <1>8, PublishInv
<1>9. ASSUME kv' = kv, buf' = buf, runs' = runs, draining' = draining, size' = size,
             pages' = pages, nextPages' = nextPages, phase' = phase, store' = store
      PROVE  MemInv'
  BY <1>9 DEF MemInv, LadderOK, KeysOnly, FlushOK, NewestDecides, Live
<1>10. CASE (\E k \in AllKeys : StartRead(k)) \/ GetValue \/ ReadPages
  BY <1>9, <1>10 DEF StartRead, GetValue, ReadPages, ladder
<1>11. CASE UNCHANGED memVars
  BY <1>9, <1>11 DEF memVars, ladder
<1> QED
  BY <1>1, <1>2, <1>3, <1>4, <1>5, <1>6, <1>7, <1>8, <1>10, <1>11 DEF MemNext

-----------------------------------------------------------------------------
(* Point reads: what a read in progress relies on.                         *)

\* The record that decides a key now.
Deciding(k) == Newest(draining \o runs, buf, k)

\* A read in progress has seen the value its key has now; one that goes on to the
\* pages has seen what they hold and what a flush in flight leaves there; and one
\* that has found a record finds one again, unless a publish took it.
ReadInv ==
  /\ rd \in [pc : {"idle", "value", "pages", "done"}, k : AllKeys \cup {NoKey},
             ans : Values, seen : SUBSET Values, torn : BOOLEAN]
  /\ Reading => rd.k \in AllKeys /\ store[rd.k] \in rd.seen
  /\ rd.pc = "value" => rd.torn \/ Deciding(rd.k) # <<>>
  /\ rd.pc = "pages" => pages[rd.k] \in rd.seen /\ Drained(draining, pages, rd.k) \in rd.seen
  /\ rd.pc = "done" => rd.ans \in rd.seen \/ rd.torn

\* A read that goes on: it may have seen more, or lost its record.
LEMMA ReadGoesOn ==
  ASSUME ReadInv, NEW seen \in SUBSET Values, NEW torn \in BOOLEAN,
         rd' = [rd EXCEPT !.seen = seen, !.torn = torn],
         rd.seen \subseteq seen, rd.torn => torn,
         Reading => store'[rd.k] \in seen,
         rd.pc = "value" => torn \/ Newest(draining' \o runs', buf', rd.k) # <<>>,
         rd.pc = "pages" => pages'[rd.k] \in seen /\ Drained(draining', pages', rd.k) \in seen
  PROVE  ReadInv'
<1>1. rd \in [pc : {"idle", "value", "pages", "done"}, k : AllKeys \cup {NoKey},
              ans : Values, seen : SUBSET Values, torn : BOOLEAN]
  BY DEF ReadInv
<1>2. /\ rd' \in [pc : {"idle", "value", "pages", "done"}, k : AllKeys \cup {NoKey},
                  ans : Values, seen : SUBSET Values, torn : BOOLEAN]
      /\ rd'.pc = rd.pc /\ rd'.k = rd.k /\ rd'.ans = rd.ans /\ rd'.seen = seen /\ rd'.torn = torn
  BY <1>1
<1>3. Reading' <=> Reading
  BY <1>2 DEF Reading
<1>4. Deciding(rd.k)' = Newest(draining' \o runs', buf', rd'.k)
  BY <1>2 DEF Deciding
<1>5. Reading' => rd'.k \in AllKeys /\ store'[rd'.k] \in rd'.seen
  BY <1>2, <1>3 DEF ReadInv
<1>6. rd'.pc = "value" => rd'.torn \/ Deciding(rd.k)' # <<>>
  BY <1>2, <1>4
<1>7. rd'.pc = "pages" =>
        pages'[rd'.k] \in rd'.seen /\ Drained(draining', pages', rd'.k) \in rd'.seen
  BY <1>2
<1>8. rd'.pc = "done" => rd'.ans \in rd'.seen \/ rd'.torn
  BY <1>2 DEF ReadInv
<1> QED
  BY <1>2, <1>5, <1>6, <1>7, <1>8 DEF ReadInv

\* A step that leaves the draining runs and the pages alone and takes no key away
\* from the ladder: a write, or a materialization.
LEMMA LiveReads ==
  ASSUME ReadInv, store' \in Contents, draining' = draining, pages' = pages,
         \A k \in AllKeys : Deciding(k) # <<>> => Newest(draining \o runs', buf', k) # <<>>,
         \/ rd' = rd /\ store' = store
         \/ rd' = IF Reading THEN [rd EXCEPT !.seen = @ \cup {store'[rd.k]}] ELSE rd
  PROVE  ReadInv'
<1>1. /\ rd \in [pc : {"idle", "value", "pages", "done"}, k : AllKeys \cup {NoKey},
                 ans : Values, seen : SUBSET Values, torn : BOOLEAN]
      /\ Reading => rd.k \in AllKeys /\ store[rd.k] \in rd.seen
  BY DEF ReadInv
<1>2. PICK seen : seen = IF Reading THEN rd.seen \cup {store'[rd.k]} ELSE rd.seen
  OBVIOUS
<1>3. Reading => store'[rd.k] \in Values
  BY <1>1 DEF Contents, Values
<1>4. seen \in SUBSET Values /\ rd.seen \subseteq seen /\ (Reading => store'[rd.k] \in seen)
  BY <1>1, <1>2, <1>3
<1>5. rd' = [rd EXCEPT !.seen = seen, !.torn = rd.torn]
  <2>1. CASE Reading /\ rd' = [rd EXCEPT !.seen = @ \cup {store'[rd.k]}]
    BY <1>1, <1>2, <2>1
  <2>2. CASE rd' = rd /\ seen = rd.seen
    BY <1>1, <2>2
  <2>3. CASE rd' = rd /\ store' = store /\ Reading
    <3>1. seen = rd.seen
      BY <1>1, <1>2, <2>3
    <3> QED
      BY <2>2, <2>3, <3>1
  <2> QED
    BY <1>2, <2>1, <2>2, <2>3
<1>6. rd.torn \in BOOLEAN
  BY <1>1
<1>7. rd.pc = "value" => rd.torn \/ Newest(draining' \o runs', buf', rd.k) # <<>>
  BY <1>1 DEF ReadInv, Reading
<1>8. rd.pc = "pages" => pages'[rd.k] \in seen /\ Drained(draining', pages', rd.k) \in seen
  BY <1>4 DEF ReadInv
<1> QED
  BY <1>4, <1>5, <1>6, <1>7, <1>8, ReadGoesOn

\* Materialization before a scan.
LEMMA EnsureMaterializedReads ==
  ASSUME MemInv, ReadInv, EnsureMaterialized
  PROVE  ReadInv'
<1>1. PICK m : m = maybeMerge(materialize(Live))
  OBVIOUS
<1>2. Rearranged(Live, m)
  BY <1>1, LiveSound, MaterializedRearranges
<1>3. /\ SetLive(m) /\ draining' = draining /\ pages' = pages /\ store' = store /\ rd' = rd
      /\ store' \in Contents
  BY <1>1 DEF EnsureMaterialized, Materialized, MemInv, LadderOK
<1>4. buf' = m.buf /\ runs' = m.runs
  BY <1>3 DEF SetLive
<1>5. \A k \in AllKeys : Newest(draining \o m.runs, m.buf, k) = Deciding(k)
  BY <1>2, LiveSound DEF Rearranged, ReadsAlike, Deciding
<1> QED
  BY <1>3, <1>4, <1>5, LiveReads

\* A record written.
LEMMA AppendReads ==
  ASSUME MemInv, MemInv', ReadInv, NEW r \in Records, SetLive(appendRec(Live, r)),
         draining' = draining, pages' = pages,
         rd' = IF Reading THEN [rd EXCEPT !.seen = @ \cup {store'[rd.k]}] ELSE rd
  PROVE  ReadInv'
<1>1. PICK m : m = appendRec(Live, r)
  OBVIOUS
<1>2. Appended(Live, m, r)
  BY <1>1, LiveSound, AppendAppends
<1>3. buf' = m.buf /\ runs' = m.runs /\ store' \in Contents
  BY <1>1 DEF SetLive, MemInv, LadderOK
<1>4. ASSUME NEW k \in AllKeys, Deciding(k) # <<>>
      PROVE  Newest(draining \o runs', buf', k) # <<>>
  <2>1. Newest(draining \o m.runs, m.buf, k) = IF k = r.k THEN <<r>> ELSE Deciding(k)
    BY <1>2, LiveSound DEF Appended, ReadsAppended, Deciding
  <2> QED
    BY <1>3, <1>4, <2>1
<1> QED
  BY <1>3, <1>4, LiveReads

\* A put.
LEMMA PutKvReads ==
  ASSUME MemInv, ReadInv, NEW k \in KvKeys, NEW v \in Vals, PutKv(k, v)
  PROVE  ReadInv'
<1>1. PICK r : r = Rec(k, v, FALSE)
  OBVIOUS
<1>2. r \in Records
  BY <1>1 DEF Rec, Records, AllKeys
<1>3. MemInv'
  BY PutKvInv
<1>4. rd' = IF Reading THEN [rd EXCEPT !.seen = @ \cup {store'[rd.k]}] ELSE rd
  BY DEF PutKv, Writes
<1>5. SetLive(appendRec(Live, r)) /\ draining' = draining /\ pages' = pages
  BY <1>1 DEF PutKv
<1> QED
  BY <1>2, <1>3, <1>4, <1>5, AppendReads

\* A deletion.
LEMMA DeleteKvReads ==
  ASSUME MemInv, ReadInv, NEW k \in KvKeys, DeleteKv(k)
  PROVE  ReadInv'
<1>1. PICK r : r = Rec(k, NoValue, TRUE)
  OBVIOUS
<1>2. r \in Records
  BY <1>1 DEF Rec, Records, AllKeys
<1>3. MemInv'
  BY DeleteKvInv
<1>4. rd' = IF Reading THEN [rd EXCEPT !.seen = @ \cup {store'[rd.k]}] ELSE rd
  BY DEF DeleteKv, Writes
<1>5. SetLive(appendRec(Live, r)) /\ draining' = draining /\ pages' = pages
  BY <1>1 DEF DeleteKv
<1> QED
  BY <1>2, <1>3, <1>4, <1>5, AppendReads

\* A batch of keys.
LEMMA BatchReads ==
  ASSUME MemInv, ReadInv, NEW ks \in Batches, Batch(ks)
  PROVE  ReadInv'
<1>1. ks \in Seq(Keys)
  BY MemTableAssumption
<1>2. PICK m : m = FoldLeft(appendKey, Live, ks)
  OBVIOUS
<1>3. KeysAppended(Live, m, ToSet(ks))
  BY <1>1, <1>2, LiveSound, BatchAppends
<1>4. SetLive(m) /\ draining' = draining /\ pages' = pages
  BY <1>2 DEF Batch
<1>5. rd' = IF Reading THEN [rd EXCEPT !.seen = @ \cup {store'[rd.k]}] ELSE rd
  BY DEF Batch, Writes
<1>6. MemInv'
  BY BatchInv
<1>7. buf' = m.buf /\ runs' = m.runs /\ store' \in Contents
  BY <1>4, <1>6 DEF SetLive, MemInv, LadderOK
<1>8. ASSUME NEW k \in AllKeys, Deciding(k) # <<>>
      PROVE  Newest(draining \o runs', buf', k) # <<>>
  <2>1. Newest(draining \o m.runs, m.buf, k) =
          IF k \in ToSet(ks) THEN <<KeyRec(k)>> ELSE Deciding(k)
    BY <1>3, LiveSound DEF KeysAppended, Deciding
  <2> QED
    BY <1>7, <1>8, <2>1
<1> QED
  BY <1>4, <1>5, <1>7, <1>8, LiveReads

\* What the runs decide, with no delta and no other runs, is what a drain leaves.
LEMMA DrainedDecides ==
  ASSUME NEW D, IsLadder(D), NEW content, NEW k \in AllKeys
  PROVE  Drained(D, content, k) = ReadAs(Newest(D, <<>>, k), content[k])
<1>1. D \in Seq(Seq(Records))
  BY DEF IsLadder
<1>2. Holders(D, k) # {} <=> k \in RunKeys(D)
  BY <1>1, HoldersHold
<1>3. k \notin RecKeys(<<>>)
  BY DEF RecKeys
<1>4. Newest(D, <<>>, k) = IF k \in RunKeys(D) THEN <<TopRec(D, k)>> ELSE <<>>
  BY <1>2, <1>3 DEF Newest
<1> QED
  BY <1>4 DEF Drained, ReadAs

\* A capture: what the flush leaves on the pages is the value of the key now.
LEMMA FreezeAllCaptureReads ==
  ASSUME MemInv, ReadInv, FreezeAllCapture
  PROVE  ReadInv'
<1>1. PICK m : m = maybeMerge(materialize(Live))
  OBVIOUS
<1>2. Rearranged(Live, m) /\ m.buf = <<>>
  BY <1>1, LiveSound, MaterializedRearranges
<1>3. /\ phase = "idle" /\ draining' = m.runs /\ buf' = <<>> /\ runs' = <<>>
      /\ pages' = pages /\ store' = store /\ rd' = rd
  BY <1>1 DEF FreezeAllCapture, Materialized, SetLive
<1>4. draining = <<>>
  BY <1>3 DEF MemInv, FlushOK
<1>5. IsLadder(m.runs) /\ m.runs \o <<>> = m.runs /\ <<>> \o m.runs = m.runs
  BY <1>2, EmptyConcat DEF Rearranged, Sound
<1>6. ASSUME NEW k \in AllKeys
      PROVE  /\ Newest(draining' \o runs', buf', k) = Deciding(k)
             /\ Drained(draining', pages', k) = store'[k]
  <2>1. Newest(m.runs, <<>>, k) = Deciding(k)
    BY <1>2, <1>4, <1>5, LiveSound DEF Rearranged, ReadsAlike, Deciding
  <2>2. ReadAs(Deciding(k), pages[k]) = store[k]
    BY DEF MemInv, NewestDecides, Deciding
  <2>3. Drained(m.runs, pages, k) = ReadAs(Newest(m.runs, <<>>, k), pages[k])
    BY <1>5, DrainedDecides
  <2> QED
    BY <1>3, <1>5, <2>1, <2>2, <2>3
<1>7. /\ rd \in [pc : {"idle", "value", "pages", "done"}, k : AllKeys \cup {NoKey},
                 ans : Values, seen : SUBSET Values, torn : BOOLEAN]
      /\ Reading => rd.k \in AllKeys /\ store[rd.k] \in rd.seen
  BY DEF ReadInv
<1>8. /\ rd' = [rd EXCEPT !.seen = rd.seen, !.torn = rd.torn]
      /\ rd.seen \in SUBSET Values /\ rd.torn \in BOOLEAN
  BY <1>3, <1>7
<1>9. rd.pc = "value" => rd.torn \/ Newest(draining' \o runs', buf', rd.k) # <<>>
  BY <1>6, <1>7 DEF ReadInv, Reading
<1>10. rd.pc = "pages" =>
         pages'[rd.k] \in rd.seen /\ Drained(draining', pages', rd.k) \in rd.seen
  BY <1>3, <1>6, <1>7 DEF ReadInv, Reading
<1> QED
  BY <1>3, <1>7, <1>8, <1>9, <1>10, ReadGoesOn

\* The drain changes only the pages of the flush.
LEMMA DrainBatchReads ==
  ASSUME ReadInv, DrainBatch
  PROVE  ReadInv'
<1>1. /\ buf' = buf /\ runs' = runs /\ draining' = draining
      /\ pages' = pages /\ store' = store /\ rd' = rd
  BY DEF DrainBatch, ladder
<1> QED
  BY <1>1 DEF ReadInv, Reading, Deciding

\* The pages are swapped while the draining runs are still there.
LEMMA PublishTreesReads ==
  ASSUME MemInv, ReadInv, PublishTrees
  PROVE  ReadInv'
<1>1. /\ phase = "prepared" /\ buf' = buf /\ runs' = runs /\ draining' = draining
      /\ pages' = nextPages /\ store' = store /\ rd' = rd
  BY DEF PublishTrees, ladder
<1>2. ASSUME NEW k \in AllKeys
      PROVE  /\ pages'[k] = Drained(draining, pages, k)
             /\ Drained(draining', pages', k) = Drained(draining, pages, k)
  <2>1. nextPages[k] = Drained(draining, pages, k)
    BY <1>1 DEF MemInv, FlushOK
  <2> QED
    BY <1>1, <2>1 DEF Drained
<1>3. rd.pc = "pages" => pages'[rd.k] \in rd.seen /\ Drained(draining', pages', rd.k) \in rd.seen
  BY <1>2 DEF ReadInv, Reading
<1> QED
  BY <1>1, <1>3 DEF ReadInv, Reading, Deciding

\* The draining runs are discarded: a read that has found its record there has lost it.
LEMMA PublishReads ==
  ASSUME MemInv, ReadInv, Publish
  PROVE  ReadInv'
<1>1. /\ buf' = buf /\ runs' = runs /\ draining' = <<>> /\ pages' = pages /\ store' = store
      /\ rd' = IF rd.pc = "value" THEN [rd EXCEPT !.torn = @ \/ Lookup(runs, buf, rd.k) = <<>>] ELSE rd
  BY DEF Publish
<1>2. PICK torn \in BOOLEAN :
        torn = IF rd.pc = "value" THEN rd.torn \/ Lookup(runs, buf, rd.k) = <<>> ELSE rd.torn
  BY DEF ReadInv
<1>3. /\ rd \in [pc : {"idle", "value", "pages", "done"}, k : AllKeys \cup {NoKey},
                 ans : Values, seen : SUBSET Values, torn : BOOLEAN]
      /\ Reading => rd.k \in AllKeys /\ store[rd.k] \in rd.seen
  BY DEF ReadInv
<1>4. rd.seen \in SUBSET Values /\ rd' = [rd EXCEPT !.seen = rd.seen, !.torn = torn]
  BY <1>1, <1>2, <1>3
<1>5. rd.torn => torn
  BY <1>2
<1>6. rd.pc = "value" => torn \/ Newest(draining' \o runs', buf', rd.k) # <<>>
  <2> SUFFICES ASSUME rd.pc = "value" PROVE torn \/ Newest(draining' \o runs', buf', rd.k) # <<>>
    OBVIOUS
  <2>1. rd.k \in AllKeys
    BY <1>3 DEF Reading
  <2>2. Lookup(runs, buf, rd.k) = Newest(runs, buf, rd.k)
    BY <2>1, LiveSound, LookupNewest
  <2>3. <<>> \o runs = runs
    BY LiveSound, EmptyConcat
  <2> QED
    BY <1>1, <1>2, <2>2, <2>3
<1>7. rd.pc = "pages" => pages'[rd.k] \in rd.seen /\ Drained(draining', pages', rd.k) \in rd.seen
  <2>1. RunKeys(<<>>) = {}
    BY DEF RunKeys
  <2>2. Drained(<<>>, pages, rd.k) = pages[rd.k]
    BY <2>1 DEF Drained
  <2> QED
    BY <1>1, <2>2 DEF ReadInv
<1> QED
  BY <1>1, <1>3, <1>4, <1>5, <1>6, <1>7, ReadGoesOn

\* What the first or the second call of a read finds.
LEMMA LookupDecides ==
  ASSUME MemInv, NEW k \in AllKeys
  PROVE  /\ LookupKv(k) = Deciding(k)
         /\ ReadAs(Deciding(k), pages[k]) = store[k]
<1>1. IsLadder(draining \o runs)
  <2>1. PICK D, R, C : D = draining /\ R = runs /\ C = draining \o runs
    OBVIOUS
  <2>2. D \in Seq(Seq(Records)) /\ R \in Seq(Seq(Records)) /\ C = D \o R /\ IsLadder(D) /\ IsLadder(R)
    BY <2>1, LiveSound
  <2>3. /\ C \in Seq(Seq(Records)) /\ DOMAIN C = 1 .. Len(D) + Len(R)
        /\ DOMAIN D = 1 .. Len(D) /\ DOMAIN R = 1 .. Len(R) /\ Len(D) \in Nat /\ Len(R) \in Nat
    BY <2>2
  <2>4. ASSUME NEW i \in DOMAIN C PROVE IsRun(C[i])
    <3>1. CASE i \in 1 .. Len(D)
      BY <2>2, <2>3, <3>1 DEF IsLadder
    <3>2. CASE i \notin 1 .. Len(D)
      <4>1. i - Len(D) \in DOMAIN R /\ C[i] = R[i - Len(D)]
        BY <2>2, <2>3, <3>2
      <4> QED
        BY <2>2, <4>1 DEF IsLadder
    <3> QED
      BY <3>1, <3>2
  <2> QED
    BY <2>1, <2>3, <2>4 DEF IsLadder
<1>2. LookupKv(k) = Newest(draining \o runs, buf, k)
  BY <1>1, LiveSound, LookupNewest DEF LookupKv
<1>3. ReadAs(Newest(draining \o runs, buf, k), pages[k]) = store[k]
  BY DEF MemInv, NewestDecides
<1> QED
  BY <1>2, <1>3 DEF Deciding

\* A record that decides a key of a key-only family has no value and no tombstone.
LEMMA KeyOnlyHit ==
  ASSUME MemInv, ~kv, NEW k \in AllKeys, Deciding(k) # <<>>, ~Deciding(k)[1].del
  PROVE  store[k] = NoValue
<1>1. PICK r : r = Deciding(k)[1]
  OBVIOUS
<1>2. /\ RecordsOf(Live) \subseteq Plain
      /\ \A i \in DOMAIN draining : ToSet(draining[i]) \subseteq Plain
  BY DEF MemInv, KeysOnly
<1>3. r \in Plain
  <2>1. CASE k \in RecKeys(buf)
    <3>1. LastOf(buf, k) \in DOMAIN buf
      BY <2>1, LiveSound, LastOfIsLast
    <3>2. r = buf[LastOf(buf, k)]
      BY <1>1, <2>1 DEF Deciding, Newest
    <3>3. r \in RecordsOf(Live)
      BY <3>1, <3>2, LiveSound DEF RecordsOf, ToSet
    <3> QED
      BY <1>2, <3>3
  <2>2. CASE k \notin RecKeys(buf)
    <3>1. Holders(draining \o runs, k) # {} /\ r = TopRec(draining \o runs, k)
      BY <1>1, <2>2 DEF Deciding, Newest
    <3>2. /\ Holders(draining \o runs, k) # {} <=> Holders(draining, k) # {} \/ Holders(runs, k) # {}
          /\ Holders(runs, k) # {} => TopRec(draining \o runs, k) = TopRec(runs, k)
          /\ Holders(runs, k) = {} /\ Holders(draining, k) # {} =>
               TopRec(draining \o runs, k) = TopRec(draining, k)
      BY LiveSound, TopConcat
    <3>3. CASE Holders(runs, k) # {}
      <4>1. k \in RunKeys(runs)
        BY <3>3, LiveSound, HoldersHold
      <4>2. PICK i \in DOMAIN runs : TopRec(runs, k) \in ToSet(runs[i])
        BY <4>1, LiveSound, TopRecIn
      <4>3. r \in RecordsOf(Live)
        BY <3>1, <3>2, <3>3, <4>2, LiveSound DEF RecordsOf
      <4> QED
        BY <1>2, <4>3
    <3>4. CASE Holders(runs, k) = {}
      <4>1. Holders(draining, k) # {}
        BY <3>1, <3>2, <3>4
      <4>2. k \in RunKeys(draining)
        BY <4>1, LiveSound, HoldersHold
      <4>3. PICK i \in DOMAIN draining : TopRec(draining, k) \in ToSet(draining[i])
        BY <4>2, LiveSound, TopRecIn
      <4> QED
        BY <1>2, <3>1, <3>2, <3>4, <4>1, <4>3
    <3> QED
      BY <3>3, <3>4
  <2> QED
    BY <2>1, <2>2
<1>4. ValueOf(r) = NoValue
  BY <1>3, KeyRecType DEF Plain, ValueOf, KeyRec, Rec
<1>5. ReadAs(Deciding(k), pages[k]) = store[k]
  BY DEF MemInv, NewestDecides, Deciding
<1> QED
  BY <1>1, <1>4, <1>5 DEF ReadAs

\* A flush in flight leaves the pages of a key alone that nothing in memory decides.
LEMMA UndecidedNotDrained ==
  ASSUME MemInv, NEW k \in AllKeys, Deciding(k) = <<>>
  PROVE  Drained(draining, pages, k) = pages[k]
<1>1. Holders(draining \o runs, k) # {} <=> Holders(draining, k) # {} \/ Holders(runs, k) # {}
  BY LiveSound, TopConcat
<1>2. Holders(draining \o runs, k) = {}
  BY DEF Deciding, Newest
<1>3. k \notin RunKeys(draining)
  BY <1>1, <1>2, LiveSound, HoldersHold
<1> QED
  BY <1>3 DEF Drained

\* A read begins.
LEMMA StartReadReads ==
  ASSUME MemInv, ReadInv, NEW k \in AllKeys, StartRead(k)
  PROVE  ReadInv'
<1>1. PICK hit : hit = Deciding(k)
  OBVIOUS
<1>2. LookupKv(k) = hit /\ ReadAs(hit, pages[k]) = store[k]
  BY <1>1, LookupDecides
<1>3. /\ buf' = buf /\ runs' = runs /\ draining' = draining /\ pages' = pages /\ store' = store
      /\ kv' = kv
  BY DEF StartRead, ladder
<1>4. PICK begun : begun = [NoRead EXCEPT !.k = k, !.seen = {store[k]}]
  OBVIOUS
<1>5. \/ hit = <<>> /\ rd' = [begun EXCEPT !.pc = "pages"]
      \/ hit # <<>> /\ hit[1].del /\ rd' = [begun EXCEPT !.pc = "done", !.ans = Absent]
      \/ /\ hit # <<>> /\ ~hit[1].del
         /\ rd' = IF kv THEN [begun EXCEPT !.pc = "value"]
                  ELSE [begun EXCEPT !.pc = "done", !.ans = NoValue]
  BY <1>2, <1>4 DEF StartRead
<1>6. store[k] \in Values /\ kv \in BOOLEAN
  BY DEF MemInv, LadderOK, Contents, Values
<1>7. begun = [pc |-> "idle", k |-> k, ans |-> Absent, seen |-> {store[k]}, torn |-> FALSE]
  BY <1>4 DEF NoRead
<1>8. Deciding(k)' = Deciding(k)
  BY <1>3 DEF Deciding
<1>9. CASE hit = <<>> /\ rd' = [begun EXCEPT !.pc = "pages"]
  <2>1. rd' = [pc |-> "pages", k |-> k, ans |-> Absent, seen |-> {store[k]}, torn |-> FALSE]
    BY <1>7, <1>9
  <2>2. pages[k] = store[k]
    BY <1>2, <1>9 DEF ReadAs
  <2>3. Drained(draining, pages, k) = pages[k]
    BY <1>1, <1>9, UndecidedNotDrained
  <2> QED
    BY <1>3, <1>6, <2>1, <2>2, <2>3 DEF ReadInv, Reading, Values
<1>10. CASE hit # <<>> /\ hit[1].del /\ rd' = [begun EXCEPT !.pc = "done", !.ans = Absent]
  <2>1. rd' = [pc |-> "done", k |-> k, ans |-> Absent, seen |-> {store[k]}, torn |-> FALSE]
    BY <1>7, <1>10
  <2>2. Absent = store[k]
    BY <1>2, <1>10 DEF ReadAs, ValueOf
  <2> QED
    BY <1>6, <2>1, <2>2 DEF ReadInv, Reading, Values
<1>11. CASE hit # <<>> /\ ~hit[1].del /\ kv /\ rd' = [begun EXCEPT !.pc = "value"]
  <2>1. rd' = [pc |-> "value", k |-> k, ans |-> Absent, seen |-> {store[k]}, torn |-> FALSE]
    BY <1>7, <1>11
  <2>2. rd'.k = k /\ Newest(draining' \o runs', buf', k) # <<>>
    BY <1>1, <1>3, <1>11, <2>1 DEF Deciding
  <2> QED
    BY <1>3, <1>6, <2>1, <2>2 DEF ReadInv, Reading, Values, Deciding
<1>12. CASE hit # <<>> /\ ~hit[1].del /\ ~kv /\ rd' = [begun EXCEPT !.pc = "done", !.ans = NoValue]
  <2>1. rd' = [pc |-> "done", k |-> k, ans |-> NoValue, seen |-> {store[k]}, torn |-> FALSE]
    BY <1>7, <1>12
  <2>2. NoValue = store[k]
    BY <1>1, <1>12, KeyOnlyHit
  <2> QED
    BY <1>6, <2>1, <2>2 DEF ReadInv, Reading, Values
<1> QED
  BY <1>5, <1>6, <1>9, <1>10, <1>11, <1>12

\* A read is answered.
LEMMA AnsweredReads ==
  ASSUME ReadInv, NEW v \in Values, Answered(v), v \in rd.seen \/ rd.torn
  PROVE  ReadInv'
<1>1. rd \in [pc : {"idle", "value", "pages", "done"}, k : AllKeys \cup {NoKey},
              ans : Values, seen : SUBSET Values, torn : BOOLEAN]
  BY DEF ReadInv
<1>2. /\ rd' \in [pc : {"idle", "value", "pages", "done"}, k : AllKeys \cup {NoKey},
                  ans : Values, seen : SUBSET Values, torn : BOOLEAN]
      /\ rd'.pc = "done" /\ rd'.ans = v /\ rd'.seen = rd.seen /\ rd'.torn = rd.torn
  BY <1>1 DEF Answered
<1> QED
  BY <1>2 DEF ReadInv, Reading

\* The second look: the record, a newer one, or none when it was lost.
LEMMA GetValueReads ==
  ASSUME MemInv, ReadInv, GetValue
  PROVE  ReadInv'
<1>1. rd.pc = "value" /\ rd.k \in AllKeys /\ store[rd.k] \in rd.seen
  BY DEF GetValue, ReadInv, Reading
<1>2. PICK hit, k : hit = Deciding(k) /\ k = rd.k
  OBVIOUS
<1>3. LookupKv(k) = hit /\ ReadAs(hit, pages[k]) = store[k] /\ store[k] \in Values
  BY <1>1, <1>2, LookupDecides DEF MemInv, LadderOK, Contents, Values
<1>4. PICK v : v = IF hit # <<>> /\ ~hit[1].del THEN hit[1].v ELSE Absent
  OBVIOUS
<1>5. Answered(v)
  BY <1>2, <1>3, <1>4 DEF GetValue
<1>6. hit # <<>> => v = store[k]
  BY <1>3, <1>4 DEF ReadAs, ValueOf
<1>7. hit = <<>> => rd.torn /\ v = Absent
  BY <1>1, <1>2, <1>4 DEF ReadInv
<1>8. v \in Values
  BY <1>3, <1>6, <1>7 DEF Values
<1> QED
  BY <1>1, <1>2, <1>5, <1>6, <1>7, <1>8, AnsweredReads

\* The pages are read.
LEMMA ReadPagesReads ==
  ASSUME MemInv, ReadInv, ReadPages
  PROVE  ReadInv'
<1>1. rd.pc = "pages" /\ Answered(pages[rd.k])
  BY DEF ReadPages
<1>2. rd.k \in AllKeys /\ pages[rd.k] \in rd.seen
  BY <1>1 DEF ReadInv, Reading
<1>3. pages[rd.k] \in Values
  BY <1>2 DEF MemInv, LadderOK, Contents, Values
<1> QED
  BY <1>1, <1>2, <1>3, AnsweredReads

\* Every step keeps what reads rely on.
LEMMA NextReads == MemInv /\ ReadInv /\ [MemNext]_memVars => ReadInv'
<1> SUFFICES ASSUME MemInv, ReadInv, [MemNext]_memVars PROVE ReadInv'
  OBVIOUS
<1>1. CASE \E ks \in Batches : Batch(ks)
  BY <1>1, BatchReads
<1>2. CASE \E k \in KvKeys, v \in Vals : PutKv(k, v)
  BY <1>2, PutKvReads
<1>3. CASE \E k \in KvKeys : DeleteKv(k)
  BY <1>3, DeleteKvReads
<1>4. CASE EnsureMaterialized
  BY <1>4, EnsureMaterializedReads
<1>5. CASE FreezeAllCapture
  BY <1>5, FreezeAllCaptureReads
<1>6. CASE DrainBatch
  BY <1>6, DrainBatchReads
<1>7. CASE PublishTrees
  BY <1>7, PublishTreesReads
<1>8. CASE Publish
  BY <1>8, PublishReads
<1>9. CASE \E k \in AllKeys : StartRead(k)
  BY <1>9, StartReadReads
<1>10. CASE GetValue
  BY <1>10, GetValueReads
<1>11. CASE ReadPages
  BY <1>11, ReadPagesReads
<1>12. CASE UNCHANGED memVars
  BY <1>12 DEF memVars, ladder, ReadInv, Reading, Deciding
<1> QED
  BY <1>1, <1>2, <1>3, <1>4, <1>5, <1>6, <1>7, <1>8, <1>9, <1>10, <1>11, <1>12 DEF MemNext

-----------------------------------------------------------------------------
(* The theorems.                                                           *)

\* The size covers the keys of the delta and of the runs.
LEMMA SizeCovers ==
  ASSUME NEW l, Sound(l)
  PROVE  l.size >= Cardinality(RecKeys(l.buf) \cup RunKeys(l.runs))
<1>1. /\ l.buf \in Seq(Records) /\ l.runs \in Seq(Seq(Records)) /\ l.size \in Nat
      /\ Len(l.buf) \in Nat /\ l.size >= Len(l.buf) + Cardinality(RunKeys(l.runs))
  BY DEF Sound
<1>2. IsFiniteSet(RecKeys(l.buf)) /\ Cardinality(RecKeys(l.buf)) <= Len(l.buf)
  BY <1>1, RecKeysFinite
<1>3. IsFiniteSet(RunKeys(l.runs))
  BY <1>1, RunKeysFinite
<1>4. PICK A, B : A = RecKeys(l.buf) /\ B = RunKeys(l.runs)
  OBVIOUS
<1>5. /\ Cardinality(A) \in Nat /\ Cardinality(B) \in Nat /\ Cardinality(A \cap B) \in Nat
      /\ Cardinality(A \cup B) = Cardinality(A) + Cardinality(B) - Cardinality(A \cap B)
  BY <1>2, <1>3, <1>4, FS_Union, FS_Intersection, FS_CardinalityType
<1> QED
  BY <1>1, <1>2, <1>4, <1>5

\* The invariant gives the type invariant.
LEMMA InvTypes == MemInv /\ ReadInv => TypeOK
<1> SUFFICES ASSUME MemInv, ReadInv PROVE TypeOK
  OBVIOUS
<1>1. LadderOK
  BY DEF MemInv
<1>2. size >= Cardinality(RecKeys(buf) \cup RunKeys(runs))
  <2>1. Live.size >= Cardinality(RecKeys(Live.buf) \cup RunKeys(Live.runs))
    BY LiveSound, SizeCovers
  <2> QED
    BY <2>1, LiveSound
<1>3. \A rs \in {runs, draining} : rs \in Seq(Seq(Records)) /\ \A i \in DOMAIN rs : IsRun(rs[i])
  BY LiveSound DEF IsLadder
<1>4. rd.pc \in {"idle", "value", "pages", "done"} /\ rd.ans \in Vals \cup {NoValue, Absent}
  BY DEF ReadInv, Values
<1> QED
  BY <1>1, <1>2, <1>3, <1>4, LiveSound DEF LadderOK, TypeOK

\* The initial states.
LEMMA InitReads == MemInit => ReadInv
BY DEF MemInit, NoRead, ReadInv, Reading, Values

\* Types; the runs of the memtable and those a flush has captured stay sorted with
\* one record per key through materialization, merging and draining; and the
\* accounted size (cfSize) covers the keys of the live ladder.
THEOREM MemTypes == MemSpec => []TypeOK
<1>1. MemInit => MemInv /\ ReadInv
  BY InitInv, InitReads
<1>2. MemInv /\ ReadInv /\ [MemNext]_memVars => (MemInv /\ ReadInv)'
  BY NextInv, NextReads
<1>3. MemInv /\ ReadInv => TypeOK
  BY InvTypes
<1> QED
  BY <1>1, <1>2, <1>3, PTL DEF MemSpec

\* Get and GetKv, whose calls take their locks one by one, answer with a value that
\* the key had while they ran, whatever is written, captured, drained and published
\* between the calls; only a read whose record was discarded by a publish between
\* its two looks (torn) may not.
THEOREM ReadsCurrent == MemSpec => []PointReadsCurrent
<1>1. MemInit => MemInv /\ ReadInv
  BY InitInv, InitReads
<1>2. MemInv /\ ReadInv /\ [MemNext]_memVars => (MemInv /\ ReadInv)'
  BY NextInv, NextReads
<1>3. ReadInv => PointReadsCurrent
  BY DEF ReadInv, PointReadsCurrent
<1> QED
  BY <1>1, <1>2, <1>3, PTL DEF MemSpec

-----------------------------------------------------------------------------
(* Prefixes and pages: what the operators of Pages compute.                *)

Bytes == 0 .. MaxByte

\* CmpSeq is a strict total order of strings of bytes: on it rest the sort of a run, the
\* merges, the binary searches and the order of the pages.
THEOREM KeyOrder ==
  ASSUME NEW a \in Seq(Bytes), NEW b \in Seq(Bytes), NEW c \in Seq(Bytes)
  PROVE  /\ CmpSeq(a, b) = 0 <=> a = b
         /\ CmpSeq(a, b) < 0 <=> CmpSeq(b, a) > 0
         /\ CmpSeq(a, b) < 0 /\ CmpSeq(b, c) < 0 => CmpSeq(a, c) < 0
<1>1. a \in Seq(Nat) /\ b \in Seq(Nat) /\ c \in Seq(Nat)
  BY BytesAssumption DEF Bytes
<1>2. CmpSeq(a, b) \in {-1, 0, 1} /\ (CmpSeq(a, b) = 0 <=> a = b)
  BY <1>1, CmpEqual
<1>3. CmpSeq(b, a) \in {-1, 0, 1} /\ (CmpSeq(b, a) = 0 <=> a = b)
  BY <1>1, CmpEqual
<1>4. /\ CmpSeq(a, b) < 0 => ~(CmpSeq(b, a) < 0)
      /\ CmpSeq(a, b) < 0 \/ a = b \/ CmpSeq(b, a) < 0
  BY <1>1, CmpTotal
<1>5. CmpSeq(a, b) < 0 <=> CmpSeq(b, a) > 0
  BY <1>2, <1>3, <1>4
<1>6. CmpSeq(a, b) < 0 /\ CmpSeq(b, c) < 0 => CmpSeq(a, c) < 0
  BY <1>1, CmpTransitive
<1> QED
  BY <1>2, <1>5, <1>6

\* A string with a prefix parts from the prefix at its end.
LEMMA PrefixDiverges ==
  ASSUME NEW k \in Seq(Nat), NEW p \in Seq(Nat)
  PROVE  hasPrefix(k, p) <=> Diverge(p, k, Len(p))
<1>1. Len(k) \in Nat /\ Len(p) \in Nat
  OBVIOUS
<1>2. ASSUME Len(p) <= Len(k)
      PROVE  SubSeq(k, 1, Len(p)) = p <=> \A i \in 1 .. Len(p) : p[i] = k[i]
  <2>1. SubSeq(k, 1, Len(p)) = [i \in 1 .. Len(p) |-> k[i]]
    BY <1>1, <1>2
  <2>2. p = [i \in 1 .. Len(p) |-> p[i]]
    OBVIOUS
  <2> QED
    BY <2>1, <2>2
<1> QED
  BY <1>1, <1>2 DEF hasPrefix, Diverge

\* The keys with a prefix are those from the prefix on and below PrefixEnd, or all
\* from the prefix on when PrefixEnd says there is no bound: what FindPrefixRange and
\* the cursors take a prefix scan to be.
THEOREM PrefixIsRange ==
  ASSUME NEW k \in Seq(Bytes), NEW p \in Seq(Bytes)
  PROVE  hasPrefix(k, p) <=>
           /\ CmpSeq(p, k) <= 0
           /\ PrefixEnd(p) = NoKey \/ CmpSeq(k, PrefixEnd(p)) < 0
<1>1. /\ k \in Seq(Nat) /\ p \in Seq(Nat) /\ Len(k) \in Nat /\ Len(p) \in Nat
      /\ (\A i \in 1 .. Len(k) : k[i] \in Nat /\ k[i] <= MaxByte)
      /\ \A i \in 1 .. Len(p) : p[i] \in Nat /\ p[i] <= MaxByte
  BY BytesAssumption DEF Bytes
<1>2. PICK below : below = {i \in DOMAIN p : p[i] < MaxByte}
  OBVIOUS
<1>3. below \in SUBSET Nat /\ \A i \in below : i <= Len(p)
  BY <1>1, <1>2
<1>4. PICK e : e = PrefixEnd(p)
  OBVIOUS
<1>5. ASSUME below # {}
      PROVE  \E m \in below : /\ \A i \in below : i <= m
                              /\ e \in Seq(Nat) /\ Len(e) = m /\ e # NoKey /\ e[m] = p[m] + 1
                              /\ \A i \in 1 .. m - 1 : e[i] = p[i]
  <2>1. PICK m : m = Max(below)
    OBVIOUS
  <2>2. m \in below /\ \A i \in below : i <= m
    BY <1>1, <1>3, <1>5, <2>1, MaxGreatest
  <2>3. m \in 1 .. Len(p) /\ p[m] \in Nat
    BY <1>1, <1>2, <2>2
  <2>4. PICK s : s = SubSeq(p, 1, m)
    OBVIOUS
  <2>5. s \in Seq(Nat) /\ Len(s) = m /\ \A i \in 1 .. m : s[i] = p[i]
    BY <1>1, <2>3, <2>4
  <2>6. e = [s EXCEPT ![m] = s[m] + 1]
    BY <1>2, <1>4, <1>5, <2>1, <2>4 DEF PrefixEnd
  <2>7. DOMAIN s = 1 .. m /\ m \in 1 .. m /\ s[m] \in Nat
    BY <2>3, <2>5
  <2>8. e \in Seq(Nat) /\ Len(e) = m /\ e[m] = p[m] + 1 /\ \A i \in 1 .. m - 1 : e[i] = p[i]
    BY <2>3, <2>5, <2>6, <2>7
  <2>9. e # NoKey
    BY <2>3, <2>8 DEF NoKey
  <2> QED
    BY <2>2, <2>8, <2>9
<1>6. ASSUME hasPrefix(k, p) PROVE CmpSeq(p, k) <= 0 /\ (e = NoKey \/ CmpSeq(k, e) < 0)
  <2>1. Diverge(p, k, Len(p)) /\ Len(p) <= Len(k) /\ \A i \in 1 .. Len(p) : p[i] = k[i]
    BY <1>1, <1>6, PrefixDiverges DEF Diverge
  <2>2. CmpSeq(p, k) <= 0
    <3>1. /\ CmpSeq(p, k) \in {-1, 0, 1} /\ (CmpSeq(p, k) = 0 <=> Len(p) = Len(k))
          /\ CmpSeq(p, k) < 0 <=> Len(p) < Len(k)
      BY <1>1, <2>1, CmpAt
    <3> QED
      BY <1>1, <2>1, <3>1
  <2>3. CASE below = {}
    BY <1>2, <1>4, <2>2, <2>3 DEF PrefixEnd
  <2>4. CASE below # {}
    <3>1. PICK m \in below : /\ e \in Seq(Nat) /\ Len(e) = m /\ e[m] = p[m] + 1
                             /\ \A i \in 1 .. m - 1 : e[i] = p[i]
      BY <1>5, <2>4
    <3>2. m \in 1 .. Len(p) /\ m \in 1 .. Len(k) /\ k[m] = p[m] /\ p[m] \in Nat
      BY <1>1, <1>2, <2>1
    <3>3. k[m] < e[m] /\ k[m] # e[m]
      BY <3>1, <3>2
    <3>4. Diverge(k, e, m - 1)
      <4>1. m - 1 \in Nat /\ m - 1 <= Len(k) /\ m - 1 <= Len(e) /\ (m - 1) + 1 = m
        BY <1>1, <3>1, <3>2
      <4>2. \A i \in 1 .. m - 1 : k[i] = e[i]
        BY <1>1, <2>1, <3>1, <3>2
      <4> QED
        BY <3>3, <4>1, <4>2 DEF Diverge
    <3>5. CmpSeq(k, e) < 0
      <4>1. CmpSeq(k, e) < 0 <=> m - 1 < Len(e) /\ (m - 1 = Len(k) \/ k[(m - 1) + 1] < e[(m - 1) + 1])
        BY <1>1, <3>1, <3>4, CmpAt
      <4>2. (m - 1) + 1 = m /\ m - 1 < Len(e)
        BY <3>1, <3>2
      <4> QED
        BY <3>3, <4>1, <4>2
    <3> QED
      BY <2>2, <3>5
  <2> QED
    BY <2>3, <2>4
<1>7. ASSUME CmpSeq(p, k) <= 0, e = NoKey \/ CmpSeq(k, e) < 0 PROVE hasPrefix(k, p)
  <2>1. PICK n : Diverge(p, k, n)
    BY <1>1, Diverges
  <2>2. n \in Nat /\ n <= Len(p) /\ n <= Len(k) /\ \A i \in 1 .. n : p[i] = k[i]
    BY <2>1 DEF Diverge
  <2>3. CASE n = Len(p)
    BY <1>1, <2>1, <2>3, PrefixDiverges
  <2>4. CASE n < Len(p)
    <3>1. n < Len(k) /\ p[n + 1] < k[n + 1]
      <4>1. /\ CmpSeq(p, k) \in {-1, 0, 1} /\ (CmpSeq(p, k) = 0 <=> n = Len(p) /\ n = Len(k))
            /\ CmpSeq(p, k) < 0 <=> n < Len(k) /\ (n = Len(p) \/ p[n + 1] < k[n + 1])
        BY <1>1, <2>1, CmpAt
      <4> QED
        BY <1>1, <1>7, <2>2, <2>4, <4>1
    <3>2. n + 1 \in 1 .. Len(p) /\ n + 1 \in 1 .. Len(k)
      BY <1>1, <2>2, <2>4, <3>1
    <3>3. n + 1 \in below
      BY <1>1, <1>2, <3>1, <3>2, BytesAssumption
    <3>4. PICK m \in below : /\ \A i \in below : i <= m
                             /\ e \in Seq(Nat) /\ Len(e) = m /\ e # NoKey /\ e[m] = p[m] + 1
                             /\ \A i \in 1 .. m - 1 : e[i] = p[i]
      BY <1>5, <3>3
    <3>5. n + 1 <= m /\ m \in 1 .. Len(p) /\ m \in Nat
      BY <1>1, <1>2, <3>3, <3>4
    <3>6. \A i \in 1 .. n : k[i] = e[i]
      BY <2>2, <3>4, <3>5
    <3>7. CmpSeq(k, e) < 0
      BY <1>7, <3>4
    <3>8. CASE k[n + 1] > e[n + 1]
      <4>1. Diverge(k, e, n)
        BY <1>1, <2>2, <3>2, <3>4, <3>5, <3>6, <3>8, SMTT(30) DEF Diverge
      <4>2. CmpSeq(k, e) < 0 <=> n < Len(e) /\ (n = Len(k) \/ k[n + 1] < e[n + 1])
        BY <1>1, <3>4, <4>1, CmpAt
      <4>3. e[n + 1] \in Nat /\ k[n + 1] \in Nat
        <5>1. n + 1 \in 1 .. Len(e)
          BY <2>2, <3>4, <3>5
        <5> QED
          BY <1>1, <3>2, <3>4, <5>1, SMTT(30)
      <4> QED
        BY <3>1, <3>7, <3>8, <4>2, <4>3
    <3>9. CASE m = n + 1 /\ k[n + 1] = e[n + 1]
      <4>1. \A i \in 1 .. n + 1 : k[i] = e[i]
        BY <2>2, <3>6, <3>9
      <4>2. Diverge(k, e, n + 1)
        BY <1>1, <2>2, <3>2, <3>4, <3>9, <4>1 DEF Diverge
      <4>3. CmpSeq(k, e) < 0 => n + 1 < Len(e)
        BY <1>1, <3>4, <4>2, CmpAt
      <4> QED
        BY <2>2, <3>4, <3>7, <3>9, <4>3
    <3>10. CASE m # n + 1
      <4>1. e[n + 1] = p[n + 1]
        BY <2>2, <3>4, <3>5, <3>10
      <4>2. k[n + 1] > e[n + 1]
        BY <1>1, <3>1, <3>2, <4>1
      <4> QED
        BY <3>8, <4>2
    <3>11. CASE m = n + 1
      <4>1. e[n + 1] = p[n + 1] + 1 /\ p[n + 1] \in Nat /\ k[n + 1] \in Nat
        BY <1>1, <3>2, <3>4, <3>11
      <4>2. k[n + 1] > e[n + 1] \/ k[n + 1] = e[n + 1]
        BY <3>1, <4>1
      <4> QED
        BY <3>8, <3>9, <3>11, <4>2
    <3> QED
      BY <3>10, <3>11
  <2> QED
    BY <1>1, <2>2, <2>3, <2>4
<1> QED
  BY <1>4, <1>6, <1>7

\* The record r is that of the key b after the key a.
RecordAfter(a, b, r) ==
  /\ r.plen \in Nat /\ r.plen <= Len(a) /\ r.plen <= Len(b)
  /\ \A i \in 1 .. r.plen : a[i] = b[i]
  /\ r.suffix = SubSeq(b, r.plen + 1, Len(b))

\* The key before the entry i of a page.
KeyBefore(es, i) == IF i = 1 THEN NoKey ELSE es[i - 1].k

\* The slice of a string from m + 1 to n.
LEMMA SliceOf ==
  ASSUME NEW s \in Seq(Nat), NEW m \in Nat, NEW n \in Nat, m <= n, n <= Len(s)
  PROVE  /\ SubSeq(s, m + 1, n) \in Seq(Nat) /\ Len(SubSeq(s, m + 1, n)) = n - m
         /\ \A i \in 1 .. n - m : SubSeq(s, m + 1, n)[i] = s[m + i]
<1>1. Len(s) \in Nat /\ \A i \in 1 .. Len(s) : s[i] \in Nat
  OBVIOUS
<1>2. PICK k \in Int : k = m + 1
  <2>1. m + 1 \in Int
    OBVIOUS
  <2> QED
    BY <2>1
<1>3. ASSUME NEW i \in k .. n PROVE s[i] \in Nat
  <2>1. i \in 1 .. Len(s)
    BY <1>1, <1>2
  <2> QED
    BY <1>1, <2>1
<1>4. n \in Int
  OBVIOUS
<1>5. PICK v : v = SubSeq(s, k, n)
  OBVIOUS
<1>6. /\ v \in Seq(Nat) /\ Len(v) = IF k <= n THEN n - k + 1 ELSE 0
      /\ \A i \in 1 .. n - k + 1 : v[i] = s[k + i - 1]
  <2>1. \A i \in k .. n : s[i] \in Nat
    BY <1>3
  <2> QED
    BY ONLY k \in Int, <1>4, <1>5, <2>1, SubSeqProperties
<1>7. n - k + 1 = n - m /\ (IF k <= n THEN n - k + 1 ELSE 0) = n - m
  BY <1>2
<1>8. ASSUME NEW i \in 1 .. n - m PROVE v[i] = s[m + i]
  <2>1. k + i - 1 = m + i
    BY <1>2
  <2> QED
    BY <1>6, <1>7, <2>1
<1>9. v \in Seq(Nat) /\ Len(v) = n - m
  BY <1>6, <1>7
<1> QED
  BY <1>2, <1>5, <1>8, <1>9

\* A key is what it shares with another and the rest of it.
LEMMA SharedAndRest ==
  ASSUME NEW a \in Seq(Nat), NEW b \in Seq(Nat), NEW r, RecordAfter(a, b, r)
  PROVE  Shared(a, r) \in Seq(Nat) /\ r.suffix \in Seq(Nat) /\ Shared(a, r) \o r.suffix = b
<1>1. PICK p \in Nat : /\ p = r.plen /\ p <= Len(a) /\ p <= Len(b) /\ \A i \in 1 .. p : a[i] = b[i]
                       /\ r.suffix = SubSeq(b, p + 1, Len(b))
  BY DEF RecordAfter
<1>2. p <= Len(a) /\ p <= Len(b)
  BY <1>1
<1>3. \A i \in 1 .. p : a[i] = b[i]
  BY <1>1
<1>4. Len(a) \in Nat /\ Len(b) \in Nat
  OBVIOUS
<1>5. PICK u : u = SubSeq(a, 1, p)
  OBVIOUS
<1>6. PICK v : v = SubSeq(b, p + 1, Len(b))
  OBVIOUS
<1>7. Shared(a, r) = u /\ r.suffix = v
  <2>1. r.plen = p /\ r.suffix = SubSeq(b, p + 1, Len(b))
    BY <1>1
  <2>2. r.suffix = v
    BY <1>6, <2>1
  <2>3. PICK l \in Nat : l = Len(a) /\ p <= l
    BY <1>4, <1>2
  <2>4. Shared(a, r) = SubSeq(a, 1, IF p > l THEN l ELSE p)
    BY <2>1, <2>3 DEF Shared
  <2>5. (IF p > l THEN l ELSE p) = p
    BY <2>3
  <2> QED
    BY <1>5, <2>2, <2>4, <2>5
<1>8. u \in Seq(Nat) /\ Len(u) = p /\ \A i \in 1 .. p : u[i] = b[i]
  BY <1>4, <1>5, <1>2, <1>3
<1>9. PICK q \in Nat : q = Len(b) - p /\ p + q = Len(b)
  <2>1. Len(b) - p \in Nat /\ p + (Len(b) - p) = Len(b)
    BY <1>4, <1>2
  <2> QED
    BY <2>1
<1>10. v \in Seq(Nat) /\ Len(v) = q /\ \A i \in 1 .. q : v[i] = b[p + i]
  <2>1. PICK l \in Nat : l = Len(b) /\ p <= l /\ q = l - p
    BY <1>4, <1>9, <1>2
  <2>2. v = SubSeq(b, p + 1, l)
    BY <1>6, <2>1
  <2>3. v \in Seq(Nat) /\ Len(v) = l - p /\ \A i \in 1 .. l - p : v[i] = b[p + i]
    BY <2>1, <2>2, SliceOf
  <2> QED
    BY <2>1, <2>3
<1>11. PICK w : w = u \o v
  OBVIOUS
<1>12. /\ w \in Seq(Nat) /\ Len(w) = Len(u) + Len(v)
       /\ \A i \in 1 .. Len(u) + Len(v) : w[i] = IF i <= Len(u) THEN u[i] ELSE v[i - Len(u)]
  BY <1>8, <1>10, <1>11, ConcatProperties
<1>13. Len(w) = Len(b) /\ \A i \in 1 .. Len(b) : w[i] = IF i <= p THEN u[i] ELSE v[i - p]
  BY <1>8, <1>10, <1>12, <1>9
<1>14. ASSUME NEW i \in 1 .. Len(b) PROVE w[i] = b[i]
  <2>1. CASE i <= p
    <3>1. i \in 1 .. p
      BY <2>1
    <3> QED
      BY <1>8, <1>13, <2>1, <3>1
  <2>2. CASE ~(i <= p)
    <3>1. i - p \in 1 .. q /\ p + (i - p) = i
      BY <1>4, <1>9, <2>2
    <3> QED
      BY <1>10, <1>13, <2>2, <3>1
  <2> QED
    BY <2>1, <2>2
<1>15. w = b
  BY <1>12, <1>13, <1>14, SeqEqual
<1> QED
  BY <1>7, <1>8, <1>10, <1>11, <1>15

Listed(X) == [k : Seq(Nat), x : X]

\* The record r gives the entry i after the key prev.
Decodes(es, i, prev, r) ==
  /\ prev \in Seq(Nat) /\ Shared(prev, r) \in Seq(Nat) /\ r.suffix \in Seq(Nat) /\ es[i].k \in Seq(Nat)
  /\ Shared(prev, r) \o r.suffix = es[i].k /\ r.x = es[i].x

\* What SerializePage writes of an entry gives the entry.
LEMMA SerializedRecord ==
  ASSUME NEW X, NEW es \in Seq(Listed(X)), NEW i \in 1 .. Len(es)
  PROVE  Decodes(es, i, KeyBefore(es, i), SerializePage(es).recs[i])
<1>1. PICK prev : prev = KeyBefore(es, i)
  OBVIOUS
<1>2. PICK r : r = SerializePage(es).recs[i]
  OBVIOUS
<1>3. \A j \in 1 .. Len(es) : es[j] \in Listed(X)
  OBVIOUS
<1>4. \A j \in 1 .. Len(es) : es[j].k \in Seq(Nat) /\ es[j].x \in X
  BY <1>3 DEF Listed
<1>5. i \in DOMAIN es /\ es[i].k \in Seq(Nat) /\ es[i].x \in X
  BY <1>4
<1>6. prev \in Seq(Nat)
  <2>1. CASE i = 1
    BY <1>1, <2>1 DEF NoKey, KeyBefore
  <2>2. CASE i # 1
    <3>1. i - 1 \in 1 .. Len(es)
      BY <2>2
    <3> QED
      BY <1>4, <1>1, <2>2, <3>1 DEF KeyBefore
  <2> QED
    BY <2>1, <2>2
<1>7. PICK p : p = IF i = 1 THEN 0 ELSE CommonPrefixLen(es[i - 1].k, es[i].k)
  OBVIOUS
<1>8. PICK rest, y : rest = SubSeq(es[i].k, p + 1, Len(es[i].k)) /\ y = es[i].x
  OBVIOUS
<1>9. r = [plen |-> p, suffix |-> rest, x |-> y]
  BY <1>5, <1>7, <1>8, <1>2 DEF SerializePage
<1>10. r.plen = p /\ r.suffix = SubSeq(es[i].k, p + 1, Len(es[i].k)) /\ r.x = es[i].x
  <2>1. r.plen = p /\ r.suffix = rest /\ r.x = y
    BY <1>9
  <2> QED
    BY <1>8, <2>1
<1>11. p \in Nat /\ p <= Len(prev) /\ p <= Len(es[i].k) /\ \A j \in 1 .. p : prev[j] = es[i].k[j]
  <2>1. CASE i = 1
    BY <1>5, <1>6, <1>7, <2>1
  <2>2. CASE i # 1
    <3>1. p = CommonPrefixLen(prev, es[i].k)
      BY <1>7, <1>1, <2>2 DEF KeyBefore
    <3> QED
      BY <1>5, <1>6, <3>1, CommonPrefixDiverges DEF Diverge
  <2> QED
    BY <2>1, <2>2
<1>12. PICK b \in Seq(Nat) : b = es[i].k
  BY <1>5
<1>13. RecordAfter(prev, b, r)
  BY <1>10, <1>11, <1>12 DEF RecordAfter
<1>14. Shared(prev, r) \in Seq(Nat) /\ r.suffix \in Seq(Nat) /\ Shared(prev, r) \o r.suffix = b
  BY <1>6, <1>13, SharedAndRest
<1> QED
  BY <1>5, <1>6, <1>10, <1>12, <1>14, <1>1, <1>2 DEF Decodes

\* A page of less than 2^16 entries is read back as it was written, by the decoder of
\* index pages and of the merge (DeserializePage) from the count, the shared lengths
\* and the rests of the keys.
THEOREM PageRoundTrip ==
  ASSUME NEW X, NEW es \in Seq(Listed(X)), Len(es) < CountMod
  PROVE  DeserializePage(SerializePage(es)) = es
<1>1. PICK n \in Nat : n = Len(es) /\ DOMAIN es = 1 .. n
  OBVIOUS
<1>2. PICK page : page = SerializePage(es)
  OBVIOUS
<1>3. page.count = n
  <2>1. page.count = n % CountMod
    BY <1>1, <1>2 DEF SerializePage
  <2> QED
    BY <1>1, <2>1, BytesAssumption
<1> DEFINE joined(prev, i) == Shared(prev, page.recs[i]) \o page.recs[i].suffix
           Reads(g) == g = [i \in 0 .. n |-> IF i = 0 THEN NoKey ELSE joined(g[i - 1], i)]
           h == [i \in 0 .. n |-> IF i = 0 THEN NoKey ELSE es[i].k]
<1>4. ASSUME NEW i \in 1 .. n, NEW prev, prev = KeyBefore(es, i)
      PROVE  /\ Shared(prev, page.recs[i]) \o page.recs[i].suffix = es[i].k
             /\ page.recs[i].x = es[i].x
  <2>1. Decodes(es, i, KeyBefore(es, i), SerializePage(es).recs[i])
    BY <1>1, SerializedRecord
  <2> QED
    BY <1>2, <1>4, <2>1 DEF Decodes
<1>5. Reads(h)
  <2>1. ASSUME NEW i \in 1 .. n PROVE h[i] = Shared(h[i - 1], page.recs[i]) \o page.recs[i].suffix
    <3>1. h[i] = es[i].k /\ h[i - 1] = KeyBefore(es, i)
      BY <1>1 DEF KeyBefore
    <3> HIDE DEF h
    <3> QED
      BY <1>4, <3>1
  <2>2. h[0] = NoKey
    BY <1>1
  <2>3. h = [i \in 0 .. n |-> h[i]]
    OBVIOUS
  <2> HIDE DEF h
  <2> QED
    BY <2>1, <2>2, <2>3
<1>6. PICK key : key = (CHOOSE g : Reads(g))
  OBVIOUS
<1>7. Reads(key)
  <2> HIDE DEF Reads
  <2> QED
    BY <1>5, <1>6
<1>8. ASSUME NEW g, Reads(g), NEW i \in 1 .. n PROVE g[i] = joined(g[i - 1], i)
  <2>1. i \in 0 .. n /\ i # 0
    OBVIOUS
  <2> HIDE DEF joined
  <2> QED
    BY <1>8, <2>1
<1>9. DeserializePage(page) = [i \in 1 .. n |-> Entry(key[i], page.recs[i].x)]
  BY <1>3, <1>6 DEF DeserializePage
<1>10. \A i \in 0 .. n : key[i] = h[i]
  <2> DEFINE T == {i \in 0 .. n : key[i] = h[i]}
  <2>1. 0 \in T
    BY <1>1, <1>5, <1>7
  <2>2. ASSUME NEW i \in 1 .. n, i - 1 \in T PROVE i \in T
    <3>1. key[i] = joined(key[i - 1], i) /\ h[i] = joined(h[i - 1], i)
      <4>1. Reads(key) /\ Reads(h) /\ i \in 1 .. n
        BY <1>5, <1>7
      <4> HIDE DEF h, joined, Reads
      <4> QED
        BY <1>8, <4>1
    <3>2. key[i - 1] = h[i - 1] /\ i \in 0 .. n
      BY <2>2
    <3> HIDE DEF h, joined
    <3> QED
      BY <3>1, <3>2
  <2> HIDE DEF T
  <2>3. \A i \in 0 .. n : i \in T
    BY <2>1, <2>2, Induct
  <2> QED
    BY <2>3 DEF T
<1>11. ASSUME NEW i \in 1 .. n PROVE Entry(key[i], page.recs[i].x) = es[i]
  <2>1. key[i] = es[i].k
    BY <1>1, <1>10
  <2>2. page.recs[i].x = es[i].x
    BY <1>4
  <2>3. es[i] \in Listed(X)
    BY <1>1
  <2>4. es[i] = [k |-> es[i].k, x |-> es[i].x]
    BY <2>3 DEF Listed
  <2> QED
    BY <2>1, <2>2, <2>4 DEF Entry
<1>12. es = [i \in 1 .. n |-> es[i]]
  BY <1>1
<1> QED
  BY <1>2, <1>9, <1>11, <1>12

\* The arena f holds the first i entries.
IsFlat(f, X, es, i) ==
  /\ f \in [buf : Seq(Nat), prev : Nat, offs : Seq(Nat), vals : Seq(X)]
  /\ Len(f.offs) = i + 1 /\ Len(f.vals) = i /\ f.offs[i + 1] = Len(f.buf)
  /\ IF i = 0 THEN f.prev = 0 /\ f.buf = <<>> ELSE f.prev = f.offs[i]
  /\ \A j \in 1 .. i : /\ f.offs[j] <= Len(f.buf) /\ f.offs[j + 1] <= Len(f.buf)
                       /\ FlatKey(f, j) = es[j].k /\ f.vals[j] = es[j].x

\* A slice of a string that goes on, and the slice at its end.
LEMMA SliceOfConcat ==
  ASSUME NEW a \in Seq(Nat), NEW b \in Seq(Nat), NEW w, w = a \o b
  PROVE  /\ w \in Seq(Nat) /\ Len(w) = Len(a) + Len(b)
         /\ SubSeq(w, Len(a) + 1, Len(w)) = b
         /\ \A m, n \in Nat : m <= Len(a) /\ n <= Len(a) => SubSeq(w, m + 1, n) = SubSeq(a, m + 1, n)
<1>1. Len(a) \in Nat /\ Len(b) \in Nat
  OBVIOUS
<1>2. PICK p \in Nat, q \in Nat : p = Len(a) /\ q = Len(b)
  BY <1>1
<1>3. /\ w \in Seq(Nat) /\ Len(w) = p + q
      /\ \A i \in 1 .. p + q : w[i] = IF i <= p THEN a[i] ELSE b[i - p]
  BY <1>2, ConcatProperties
<1>4. SubSeq(w, p + 1, p + q) = b
  <2>1. PICK s : s = SubSeq(w, p + 1, p + q)
    OBVIOUS
  <2>2. s \in Seq(Nat) /\ Len(s) = q /\ \A i \in 1 .. q : s[i] = w[p + i]
    <3>1. PICK l \in Nat : l = p + q
      <4>1. p + q \in Nat
        OBVIOUS
      <4> QED
        BY <4>1
    <3>2. p <= l /\ l - p = q
      BY <3>1
    <3>3. s = SubSeq(w, p + 1, l) /\ l <= Len(w)
      BY <1>3, <2>1, <3>1
    <3>4. s \in Seq(Nat) /\ Len(s) = l - p /\ \A i \in 1 .. l - p : s[i] = w[p + i]
      BY <1>3, <3>2, <3>3, SliceOf, ZenonT(40)
    <3> QED
      BY <3>2, <3>4
  <2>3. ASSUME NEW i \in 1 .. q PROVE s[i] = b[i]
    <3>1. p + i \in 1 .. p + q /\ ~(p + i <= p) /\ (p + i) - p = i
      OBVIOUS
    <3> QED
      BY <1>3, <2>2, <3>1
  <2>4. s = b
    BY <1>2, <2>2, <2>3, SeqEqual
  <2> QED
    BY <2>1, <2>4
<1>5. ASSUME NEW m \in Nat, NEW n \in Nat, m <= p, n <= p
      PROVE  SubSeq(w, m + 1, n) = SubSeq(a, m + 1, n)
  <2>1. CASE ~(m < n)
    BY <1>2, <1>3, <1>5, <2>1
  <2>2. CASE m < n
    <3>1. PICK s, t : s = SubSeq(w, m + 1, n) /\ t = SubSeq(a, m + 1, n)
      OBVIOUS
    <3>2. PICK d \in Nat : d = n - m
      BY <2>2
    <3>3. n <= Len(w) /\ w \in Seq(Nat)
      BY <1>3, <1>5
    <3>4. s \in Seq(Nat) /\ Len(s) = d /\ \A i \in 1 .. d : s[i] = w[m + i]
      BY <2>2, <3>1, <3>2, <3>3, SubSeqProperties, SMTT(30)
    <3>5. t \in Seq(Nat) /\ Len(t) = d /\ \A i \in 1 .. d : t[i] = a[m + i]
      BY <1>2, <1>5, <2>2, <3>1, <3>2, SubSeqProperties
    <3>6. ASSUME NEW i \in 1 .. d PROVE s[i] = t[i]
      <4>1. m + i \in 1 .. p + q /\ m + i <= p
        BY <1>5, <2>2, <3>2
      <4> QED
        BY <1>3, <3>4, <3>5, <4>1
    <3>7. s = t
      BY <3>4, <3>5, <3>6, SeqEqual
    <3> QED
      BY <3>1, <3>7
  <2> QED
    BY <2>1, <2>2
<1> QED
  BY <1>2, <1>3, <1>4, <1>5

\* Concatenation of strings of bytes is associative.
LEMMA StringsConcat ==
  ASSUME NEW a \in Seq(Nat), NEW b \in Seq(Nat), NEW c \in Seq(Nat)
  PROVE  (a \o b) \o c = a \o (b \o c)
BY ConcatAssociative, SMTT(30)

\* Decoding one record more.
LEMMA FlatStep ==
  ASSUME NEW X, NEW es \in Seq(Listed(X)), NEW i \in 1 .. Len(es), NEW f, IsFlat(f, X, es, i - 1),
         NEW r, Decodes(es, i, KeyBefore(es, i), r), es[i].x \in X
  PROVE  IsFlat(appendFlat(f, r), X, es, i)
<1>1. PICK m \in Nat : m = i - 1 /\ m + 1 = i
  OBVIOUS
<1>2. PICK B \in Seq(Nat), c \in Nat, O \in Seq(Nat), V \in Seq(X) :
        /\ f = [buf |-> B, prev |-> c, offs |-> O, vals |-> V]
        /\ B = f.buf /\ c = f.prev /\ O = f.offs /\ V = f.vals
  BY DEF IsFlat
<1>3. PICK l \in Nat : l = Len(B)
  OBVIOUS
<1>4. /\ Len(O) = m + 1 /\ Len(V) = m /\ O[m + 1] = l
      /\ m = 0 => c = 0 /\ B = <<>>
      /\ m # 0 => c = O[m]
  BY <1>1, <1>2, <1>3 DEF IsFlat
<1>5. \A j \in 1 .. m : /\ O[j] <= l /\ O[j + 1] <= l /\ V[j] = es[j].x
                        /\ SubSeq(B, O[j] + 1, O[j + 1]) = es[j].k
  BY <1>1, <1>2, <1>3 DEF IsFlat, FlatKey
<1>6. \A j \in 1 .. m + 1 : O[j] \in Nat
  <2>1. \A j \in 1 .. Len(O) : O[j] \in Nat
    OBVIOUS
  <2> QED
    BY <1>4, <2>1
<1>7. PICK prev : prev = SubSeq(B, c + 1, l)
  OBVIOUS
<1>8. prev = KeyBefore(es, i)
  <2>1. CASE m = 0
    <3>1. prev = <<>>
      BY <1>3, <1>4, <1>7, <2>1
    <3> QED
      BY <1>1, <2>1, <3>1 DEF KeyBefore, NoKey
  <2>2. CASE m # 0
    <3>1. SubSeq(B, O[m] + 1, O[m + 1]) = es[m].k
      BY <1>5, <2>2
    <3>2. prev = es[m].k
      BY <1>4, <1>7, <2>2, <3>1
    <3> QED
      BY <1>1, <2>2, <3>2 DEF KeyBefore
  <2> QED
    BY <2>1, <2>2
<1>9. PICK u \in Seq(Nat), v \in Seq(Nat), k \in Seq(Nat) :
        u = Shared(prev, r) /\ v = r.suffix /\ k = es[i].k /\ u \o v = k
  BY <1>8 DEF Decodes
<1>10. PICK w : w = B \o k
  OBVIOUS
<1>11. w = (B \o u) \o v
  <2>1. (B \o u) \o v = B \o (u \o v)
    BY StringsConcat, ZenonT(40)
  <2> QED
    BY <1>9, <1>10, <2>1
<1>12. /\ w \in Seq(Nat) /\ Len(w) = Len(B) + Len(k) /\ SubSeq(w, Len(B) + 1, Len(w)) = k
       /\ \A a, b \in Nat : a <= Len(B) /\ b <= Len(B) => SubSeq(w, a + 1, b) = SubSeq(B, a + 1, b)
  BY <1>10, SliceOfConcat
<1>13. PICK d \in Nat : d = Len(w) /\ l <= d
  <2>1. Len(k) \in Nat
    OBVIOUS
  <2> QED
    BY <1>3, <1>12, <2>1
<1>14. l <= d
  BY <1>13
<1>15. PICK y \in X : y = r.x /\ y = es[i].x
  BY DEF Decodes
<1>16. PICK o, z : o = Append(O, d) /\ z = Append(V, y)
  OBVIOUS
<1>17. o \in Seq(Nat) /\ Len(o) = i + 1 /\ o[i + 1] = d /\ \A j \in 1 .. i : o[j] = O[j]
  BY <1>1, <1>4, <1>16, SMTT(30)
<1>18. z \in Seq(X) /\ Len(z) = i /\ z[i] = y /\ \A j \in 1 .. m : z[j] = V[j]
  BY <1>1, <1>4, <1>16, SMTT(30)
<1>19. PICK g : g = [buf |-> w, prev |-> l, offs |-> o, vals |-> z]
  OBVIOUS
<1>20. appendFlat(f, r) = g
  <2>1. f.buf = B /\ f.prev = c /\ f.offs = O /\ f.vals = V
    BY <1>2
  <2> QED
    BY <1>3, <1>7, <1>9, <1>11, <1>13, <1>15, <1>16, <1>19, <2>1 DEF appendFlat
<1>21. g.buf = w /\ g.prev = l /\ g.offs = o /\ g.vals = z
  BY <1>19
<1>22. ASSUME NEW j \in 1 .. i
       PROVE  /\ o[j] <= d /\ o[j + 1] <= d
              /\ SubSeq(w, o[j] + 1, o[j + 1]) = es[j].k /\ z[j] = es[j].x
  <2>1. CASE j = i
    <3>1. o[j] = l /\ o[j + 1] = d /\ z[j] = es[j].x
      BY <1>1, <1>4, <1>15, <1>17, <1>18, <2>1
    <3>2. SubSeq(w, l + 1, d) = k
      BY <1>3, <1>12, <1>13
    <3> QED
      BY <1>9, <1>13, <2>1, <3>1, <3>2
  <2>2. CASE j # i
    <3>1. j \in 1 .. m /\ j \in 1 .. i /\ j + 1 \in 1 .. i
      BY <1>1, <2>2
    <3>2. o[j] = O[j] /\ o[j + 1] = O[j + 1] /\ z[j] = V[j]
      BY <1>17, <1>18, <3>1
    <3>3. O[j] \in Nat /\ O[j + 1] \in Nat /\ O[j] <= l /\ O[j + 1] <= l
      BY <1>1, <1>5, <1>6, <3>1
    <3>4. SubSeq(w, O[j] + 1, O[j + 1]) = SubSeq(B, O[j] + 1, O[j + 1])
      BY <1>3, <1>12, <3>3
    <3>5. O[j] <= d /\ O[j + 1] <= d
      <4>1. PICK a \in Nat, b \in Nat : a = O[j] /\ b = O[j + 1] /\ a <= l /\ b <= l
        BY <3>3
      <4>2. a <= d /\ b <= d
        <5>1. ASSUME NEW s \in Nat, s <= l PROVE s <= d
          BY <1>14, <5>1
        <5> QED
          BY <4>1, <5>1, Zenon
      <4> QED
        BY <4>1, <4>2
    <3> QED
      BY <1>5, <3>1, <3>2, <3>4, <3>5
  <2> QED
    BY <2>1, <2>2
<1>23. g \in [buf : Seq(Nat), prev : Nat, offs : Seq(Nat), vals : Seq(X)]
  BY <1>12, <1>17, <1>18, <1>19
<1>24. i # 0 /\ g.prev = g.offs[i]
  BY <1>1, <1>4, <1>17, <1>21
<1>25. \A j \in 1 .. i : /\ g.offs[j] <= Len(g.buf) /\ g.offs[j + 1] <= Len(g.buf)
                         /\ FlatKey(g, j) = es[j].k /\ g.vals[j] = es[j].x
  BY <1>13, <1>21, <1>22 DEF FlatKey
<1>26. IsFlat(g, X, es, i)
  BY <1>13, <1>17, <1>18, <1>21, <1>23, <1>24, <1>25 DEF IsFlat
<1> QED
  BY <1>20, <1>26

\* The arena the read path decodes a page into holds the entries the page was made of,
\* although it takes shared bytes out of the arena itself: DecodePageFlat agrees with
\* DeserializePage.
THEOREM FlatRoundTrip ==
  ASSUME NEW X, NEW es \in Seq(Listed(X)), Len(es) < CountMod
  PROVE  FlatEntries(SerializePage(es)) = es
<1>1. PICK n \in Nat : n = Len(es) /\ DOMAIN es = 1 .. n
  OBVIOUS
<1>2. PICK page : page = SerializePage(es)
  OBVIOUS
<1>3. page.count = n
  <2>1. page.count = n % CountMod
    BY <1>1, <1>2 DEF SerializePage
  <2> QED
    BY <1>1, <2>1, BytesAssumption
<1>4. PICK start : start = [buf |-> <<>>, prev |-> 0, offs |-> <<0>>, vals |-> <<>>]
  OBVIOUS
<1> DEFINE Reads(g, m) == g = [i \in 0 .. m |-> IF i = 0 THEN start
                                 ELSE appendFlat(g[i - 1], page.recs[i])]
           Good(g, m) == \A i \in 0 .. m : IsFlat(g[i], X, es, i)
<1>5. IsFlat(start, X, es, 0)
  <2>1. start \in [buf : Seq(Nat), prev : Nat, offs : Seq(Nat), vals : Seq(X)]
    BY <1>4
  <2>2. /\ start.buf = <<>> /\ start.prev = 0 /\ start.offs = <<0>> /\ start.vals = <<>>
        /\ Len(<<0>>) = 1 /\ <<0>>[1] = 0
    BY <1>4
  <2> QED
    BY <2>1, <2>2 DEF IsFlat
<1>6. ASSUME NEW i \in 1 .. n, NEW f, IsFlat(f, X, es, i - 1)
      PROVE  IsFlat(appendFlat(f, page.recs[i]), X, es, i)
  <2>1. i \in 1 .. Len(es) /\ es[i] \in Listed(X)
    BY <1>1
  <2>2. Decodes(es, i, KeyBefore(es, i), page.recs[i])
    BY <1>2, <2>1, SerializedRecord
  <2>3. es[i].x \in X
    BY <2>1 DEF Listed
  <2> QED
    BY <1>6, <2>1, <2>2, <2>3, FlatStep
<1>7. ASSUME NEW g, Reads(g, n) PROVE Good(g, n)
  <2> DEFINE T == {i \in 0 .. n : IsFlat(g[i], X, es, i)}
  <2>1. 0 \in T
    BY <1>1, <1>5, <1>7
  <2>2. ASSUME NEW i \in 1 .. n, i - 1 \in T PROVE i \in T
    <3>1. g[i] = appendFlat(g[i - 1], page.recs[i]) /\ i \in 0 .. n
      BY <1>7
    <3>2. IsFlat(g[i - 1], X, es, i - 1)
      BY <2>2
    <3> QED
      BY <1>6, <3>1, <3>2
  <2> HIDE DEF T
  <2>3. \A i \in 0 .. n : i \in T
    BY <2>1, <2>2, Induct
  <2> QED
    BY <2>3 DEF T
<1>8. \E g : Reads(g, n)
  <2> DEFINE T == {m \in 0 .. n : \E g : Reads(g, m)}
  <2>1. 0 \in T
    <3>1. Reads([i \in 0 .. 0 |-> start], 0)
      OBVIOUS
    <3>2. 0 \in 0 .. n
      OBVIOUS
    <3> HIDE DEF Reads
    <3> QED
      BY <3>1, <3>2
  <2>2. ASSUME NEW m \in 1 .. n, m - 1 \in T PROVE m \in T
    <3>1. PICK g : Reads(g, m - 1)
      BY <2>2
    <3> DEFINE e == [i \in 0 .. m |-> IF i = m THEN appendFlat(g[m - 1], page.recs[m]) ELSE g[i]]
    <3>2. g[0] = start /\ \A i \in 1 .. m - 1 : g[i] = appendFlat(g[i - 1], page.recs[i])
      BY <3>1
    <3>3. e[0] = start
      BY <3>2
    <3>4. ASSUME NEW i \in 1 .. m PROVE e[i] = appendFlat(e[i - 1], page.recs[i])
      <4>1. e[i - 1] = g[i - 1]
        OBVIOUS
      <4>2. CASE i = m
        BY <4>1, <4>2
      <4>3. CASE i # m
        <5>1. i \in 1 .. m - 1 /\ e[i] = g[i]
          BY <4>3
        <5> HIDE DEF e
        <5> QED
          BY <3>2, <4>1, <5>1
      <4> QED
        BY <4>2, <4>3
    <3>5. e = [i \in 0 .. m |-> e[i]]
      OBVIOUS
    <3> HIDE DEF e
    <3>6. Reads(e, m)
      BY <3>3, <3>4, <3>5, SMTT(30)
    <3>7. m \in 0 .. n
      OBVIOUS
    <3> HIDE DEF Reads
    <3> QED
      BY <3>6, <3>7
  <2> HIDE DEF T
  <2>3. \A m \in 0 .. n : m \in T
    BY <2>1, <2>2, Induct
  <2>4. n \in T
    BY <2>3
  <2> QED
    BY <2>4 DEF T
<1>9. PICK flat : flat = (CHOOSE g : Reads(g, n))
  OBVIOUS
<1>10. Reads(flat, n)
  <2> HIDE DEF Reads
  <2> QED
    BY <1>8, <1>9
<1>11. PICK f : f = flat[n]
  OBVIOUS
<1>12. IsFlat(f, X, es, n)
  <2>1. Good(flat, n)
    <3> HIDE DEF Reads, Good
    <3> QED
      BY <1>7, <1>10
  <2> QED
    BY <1>11, <2>1
<1>13. DecodePageFlat(page) = f
  BY <1>3, <1>4, <1>9, <1>11 DEF DecodePageFlat
<1>14. FlatCount(f) = n
  BY <1>12 DEF IsFlat, FlatCount
<1>15. FlatEntries(page) = [i \in 1 .. n |-> Entry(FlatKey(f, i), f.vals[i])]
  BY <1>13, <1>14 DEF FlatEntries
<1>16. ASSUME NEW i \in 1 .. n PROVE Entry(FlatKey(f, i), f.vals[i]) = es[i]
  <2>1. FlatKey(f, i) = es[i].k /\ f.vals[i] = es[i].x
    BY <1>12 DEF IsFlat
  <2>2. es[i] \in Listed(X)
    BY <1>1
  <2>3. es[i] = [k |-> es[i].k, x |-> es[i].x]
    BY <2>2 DEF Listed
  <2> QED
    BY <2>1, <2>3 DEF Entry
<1>17. es = [i \in 1 .. n |-> es[i]]
  BY <1>1
<1> QED
  BY <1>2, <1>15, <1>16, <1>17
=============================================================================

--------------------------- MODULE SelectionsProofs ---------------------------
(***************************************************************************)
(* Facts about the selection of positions from a sequence.  The set K of   *)
(* positions is a finite set of naturals throughout; Nth(K, _) enumerates  *)
(* it in increasing order, and is the only function that does.             *)
(***************************************************************************)
EXTENDS Selections, SequenceTheorems, FunctionTheorems, FiniteSetTheorems, TLAPS

FinitePositions(K) == K \in SUBSET Nat /\ IsFiniteSet(K)

\* Ranks are positions of the enumeration, and grow with the members.
LEMMA RankType ==
  ASSUME NEW K, FinitePositions(K), NEW k \in K
  PROVE  Rank(K, k) \in 1..Cardinality(K)
<1> DEFINE S == {j \in K : j <= k}
<1>1. S \in SUBSET K /\ k \in S
  BY DEF FinitePositions
<1>2. IsFiniteSet(S) /\ Cardinality(S) <= Cardinality(K)
  BY <1>1, FS_Subset DEF FinitePositions
<1>3. Cardinality(S) \in Nat /\ Cardinality(K) \in Nat
  BY <1>2, FS_CardinalityType DEF FinitePositions
<1>4. Cardinality(S) # 0
  BY <1>1, <1>2, FS_EmptySet
<1> QED
  BY <1>2, <1>3, <1>4 DEF Rank

LEMMA RankGrows ==
  ASSUME NEW K, FinitePositions(K), NEW i \in K, NEW j \in K, i < j
  PROVE  Rank(K, i) < Rank(K, j)
<1> DEFINE S == {k \in K : k <= i}
           T == {k \in K : k <= j}
<1>1. i \in Nat /\ j \in Nat
  BY DEF FinitePositions
<1>2. S \in SUBSET T /\ S # T /\ T \in SUBSET K
  <2>1. \A k \in K : k \in Nat
    BY DEF FinitePositions
  <2>2. j \in T /\ j \notin S
    BY <1>1
  <2>3. ASSUME NEW k \in S
        PROVE  k \in T
    <3>1. k \in K /\ k <= i /\ k \in Nat
      BY <2>1
    <3>2. k <= j
      BY <1>1, <3>1
    <3> QED
      BY <3>1, <3>2
  <2> QED
    BY <2>2, <2>3
<1>3. IsFiniteSet(T)
  BY <1>2, FS_Subset DEF FinitePositions
<1>4. Cardinality(S) <= Cardinality(T) /\ Cardinality(S) # Cardinality(T) /\ IsFiniteSet(S)
  BY <1>2, <1>3, FS_Subset
<1>5. Cardinality(S) \in Nat /\ Cardinality(T) \in Nat
  BY <1>3, <1>4, FS_CardinalityType
<1> QED
  BY <1>4, <1>5 DEF Rank

\* Every n up to the size of K is the rank of some member.
LEMMA RankOnto ==
  ASSUME NEW K, FinitePositions(K), NEW n \in 1..Cardinality(K)
  PROVE  \E k \in K : Rank(K, k) = n
<1> DEFINE c == Cardinality(K)
           rank == [k \in K |-> Rank(K, k)]
<1>1. rank \in [K -> 1..c]
  BY RankType
<1>2. ASSUME NEW i \in K, NEW j \in K, rank[i] = rank[j]
      PROVE  i = j
  <2>1. i \in Nat /\ j \in Nat /\ Rank(K, i) = Rank(K, j)
    BY <1>2 DEF FinitePositions
  <2>2. Rank(K, i) \in Nat
    BY RankType
  <2>3. CASE i < j
    BY <2>1, <2>2, <2>3, RankGrows
  <2>4. CASE j < i
    BY <2>1, <2>2, <2>4, RankGrows
  <2> QED
    BY <2>1, <2>3, <2>4
<1>3. c \in Nat
  BY FS_CardinalityType DEF FinitePositions
<1>4. IsFiniteSet(1..c) /\ Cardinality(1..c) = c
  BY <1>3, FS_Interval
<1>5. rank \in Injection(K, 1..c)
  BY <1>1, <1>2, Fun_IsInj
<1>6. rank \in Surjection(K, 1..c)
  BY <1>4, <1>5, FS_Injection
<1>7. PICK k \in K : rank[k] = n
  BY <1>6 DEF Surjection
<1> QED
  BY <1>7

LEMMA NthType ==
  ASSUME NEW K, FinitePositions(K), NEW n \in 1..Cardinality(K)
  PROVE  Nth(K, n) \in K /\ Rank(K, Nth(K, n)) = n
<1>1. \E k \in K : Rank(K, k) = n
  BY RankOnto
<1> QED
  BY <1>1 DEF Nth

LEMMA NthRank ==
  ASSUME NEW K, FinitePositions(K), NEW k \in K
  PROVE  Nth(K, Rank(K, k)) = k
<1> DEFINE m == Nth(K, Rank(K, k))
<1>1. Rank(K, k) \in 1..Cardinality(K)
  BY RankType
<1>2. m \in K /\ Rank(K, m) = Rank(K, k)
  BY <1>1, NthType
<1> HIDE DEF m
<1>3. m \in Nat /\ k \in Nat /\ Rank(K, k) \in Nat
  BY <1>1, <1>2 DEF FinitePositions
<1>4. ~ (m < k)
  BY <1>2, <1>3, RankGrows
<1>5. ~ (k < m)
  BY <1>2, <1>3, RankGrows
<1>6. m = k
  BY <1>3, <1>4, <1>5
<1> QED
  BY <1>6 DEF m

\* The enumeration is increasing.
LEMMA NthGrows ==
  ASSUME NEW K, FinitePositions(K),
         NEW i \in 1..Cardinality(K), NEW j \in 1..Cardinality(K), i < j
  PROVE  Nth(K, i) < Nth(K, j)
<1> DEFINE a == Nth(K, i)
           b == Nth(K, j)
<1>1. a \in K /\ Rank(K, a) = i /\ b \in K /\ Rank(K, b) = j
  BY NthType
<1> HIDE DEF a, b
<1>2. a \in Nat /\ b \in Nat
  BY <1>1 DEF FinitePositions
<1>3. a # b
  BY <1>1
<1>4. ~ (b < a)
  BY <1>1, RankGrows
<1>5. a < b
  BY <1>2, <1>3, <1>4
<1> QED
  BY <1>5 DEF a, b

\* The increasing enumerations of K by the numbers 1..m.
Enumerates(f, m, K) ==
    /\ f \in [1..m -> K]
    /\ \A i, j \in 1..m : i < j => f[i] < f[j]
    /\ \A k \in K : \E i \in 1..m : f[i] = k

\* There is only one: a function that enumerates K in increasing order is Nth.
LEMMA EnumerationIsNth ==
  ASSUME NEW K \in SUBSET Nat, NEW m \in Nat, NEW f, Enumerates(f, m, K)
  PROVE  /\ FinitePositions(K) /\ Cardinality(K) = m
         /\ \A n \in 1..m : Nth(K, n) = f[n]
<1>1. ASSUME NEW i \in 1..m, NEW j \in 1..m, f[i] = f[j]
      PROVE  i = j
  <2>1. i \in Nat /\ j \in Nat /\ f[i] \in Nat
    <3>1. f[i] \in K
      BY DEF Enumerates
    <3>2. f[i] \in Nat
      BY <3>1
    <3>3. i \in Nat /\ j \in Nat
      OBVIOUS
    <3> QED
      BY <3>2, <3>3
  <2>2. ~ (i < j) /\ ~ (j < i)
    BY <1>1, <2>1 DEF Enumerates
  <2> QED
    BY <2>1, <2>2
<1>2. f \in Bijection(1..m, K)
  <2>1. f \in Injection(1..m, K)
    BY <1>1, Fun_IsInj DEF Enumerates
  <2>2. f \in Surjection(1..m, K)
    BY Fun_IsSurj DEF Enumerates
  <2> QED
    BY <2>1, <2>2 DEF Bijection
<1>3. IsFiniteSet(1..m) /\ Cardinality(1..m) = m
  BY FS_Interval
<1>4. IsFiniteSet(K) /\ Cardinality(K) = m
  BY <1>2, <1>3, FS_Bijection, Fun_ExistsBij
<1>5. ASSUME NEW n \in 1..m
      PROVE  Rank(K, f[n]) = n
  <2> DEFINE S == {j \in K : j <= f[n]}
             g == [i \in 1..n |-> f[i]]
  <2>1. n \in Nat /\ 1..n \subseteq 1..m
    OBVIOUS
  <2>2. ASSUME NEW i \in 1..n
        PROVE  f[i] \in S
    <3>1. i \in 1..m /\ i \in Nat /\ (i < n \/ i = n)
      BY <2>1
    <3>2. f[i] \in K /\ f[i] \in Nat /\ f[n] \in Nat
      BY <3>1 DEF Enumerates
    <3>3. f[i] <= f[n]
      BY <3>1, <3>2 DEF Enumerates
    <3> QED
      BY <3>2, <3>3
  <2>3. ASSUME NEW k \in S
        PROVE  \E i \in 1..n : g[i] = k
    <3>1. PICK i \in 1..m : f[i] = k
      BY DEF Enumerates
    <3>2. f[i] <= f[n] /\ f[i] \in Nat /\ f[n] \in Nat
      BY <3>1 DEF Enumerates
    <3>3. ~ (n < i)
      BY <3>2 DEF Enumerates
    <3>4. i \in 1..n
      BY <3>3
    <3> QED
      BY <3>1, <3>4
  <2>4. g \in [1..n -> S]
    BY <2>2
  <2>5. g \in Injection(1..n, S)
    <3>1. \A i, j \in 1..n : g[i] = g[j] => i = j
      BY <1>1, <2>1
    <3> QED
      BY <2>4, <3>1, Fun_IsInj
  <2>6. g \in Surjection(1..n, S)
    BY <2>3, <2>4, Fun_IsSurj
  <2>7. IsFiniteSet(1..n) /\ Cardinality(1..n) = n
    BY <2>1, FS_Interval
  <2>8. ExistsBijection(1..n, S)
    BY <2>5, <2>6, Fun_ExistsBij DEF Bijection
  <2>9. Cardinality(S) = n
    BY <2>1, <2>8, FS_CountingElements
  <2> QED
    BY <2>9 DEF Rank
<1>6. FinitePositions(K)
  BY <1>4 DEF FinitePositions
<1>7. ASSUME NEW n \in 1..m
      PROVE  Nth(K, n) = f[n]
  <2>1. f[n] \in K
    BY DEF Enumerates
  <2> QED
    BY <1>5, <1>6, <2>1, NthRank
<1> QED
  BY <1>4, <1>6, <1>7

\* Nth is itself an enumeration.
LEMMA NthEnumerates ==
  ASSUME NEW K, FinitePositions(K)
  PROVE  Enumerates([n \in 1..Cardinality(K) |-> Nth(K, n)], Cardinality(K), K)
<1> DEFINE c == Cardinality(K)
           f == [n \in 1..c |-> Nth(K, n)]
<1>1. f \in [1..c -> K]
  BY NthType
<1>2. \A i, j \in 1..c : i < j => f[i] < f[j]
  BY NthGrows
<1>3. ASSUME NEW k \in K
      PROVE  \E i \in 1..c : f[i] = k
  <2>1. Rank(K, k) \in 1..c /\ Nth(K, Rank(K, k)) = k
    BY RankType, NthRank
  <2> QED
    BY <2>1
<1> QED
  BY <1>1, <1>2, <1>3 DEF Enumerates
-------------------------------------------------------------------------------
(* Cutting an enumeration at a bound, and leaving out one member.          *)

\* A bound that is no member itself has a rank as well: it separates the
\* members the enumeration reaches first from the others.
LEMMA RankOfBound ==
  ASSUME NEW K, FinitePositions(K), NEW i \in Nat
  PROVE  /\ Rank(K, i) \in 0..Cardinality(K)
         /\ \A n \in 1..Cardinality(K) : Nth(K, n) <= i <=> n <= Rank(K, i)
<1> DEFINE S == {j \in K : j <= i}
<1>1. S \in SUBSET K /\ IsFiniteSet(S) /\ Cardinality(S) <= Cardinality(K)
  <2>1. S \in SUBSET K
    OBVIOUS
  <2> QED
    BY <2>1, FS_Subset DEF FinitePositions
<1>2. Cardinality(S) \in Nat /\ Cardinality(K) \in Nat
  BY <1>1, FS_CardinalityType DEF FinitePositions
<1>3. Rank(K, i) = Cardinality(S)
  BY DEF Rank
<1>4. ASSUME NEW n \in 1..Cardinality(K)
      PROVE  Nth(K, n) <= i <=> n <= Rank(K, i)
  <2> DEFINE m == Nth(K, n)
             T == {j \in K : j <= m}
  <2>1. m \in K /\ m \in Nat /\ Cardinality(T) = n
    BY NthType DEF FinitePositions, Rank
  <2>2. IsFiniteSet(T)
    <3>1. T \in SUBSET K
      OBVIOUS
    <3> QED
      BY <3>1, FS_Subset DEF FinitePositions
  <2> HIDE DEF m
  <2>3. CASE m <= i
    <3>1. ASSUME NEW j \in T
          PROVE  j \in S
      BY <2>1, <2>3 DEF FinitePositions
    <3>2. T \in SUBSET S
      BY <3>1
    <3>3. Cardinality(T) <= Cardinality(S)
      BY <1>1, <3>2, FS_Subset
    <3> QED
      BY <1>3, <2>1, <2>3, <3>3 DEF m
  <2>4. CASE ~ (m <= i)
    <3>1. ASSUME NEW j \in S
          PROVE  j \in T
      BY <2>1, <2>4 DEF FinitePositions
    <3>2. m \in T /\ m \notin S
      BY <2>1, <2>4
    <3>3. S \in SUBSET T /\ S # T
      BY <3>1, <3>2
    <3>4. Cardinality(S) <= Cardinality(T) /\ Cardinality(S) # Cardinality(T)
      BY <2>2, <3>3, FS_Subset
    <3>5. Cardinality(S) < n
      BY <1>2, <2>1, <3>4
    <3> QED
      BY <1>2, <1>3, <2>4, <3>5 DEF m
  <2> QED
    BY <2>3, <2>4
<1> QED
  BY <1>1, <1>2, <1>3, <1>4

LEMMA EnumeratesAbove ==
  ASSUME NEW K, FinitePositions(K), NEW i \in Nat,
         NEW J, J = {k \in K : ~ (k <= i)}
  PROVE  Enumerates([n \in 1..(Cardinality(K) - Rank(K, i)) |-> Nth(K, n + Rank(K, i))],
                    Cardinality(K) - Rank(K, i), J)
<1> DEFINE c == Cardinality(K)
           r == Rank(K, i)
           f == [n \in 1..(c - r) |-> Nth(K, n + r)]
<1>1. c \in Nat /\ r \in 0..c
  BY RankOfBound, FS_CardinalityType DEF FinitePositions
<1>2. \A n \in 1..c : Nth(K, n) \in K /\ (Nth(K, n) <= i <=> n <= r)
  BY NthType, RankOfBound
<1> HIDE DEF r, c
<1>3. \A n \in 1..(c - r) : n + r \in 1..c /\ ~ (n + r <= r)
  BY <1>1
<1>4. f \in [1..(c - r) -> J]
  BY <1>2, <1>3
<1>5. ASSUME NEW m \in 1..(c - r), NEW n \in 1..(c - r), m < n
      PROVE  f[m] < f[n]
  <2>1. m + r \in 1..c /\ n + r \in 1..c /\ m + r < n + r
    BY <1>1, <1>3, <1>5
  <2> QED
    BY <2>1, NthGrows DEF c
<1>6. ASSUME NEW k \in J
      PROVE  \E n \in 1..(c - r) : f[n] = k
  <2> DEFINE n == Rank(K, k)
  <2>1. k \in K /\ ~ (k <= i)
    OBVIOUS
  <2>2. n \in 1..c /\ Nth(K, n) = k
    BY <2>1, RankType, NthRank DEF c
  <2> HIDE DEF n
  <2>3. ~ (n <= r)
    BY <1>2, <2>1, <2>2
  <2>4. n - r \in 1..(c - r) /\ (n - r) + r = n
    BY <1>1, <2>2, <2>3
  <2>5. f[n - r] = k
    BY <2>2, <2>4
  <2> QED
    BY <2>4, <2>5
<1> QED
  BY <1>4, <1>5, <1>6 DEF Enumerates, c, r

LEMMA EnumeratesWithout ==
  ASSUME NEW K, FinitePositions(K), NEW i \in K
  PROVE  Enumerates([n \in 1..(Cardinality(K) - 1) |->
                        IF n < Rank(K, i) THEN Nth(K, n) ELSE Nth(K, n + 1)],
                    Cardinality(K) - 1, K \ {i})
<1> DEFINE c == Cardinality(K)
           r == Rank(K, i)
           f == [n \in 1..(c - 1) |-> IF n < r THEN Nth(K, n) ELSE Nth(K, n + 1)]
           at(n) == IF n < r THEN n ELSE n + 1
<1>1. c \in Nat /\ r \in 1..c /\ Nth(K, r) = i
  BY RankType, NthRank, FS_CardinalityType DEF FinitePositions
<1>2. \A n \in 1..c : Nth(K, n) \in K /\ Rank(K, Nth(K, n)) = n
  BY NthType
<1> HIDE DEF r, c
<1>3. \A n \in 1..(c - 1) : at(n) \in 1..c /\ at(n) # r
  BY <1>1
<1>4. \A n \in 1..(c - 1) : f[n] = Nth(K, at(n))
  OBVIOUS
<1>5. \A m, n \in 1..(c - 1) : m < n => at(m) < at(n)
  BY <1>1
<1>6. f \in [1..(c - 1) -> K \ {i}]
  <2>1. ASSUME NEW n \in 1..(c - 1)
        PROVE  Nth(K, at(n)) \in K \ {i}
    <3> DEFINE k == at(n)
    <3>1. k \in 1..c /\ k # r
      BY <1>3
    <3> HIDE DEF k
    <3>2. Nth(K, k) \in K /\ Rank(K, Nth(K, k)) # Rank(K, i)
      BY <1>2, <3>1 DEF r
    <3> QED
      BY <3>2 DEF k
  <2>2. f = [n \in 1..(c - 1) |-> Nth(K, at(n))]
    OBVIOUS
  <2> HIDE DEF at, f
  <2> QED
    BY <2>1, <2>2
<1> HIDE DEF at, f
<1>7. ASSUME NEW m \in 1..(c - 1), NEW n \in 1..(c - 1), m < n
      PROVE  f[m] < f[n]
  <2>1. at(m) \in 1..c /\ at(n) \in 1..c /\ at(m) < at(n)
    BY <1>3, <1>5, <1>7
  <2>2. Nth(K, at(m)) < Nth(K, at(n))
    BY <2>1, NthGrows DEF c
  <2> QED
    BY <1>4, <2>2
<1>8. ASSUME NEW k \in K \ {i}
      PROVE  \E n \in 1..(c - 1) : f[n] = k
  <2> DEFINE n == Rank(K, k)
  <2>1. n \in 1..c /\ Nth(K, n) = k
    BY RankType, NthRank DEF c
  <2> HIDE DEF n
  <2>2. n # r
    BY <1>1, <2>1
  <2>3. CASE n < r
    <3>1. n \in 1..(c - 1) /\ at(n) = n
      BY <1>1, <2>1, <2>3 DEF at
    <3> QED
      BY <1>4, <2>1, <3>1
  <2>4. CASE ~ (n < r)
    <3>1. n - 1 \in 1..(c - 1) /\ at(n - 1) = n
      BY <1>1, <2>1, <2>2, <2>4 DEF at
    <3> QED
      BY <1>4, <2>1, <3>1
  <2> QED
    BY <2>3, <2>4
<1> QED
  BY <1>6, <1>7, <1>8 DEF Enumerates, c, r, f
-------------------------------------------------------------------------------
(* Sequences written out as functions.                                     *)

LEMMA ConcatAt ==
  ASSUME NEW S, NEW x \in Seq(S), NEW y \in Seq(S)
  PROVE  x \o y = [n \in 1..(Len(x) + Len(y)) |->
                     IF n <= Len(x) THEN x[n] ELSE y[n - Len(x)]]
<1> DEFINE both == [n \in 1..(Len(x) + Len(y)) |->
                     IF n <= Len(x) THEN x[n] ELSE y[n - Len(x)]]
<1>1. Len(x) \in Nat /\ Len(y) \in Nat
  OBVIOUS
<1>2. both \in [1..(Len(x) + Len(y)) -> S]
  <2>1. ASSUME NEW n \in 1..(Len(x) + Len(y))
        PROVE  (IF n <= Len(x) THEN x[n] ELSE y[n - Len(x)]) \in S
    BY <1>1, ElementOfSeq
  <2> QED
    BY <2>1
<1>3. both \in Seq(S) /\ Len(both) = Len(x) + Len(y)
  BY <1>1, <1>2, IsASeq
<1>4. /\ x \o y \in Seq(S) /\ Len(x \o y) = Len(x) + Len(y)
      /\ \A n \in 1..(Len(x) + Len(y)) : (x \o y)[n] =
                     IF n <= Len(x) THEN x[n] ELSE y[n - Len(x)]
  BY ConcatProperties
<1>5. \A n \in 1..(Len(x) + Len(y)) : (x \o y)[n] = both[n]
  BY <1>4
<1> HIDE DEF both
<1>6. x \o y = both
  BY <1>3, <1>4, <1>5, SeqEqual
<1> QED
  BY <1>6 DEF both

LEMMA SubSeqAt ==
  ASSUME NEW S, NEW x \in Seq(S), NEW r \in 0..Len(x), NEW m \in r..Len(x)
  PROVE  /\ SubSeq(x, r + 1, m) \in Seq(S) /\ Len(SubSeq(x, r + 1, m)) = m - r
         /\ SubSeq(x, r + 1, m) = [n \in 1..(m - r) |-> x[n + r]]
<1> DEFINE part == [n \in 1..(m - r) |-> x[n + r]]
<1>1. Len(x) \in Nat /\ r \in Int /\ m \in Int /\ m - r \in Nat
  OBVIOUS
<1>2. part \in [1..(m - r) -> S]
  <2>1. ASSUME NEW n \in 1..(m - r)
        PROVE  x[n + r] \in S
    BY <1>1, ElementOfSeq
  <2> QED
    BY <2>1
<1>3. part \in Seq(S) /\ Len(part) = m - r
  BY <1>1, <1>2, IsASeq
<1>4. /\ SubSeq(x, r + 1, m) \in Seq(S) /\ Len(SubSeq(x, r + 1, m)) = m - r
      /\ \A n \in 1..(m - r) : SubSeq(x, r + 1, m)[n] = x[n + r]
  <2>1. \A n \in (r + 1)..m : x[n] \in S
    BY <1>1, ElementOfSeq
  <2>2. /\ SubSeq(x, r + 1, m) \in Seq(S)
        /\ Len(SubSeq(x, r + 1, m)) = IF r + 1 <= m THEN m - (r + 1) + 1 ELSE 0
        /\ \A n \in 1..(m - (r + 1) + 1) : SubSeq(x, r + 1, m)[n] = x[(r + 1) + n - 1]
    BY <1>1, <2>1, SubSeqProperties
  <2>3. Len(SubSeq(x, r + 1, m)) = m - r
    BY <1>1, <2>2
  <2>4. m - (r + 1) + 1 = m - r
    BY <1>1
  <2>5. \A n \in 1..(m - r) : (r + 1) + n - 1 = n + r
    BY <1>1
  <2> QED
    BY <2>2, <2>3, <2>4, <2>5
<1>5. \A n \in 1..(m - r) : SubSeq(x, r + 1, m)[n] = part[n]
  BY <1>4
<1> HIDE DEF part
<1>6. SubSeq(x, r + 1, m) = part
  BY <1>3, <1>4, <1>5, SeqEqual
<1> QED
  BY <1>4, <1>6 DEF part
-------------------------------------------------------------------------------
(* Selections of a sequence.                                               *)

\* What is selected from a sequence is a sequence again, of members it had before.
LEMMA SelectionType ==
  ASSUME NEW S, NEW seq \in Seq(S), NEW K \in SUBSET (DOMAIN seq)
  PROVE  /\ FinitePositions(K) /\ Cardinality(K) \in Nat
         /\ Select(seq, K) \in Seq(S)
         /\ Len(Select(seq, K)) = Cardinality(K)
         /\ \A n \in 1..Cardinality(K) :
               Nth(K, n) \in K /\ Select(seq, K)[n] = seq[Nth(K, n)]
<1>1. DOMAIN seq = 1..Len(seq) /\ Len(seq) \in Nat
  OBVIOUS
<1>2. FinitePositions(K)
  <2>1. IsFiniteSet(1..Len(seq))
    BY <1>1, FS_Interval
  <2>2. IsFiniteSet(K)
    BY <1>1, <2>1, FS_Subset
  <2>3. K \in SUBSET Nat
    BY <1>1
  <2> QED
    BY <2>2, <2>3 DEF FinitePositions
<1>3. Cardinality(K) \in Nat
  BY <1>2, FS_CardinalityType DEF FinitePositions
<1>4. \A n \in 1..Cardinality(K) : Nth(K, n) \in K
  BY <1>2, NthType
<1>5. Select(seq, K) \in [1..Cardinality(K) -> S]
  <2>1. ASSUME NEW n \in 1..Cardinality(K)
        PROVE  seq[Nth(K, n)] \in S
    <3>1. Nth(K, n) \in 1..Len(seq)
      BY <1>1, <1>4
    <3> QED
      BY <3>1, ElementOfSeq
  <2> QED
    BY <2>1 DEF Select
<1>6. Select(seq, K) \in Seq(S)
  BY <1>3, <1>5, IsASeq
<1>7. Len(Select(seq, K)) = Cardinality(K)
  BY <1>3, <1>5, <1>6
<1> QED
  BY <1>2, <1>3, <1>4, <1>6, <1>7 DEF Select

\* A selection can be written out with any increasing enumeration of its positions.
LEMMA SelectByEnumeration ==
  ASSUME NEW S, NEW seq \in Seq(S), NEW K \in SUBSET (DOMAIN seq),
         NEW m \in Nat, NEW f, Enumerates(f, m, K)
  PROVE  Cardinality(K) = m /\ Select(seq, K) = [n \in 1..m |-> seq[f[n]]]
<1>1. K \in SUBSET Nat
  BY SelectionType DEF FinitePositions
<1>2. Cardinality(K) = m /\ \A n \in 1..m : Nth(K, n) = f[n]
  BY <1>1, EnumerationIsNth
<1> QED
  BY <1>2 DEF Select

LEMMA SelectNothing ==
  ASSUME NEW seq
  PROVE  Select(seq, {}) = <<>>
<1>1. Cardinality({}) = 0
  BY FS_EmptySet
<1> QED
  BY <1>1 DEF Select

\* A member appended to the sequence is selected last, if it is.
LEMMA SelectAppended ==
  ASSUME NEW S, NEW seq \in Seq(S), NEW x \in S, NEW K \in SUBSET (DOMAIN seq)
  PROVE  /\ Select(Append(seq, x), K) = Select(seq, K)
         /\ Select(Append(seq, x), K \cup {Len(seq) + 1}) = Append(Select(seq, K), x)
<1> DEFINE l == Len(seq)
           c == Cardinality(K)
           longer == Append(seq, x)
           f == [n \in 1..(c + 1) |-> IF n <= c THEN Nth(K, n) ELSE l + 1]
           J == K \cup {l + 1}
<1>1. /\ DOMAIN seq = 1..l /\ l \in Nat
      /\ longer \in Seq(S) /\ DOMAIN longer = 1..(l + 1) /\ longer[l + 1] = x
      /\ \A k \in 1..l : longer[k] = seq[k]
  OBVIOUS
<1>2. /\ FinitePositions(K) /\ c \in Nat
      /\ Select(seq, K) \in Seq(S) /\ Len(Select(seq, K)) = c
      /\ \A n \in 1..c : Nth(K, n) \in K /\ Select(seq, K)[n] = seq[Nth(K, n)]
  BY SelectionType
<1>3. \A n \in 1..c : Nth(K, n) \in 1..l
  BY <1>1, <1>2
<1>4. Select(longer, K) = Select(seq, K)
  BY <1>1, <1>3 DEF Select
<1>5. Enumerates(f, c + 1, J)
  <2>1. f \in [1..(c + 1) -> J]
    BY <1>2
  <2>2. ASSUME NEW i \in 1..(c + 1), NEW j \in 1..(c + 1), i < j
        PROVE  f[i] < f[j]
    <3>1. i \in 1..c /\ f[i] = Nth(K, i)
      BY <1>2, <2>2
    <3>2. CASE j <= c
      <4>1. j \in 1..c /\ f[j] = Nth(K, j)
        BY <1>2, <3>2
      <4>2. Nth(K, i) < Nth(K, j)
        BY <1>2, <2>2, <3>1, <4>1, NthGrows
      <4> QED
        BY <3>1, <4>1, <4>2
    <3>3. CASE ~ (j <= c)
      <4>1. f[j] = l + 1 /\ Nth(K, i) \in 1..l
        BY <1>3, <3>1, <3>3
      <4> QED
        BY <1>1, <3>1, <4>1
    <3> QED
      BY <3>2, <3>3
  <2>3. ASSUME NEW k \in J
        PROVE  \E n \in 1..(c + 1) : f[n] = k
    <3>1. CASE k = l + 1
      <4>1. c + 1 \in 1..(c + 1) /\ f[c + 1] = l + 1
        BY <1>2
      <4> QED
        BY <3>1, <4>1
    <3>2. CASE k \in K
      <4>1. Rank(K, k) \in 1..c /\ Nth(K, Rank(K, k)) = k
        BY <1>2, <3>2, RankType, NthRank
      <4>2. Rank(K, k) \in 1..(c + 1) /\ f[Rank(K, k)] = k
        BY <1>2, <4>1
      <4> QED
        BY <4>2
    <3> QED
      BY <3>1, <3>2
  <2> QED
    BY <2>1, <2>2, <2>3 DEF Enumerates
<1> HIDE DEF f
<1>6. J \in SUBSET (DOMAIN longer) /\ c + 1 \in Nat
  BY <1>1, <1>2
<1>7. Select(longer, J) = [n \in 1..(c + 1) |-> longer[f[n]]]
  <2> HIDE DEF longer, J, c
  <2> QED
    BY <1>1, <1>5, <1>6, SelectByEnumeration
<1>8. Append(Select(seq, K), x) = [n \in 1..(c + 1) |-> longer[f[n]]]
  <2> DEFINE own == Select(seq, K)
             more == Append(own, x)
             other == [n \in 1..(c + 1) |-> longer[f[n]]]
  <2>1. /\ more \in Seq(S) /\ Len(more) = c + 1 /\ more[c + 1] = x
        /\ \A n \in 1..c : more[n] = own[n]
    BY <1>2
  <2>2. ASSUME NEW n \in 1..(c + 1)
        PROVE  more[n] = other[n]
    <3>1. CASE n <= c
      <4>1. n \in 1..c /\ f[n] = Nth(K, n)
        BY <1>2, <3>1 DEF f
      <4>2. longer[f[n]] = seq[Nth(K, n)]
        BY <1>1, <1>3, <4>1
      <4> QED
        BY <1>2, <2>1, <4>1, <4>2
    <3>2. CASE ~ (n <= c)
      <4>1. n = c + 1 /\ f[n] = l + 1
        BY <1>2, <3>2 DEF f
      <4> QED
        BY <1>1, <2>1, <4>1
    <3> QED
      BY <3>1, <3>2
  <2> HIDE DEF more, own, c
  <2>3. DOMAIN more = 1..(c + 1) /\ more = [n \in DOMAIN more |-> more[n]]
    BY <1>2, <2>1
  <2>4. more = other
    BY <2>2, <2>3
  <2> QED
    BY <2>4 DEF more, own, c
<1> QED
  BY <1>4, <1>7, <1>8

\* The first that is selected, and the others.
LEMMA SelectFirst ==
  ASSUME NEW S, NEW seq \in Seq(S), NEW K \in SUBSET (DOMAIN seq), NEW i \in K,
         \A k \in K : i <= k
  PROVE  Select(seq, K) = <<seq[i]>> \o Select(seq, K \ {i})
<1> DEFINE c == Cardinality(K)
           rest == K \ {i}
           own == Select(seq, rest)
           first == <<seq[i]>>
<1>1. /\ FinitePositions(K) /\ c \in Nat
      /\ Select(seq, K) \in Seq(S) /\ Len(Select(seq, K)) = c
      /\ \A n \in 1..c : Nth(K, n) \in K /\ Select(seq, K)[n] = seq[Nth(K, n)]
  BY SelectionType
<1>2. i \in Nat /\ K \in SUBSET Nat
  BY <1>1 DEF FinitePositions
<1>3. Rank(K, i) = 1
  <2>1. \A k \in K : k <= i => k = i
    BY <1>2
  <2>2. {k \in K : k <= i} = {i}
    BY <1>2, <2>1
  <2> QED
    BY <2>2, FS_Singleton DEF Rank
<1>4. c >= 1 /\ Nth(K, 1) = i
  <2>1. Rank(K, i) \in 1..c /\ Nth(K, Rank(K, i)) = i
    BY <1>1, RankType, NthRank
  <2> QED
    BY <1>1, <1>3, <2>1
<1> DEFINE f == [n \in 1..(c - 1) |-> IF n < 1 THEN Nth(K, n) ELSE Nth(K, n + 1)]
<1>5. Enumerates(f, c - 1, rest)
  <2>1. Enumerates([n \in 1..(c - 1) |->
                        IF n < Rank(K, i) THEN Nth(K, n) ELSE Nth(K, n + 1)], c - 1, rest)
    BY <1>1, EnumeratesWithout
  <2> QED
    BY <1>3, <2>1
<1>6. c - 1 \in Nat /\ rest \in SUBSET (DOMAIN seq)
  BY <1>1, <1>4
<1>7. \A n \in 1..(c - 1) : f[n] = Nth(K, n + 1)
  BY <1>1
<1> HIDE DEF f
<1>8. own = [n \in 1..(c - 1) |-> seq[f[n]]] /\ own \in Seq(S) /\ Len(own) = c - 1
  <2> HIDE DEF c, rest
  <2>1. Cardinality(rest) = c - 1 /\ Select(seq, rest) = [n \in 1..(c - 1) |-> seq[f[n]]]
    BY <1>5, <1>6, SelectByEnumeration
  <2> QED
    BY <1>6, <2>1, SelectionType
<1>9. first \in Seq(S) /\ Len(first) = 1 /\ first[1] = seq[i]
  BY ElementOfSeq, <1>2
<1> HIDE DEF own, first, c
<1>10. first \o own = [n \in 1..(1 + (c - 1)) |-> IF n <= 1 THEN first[n] ELSE own[n - 1]]
  <2> DEFINE both == first \o own
  <2>1. /\ both \in Seq(S) /\ Len(both) = Len(first) + Len(own)
        /\ \A n \in 1..(Len(first) + Len(own)) : both[n] =
              IF n <= Len(first) THEN first[n] ELSE own[n - Len(first)]
    BY <1>8, <1>9, ConcatProperties
  <2> HIDE DEF both
  <2>2. both = [n \in 1..Len(both) |-> both[n]]
    BY <2>1
  <2>3. /\ Len(both) = 1 + (c - 1)
        /\ \A n \in 1..(1 + (c - 1)) : both[n] = IF n <= 1 THEN first[n] ELSE own[n - 1]
    BY <1>8, <1>9, <2>1
  <2>4. both = [n \in 1..(1 + (c - 1)) |-> IF n <= 1 THEN first[n] ELSE own[n - 1]]
    BY <2>2, <2>3
  <2> QED
    BY <2>4 DEF both
<1>11. 1 + (c - 1) = c
  BY <1>1
<1>12. ASSUME NEW n \in 1..c
       PROVE  Select(seq, K)[n] = IF n <= 1 THEN first[n] ELSE own[n - 1]
  <2>1. CASE n <= 1
    BY <1>1, <1>4, <1>9, <2>1
  <2>2. CASE ~ (n <= 1)
    <3>1. n - 1 \in 1..(c - 1) /\ (n - 1) + 1 = n
      BY <1>1, <2>2
    <3>2. own[n - 1] = seq[Nth(K, n)]
      BY <1>7, <1>8, <3>1
    <3> QED
      BY <1>1, <2>2, <3>2
  <2> QED
    BY <2>1, <2>2
<1>13. Select(seq, K) = [n \in 1..c |-> Select(seq, K)[n]]
  BY <1>1
<1> QED
  BY <1>10, <1>11, <1>12, <1>13 DEF own, first, c

\* A sequence with its i-th member taken out.
TakenOut(seq, i) == SubSeq(seq, 1, i - 1) \o SubSeq(seq, i + 1, Len(seq))

LEMMA TakenOutAt ==
  ASSUME NEW S, NEW seq \in Seq(S), NEW i \in DOMAIN seq
  PROVE  /\ TakenOut(seq, i) \in Seq(S)
         /\ Len(TakenOut(seq, i)) = Len(seq) - 1
         /\ DOMAIN TakenOut(seq, i) = 1..(Len(seq) - 1)
         /\ \A n \in 1..(Len(seq) - 1) :
               TakenOut(seq, i)[n] = IF n < i THEN seq[n] ELSE seq[n + 1]
<1> DEFINE l == Len(seq)
           rest == TakenOut(seq, i)
           front == SubSeq(seq, 1, i - 1)
           back == SubSeq(seq, i + 1, l)
<1>1. DOMAIN seq = 1..l /\ l \in Nat /\ i \in 1..l
  OBVIOUS
<1>2. rest = front \o back
  BY DEF TakenOut
<1> HIDE DEF rest
<1>3. /\ front \in Seq(S) /\ Len(front) = i - 1
      /\ \A n \in 1..(i - 1) : front[n] = seq[n]
  <2>1. 0 \in 0..l /\ i - 1 \in 0..l
    BY <1>1
  <2>2. /\ SubSeq(seq, 0 + 1, i - 1) \in Seq(S) /\ Len(SubSeq(seq, 0 + 1, i - 1)) = (i - 1) - 0
        /\ SubSeq(seq, 0 + 1, i - 1) = [n \in 1..((i - 1) - 0) |-> seq[n + 0]]
    BY <2>1, SubSeqAt
  <2> QED
    BY <1>1, <2>2
<1>4. /\ back \in Seq(S) /\ Len(back) = l - i
      /\ \A n \in 1..(l - i) : back[n] = seq[n + i]
  <2>1. i \in 0..l /\ l \in i..l
    BY <1>1
  <2> QED
    BY <1>1, <2>1, SubSeqAt
<1> HIDE DEF front, back
<1>5. /\ rest \in Seq(S) /\ Len(rest) = l - 1 /\ DOMAIN rest = 1..(l - 1)
      /\ \A n \in 1..(l - 1) : rest[n] = IF n <= i - 1 THEN seq[n] ELSE seq[n + 1]
  <2>1. rest \in Seq(S) /\ Len(rest) = l - 1 /\ DOMAIN rest = 1..(l - 1)
    <3>1. rest \in Seq(S) /\ Len(rest) = Len(front) + Len(back)
      BY <1>2, <1>3, <1>4, ConcatProperties
        <3>2. Len(rest) = l - 1
      BY <1>1, <1>3, <1>4, <3>1
    <3> QED
      BY <3>1, <3>2
  <2>2. \A n \in 1..((i - 1) + (l - i)) : rest[n] =
           IF n <= i - 1 THEN front[n] ELSE back[n - (i - 1)]
    <3>1. \A n \in 1..(Len(front) + Len(back)) : rest[n] =
             IF n <= Len(front) THEN front[n] ELSE back[n - Len(front)]
      BY <1>2, <1>3, <1>4, ConcatProperties
    <3> HIDE DEF l
    <3> QED
      BY <1>3, <1>4, <3>1
  <2>3. (i - 1) + (l - i) = l - 1
    BY <1>1
  <2>4. ASSUME NEW n \in 1..(l - 1)
        PROVE  rest[n] = IF n <= i - 1 THEN seq[n] ELSE seq[n + 1]
    <3>1. rest[n] = IF n <= i - 1 THEN front[n] ELSE back[n - (i - 1)]
      BY <2>2, <2>3
    <3>2. CASE n <= i - 1
      <4>1. n \in 1..(i - 1)
        BY <1>1, <3>2
      <4> QED
        BY <1>3, <3>1, <3>2, <4>1
    <3>3. CASE ~ (n <= i - 1)
      <4>1. n - (i - 1) \in 1..(l - i) /\ (n - (i - 1)) + i = n + 1
        BY <1>1, <3>3
      <4> QED
        BY <1>4, <3>1, <3>3, <4>1
    <3> QED
      BY <3>2, <3>3
  <2> QED
    BY <2>1, <2>4
<1> QED
  <2>1. \A n \in 1..(l - 1) : n <= i - 1 <=> n < i
    BY <1>1
  <2> QED
    BY <1>5, <2>1 DEF rest

\* When a member that is not selected is taken out, the positions behind it shift.
LEMMA SelectShifted ==
  ASSUME NEW S, NEW seq \in Seq(S), NEW i \in DOMAIN seq,
         NEW K \in SUBSET (DOMAIN seq), i \notin K
  PROVE  Select(TakenOut(seq, i), {IF k < i THEN k ELSE k - 1 : k \in K}) = Select(seq, K)
<1> DEFINE l == Len(seq)
           c == Cardinality(K)
           shift(k) == IF k < i THEN k ELSE k - 1
           J == {shift(k) : k \in K}
           rest == TakenOut(seq, i)
           f == [n \in 1..c |-> shift(Nth(K, n))]
<1>1. DOMAIN seq = 1..l /\ l \in Nat /\ i \in 1..l
  OBVIOUS
<1>2. /\ FinitePositions(K) /\ c \in Nat
      /\ Select(seq, K) \in Seq(S) /\ Len(Select(seq, K)) = c
      /\ \A n \in 1..c : Nth(K, n) \in K /\ Select(seq, K)[n] = seq[Nth(K, n)]
  BY SelectionType
<1>3. /\ rest \in Seq(S) /\ Len(rest) = l - 1 /\ DOMAIN rest = 1..(l - 1)
      /\ \A n \in 1..(l - 1) : rest[n] = IF n < i THEN seq[n] ELSE seq[n + 1]
  BY TakenOutAt
<1> HIDE DEF rest
<1>4. \A k \in K : k \in 1..l /\ k # i /\ k \in Nat
  BY <1>1
<1>5. \A k \in K : shift(k) \in 1..(l - 1) /\ rest[shift(k)] = seq[k]
  <2> SUFFICES ASSUME NEW k \in K
               PROVE  shift(k) \in 1..(l - 1) /\ rest[shift(k)] = seq[k]
    OBVIOUS
  <2>1. CASE k < i
    BY <1>1, <1>3, <1>4, <2>1
  <2>2. CASE ~ (k < i)
    <3>1. k > i /\ k - 1 \in 1..(l - 1) /\ ~ (k - 1 < i) /\ (k - 1) + 1 = k
      BY <1>1, <1>4, <2>2
    <3> QED
      BY <1>3, <2>2, <3>1
  <2> QED
    BY <2>1, <2>2
<1>6. \A j, k \in K : j < k => shift(j) < shift(k)
  BY <1>1, <1>4
<1>7. Enumerates(f, c, J)
  <2>1. f \in [1..c -> J]
    BY <1>2
  <2>2. ASSUME NEW m \in 1..c, NEW n \in 1..c, m < n
        PROVE  f[m] < f[n]
    <3>1. Nth(K, m) < Nth(K, n) /\ Nth(K, m) \in K /\ Nth(K, n) \in K
      BY <1>2, <2>2, NthGrows
    <3> QED
      BY <1>6, <3>1
  <2>3. ASSUME NEW j \in J
        PROVE  \E n \in 1..c : f[n] = j
    <3>1. PICK k \in K : j = shift(k)
      OBVIOUS
    <3>2. Rank(K, k) \in 1..c /\ Nth(K, Rank(K, k)) = k
      BY <1>2, RankType, NthRank
    <3> QED
      BY <3>1, <3>2
  <2> QED
    BY <2>1, <2>2, <2>3 DEF Enumerates
<1>8. J \in SUBSET (DOMAIN rest)
  BY <1>3, <1>5
<1>9. \A n \in 1..c : rest[f[n]] = seq[Nth(K, n)]
  BY <1>2, <1>5
<1> HIDE DEF f, J
<1>10. Select(rest, J) = [n \in 1..c |-> rest[f[n]]]
  <2>1. rest \in Seq(S) /\ c \in Nat
    BY <1>2, <1>3
  <2> HIDE DEF c
  <2> QED
    BY <2>1, <1>7, <1>8, SelectByEnumeration
<1>11. Select(rest, J) = [n \in 1..c |-> seq[Nth(K, n)]]
  BY <1>9, <1>10
<1> QED
  BY <1>11 DEF Select, J, rest
===============================================================================

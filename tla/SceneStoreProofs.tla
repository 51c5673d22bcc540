-------------------------- MODULE SceneStoreProofs --------------------------
(***************************************************************************)
(* No sighting is lost or counted twice, for any number of builders,       *)
(* batches, crashes and failing writes and for every map; edges follow the *)
(* nodes; the cap drops the stalest; and the surveyed objects survive      *)
(* detections, builds, crashes and re-surveys, at their right places.      *)
(*                                                                         *)
(* LedgerBalanced speaks of the scene and of the file; it is kept because  *)
(* the draft a thread works on adds up to the ledger and the thread's own  *)
(* tally until it is swapped in, and that holds because nobody else swaps  *)
(* in between: whoever is not idle holds _scene_lock.                      *)
(***************************************************************************)
EXTENDS SceneStore, FiniteSetTheorems, WellFoundedInduction, TLAPS

-----------------------------------------------------------------------------
(* Least and greatest members. *)

LEMMA LeastExists ==
  ASSUME NEW S \in SUBSET Nat, S # {}
  PROVE  \E x \in S : \A y \in S : x <= y
<1>1. PICK x \in S : \A y \in S : ~(<<y, x>> \in OpToRel(<, Nat))
  BY WFMin, NatLessThanWellFounded
<1>2. \A y \in S : ~(y < x)
  BY <1>1 DEF OpToRel
<1> QED BY <1>2

LEMMA MinIsLeast ==
  ASSUME NEW S \in SUBSET Nat, S # {}
  PROVE  Min(S) \in S /\ \A y \in S : Min(S) <= y
BY LeastExists DEF Min

LEMMA MaxIsGreatest ==
  ASSUME NEW N \in Nat, NEW S \in SUBSET (0..N), S # {}
  PROVE  Max(S) \in S /\ \A y \in S : y <= Max(S)
<1> DEFINE Below == {N - x : x \in S}
<1>0. \A x \in S : x \in Nat /\ N - x \in Nat
  OBVIOUS
<1>1. Below \in SUBSET Nat /\ Below # {}
  BY <1>0
<1>2. PICK d \in Below : \A e \in Below : d <= e
  BY <1>1, LeastExists
<1>3. PICK x \in S : d = N - x
  BY <1>2
<1>4. \A y \in S : x >= y
  BY <1>0, <1>2, <1>3
<1> QED BY <1>4 DEF Max

-----------------------------------------------------------------------------
(* Total adds up a sequence of numbers.  Whatever satisfies its recursion on   *)
(* every prefix ends in it.                                                    *)

Sums(counts, f) ==
  /\ f[0] = 0
  /\ \A i \in 1..Len(counts) : f[i] = f[i - 1] + counts[i]

SumsUpto(counts, n) ==
  \E f \in [0..n -> Nat] : f[0] = 0 /\ \A i \in 1..n : f[i] = f[i - 1] + counts[i]

RunningSum(counts) ==
  CHOOSE sum : sum = [i \in 0..Len(counts) |->
                        IF i = 0 THEN 0 ELSE sum[i - 1] + counts[i]]

LEMMA SumExists ==
  ASSUME NEW counts \in Seq(Nat)
  PROVE  \E f \in [0..Len(counts) -> Nat] : Sums(counts, f)
<1> DEFINE L == Len(counts)
           Bad == {n \in 0..L : ~SumsUpto(counts, n)}
<1>1. L \in Nat /\ L \in 0..L /\ Bad \in SUBSET Nat
  OBVIOUS
<1>2. SUFFICES ASSUME Bad # {} PROVE FALSE
  BY <1>1 DEF Sums, SumsUpto
<1>3. PICK n \in Bad : \A m \in Bad : n <= m
  BY <1>1, <1>2, LeastExists
<1>4. CASE n = 0
  <2>1. [i \in 0..0 |-> 0] \in [0..0 -> Nat]
    OBVIOUS
  <2>2. SumsUpto(counts, 0)
    <3>1. [i \in 0..0 |-> 0][0] = 0 /\ 1..0 = {}
      OBVIOUS
    <3> QED BY <2>1, <3>1 DEF SumsUpto
  <2> QED BY <1>3, <1>4, <2>2
<1>5. CASE n # 0
  <2>1. n \in 0..L /\ n - 1 \in 0..L /\ ~(n <= n - 1)
    BY <1>1, <1>3, <1>5
  <2>2. SumsUpto(counts, n - 1)
    BY <1>3, <2>1
  <2>3. PICK f \in [0..(n - 1) -> Nat] :
          f[0] = 0 /\ \A i \in 1..(n - 1) : f[i] = f[i - 1] + counts[i]
    BY <2>2 DEF SumsUpto
  <2> DEFINE g == [i \in 0..n |-> IF i = n THEN f[n - 1] + counts[n] ELSE f[i]]
  <2>4. counts[n] \in Nat /\ f[n - 1] \in Nat /\ f[n - 1] + counts[n] \in Nat
    BY <2>1, <2>3, <1>5
  <2>5. g \in [0..n -> Nat] /\ g[0] = 0
    BY <1>5, <2>1, <2>3, <2>4
  <2>6. \A i \in 1..n : g[i] = g[i - 1] + counts[i]
    BY <1>5, <2>1, <2>3
  <2>7. SumsUpto(counts, n)
    BY <2>5, <2>6 DEF SumsUpto
  <2> QED BY <1>3, <2>7
<1> QED BY <1>4, <1>5

LEMMA SumsAgree ==
  ASSUME NEW counts \in Seq(Nat), NEW f, NEW g, Sums(counts, f), Sums(counts, g)
  PROVE  \A i \in 0..Len(counts) : f[i] = g[i]
<1> DEFINE Bad == {i \in 0..Len(counts) : f[i] # g[i]}
<1>1. SUFFICES ASSUME Bad # {} PROVE FALSE
  OBVIOUS
<1>2. PICK n \in Bad : \A m \in Bad : n <= m
  <2>1. Bad \in SUBSET Nat
    OBVIOUS
  <2> QED BY <1>1, <2>1, LeastExists
<1>3. n # 0
  BY <1>2 DEF Sums
<1>4. n \in 1..Len(counts) /\ n - 1 \in 0..Len(counts) /\ ~(n <= n - 1)
  BY <1>2, <1>3
<1>5. n - 1 \notin Bad
  BY <1>2, <1>4
<1>6. f[n - 1] = g[n - 1]
  BY <1>4, <1>5
<1>7. f[n] = f[n - 1] + counts[n] /\ g[n] = g[n - 1] + counts[n]
  BY <1>4 DEF Sums
<1> QED BY <1>2, <1>6, <1>7

LEMMA TotalBySums ==
  ASSUME NEW counts \in Seq(Nat), NEW f, Sums(counts, f)
  PROVE  Total(counts) = f[Len(counts)] /\ Total(counts) \in Nat
<1>1. PICK s \in [0..Len(counts) -> Nat] : Sums(counts, s)
  BY SumExists
<1>2. s = [i \in 0..Len(counts) |-> IF i = 0 THEN 0 ELSE s[i - 1] + counts[i]]
  BY <1>1 DEF Sums
<1>3. RunningSum(counts) = [i \in 0..Len(counts) |->
                IF i = 0 THEN 0 ELSE RunningSum(counts)[i - 1] + counts[i]]
  BY <1>2 DEF RunningSum
<1>4. Sums(counts, RunningSum(counts))
  <2> DEFINE t == RunningSum(counts)
  <2> HIDE DEF t
  <2>1. t = [i \in 0..Len(counts) |-> IF i = 0 THEN 0 ELSE t[i - 1] + counts[i]]
    BY <1>3 DEF t
  <2>2. Sums(counts, t)
    <3>1. t[0] = 0
      BY <2>1
    <3>2. ASSUME NEW i \in 1..Len(counts) PROVE t[i] = t[i - 1] + counts[i]
      <4>1. i \in 0..Len(counts) /\ i # 0
        OBVIOUS
      <4>2. t[i] = IF i = 0 THEN 0 ELSE t[i - 1] + counts[i]
        BY <2>1, <4>1, Zenon
      <4> QED BY <4>1, <4>2
    <3> QED BY <3>1, <3>2 DEF Sums
  <2> QED BY <2>2 DEF t
<1>5. Total(counts) = RunningSum(counts)[Len(counts)]
  BY Zenon DEF Total, RunningSum
<1>6. Len(counts) \in 0..Len(counts)
  OBVIOUS
<1> QED BY <1>1, <1>4, <1>5, <1>6, SumsAgree

LEMMA TotalIsNat ==
  ASSUME NEW counts \in Seq(Nat)
  PROVE  Total(counts) \in Nat
BY SumExists, TotalBySums

LEMMA TotalOfNone == Total(<<>>) = 0
<1> DEFINE f == [i \in 0..0 |-> 0]
<1>1. <<>> \in Seq(Nat) /\ Len(<<>>) = 0 /\ f[0] = 0
  OBVIOUS
<1>2. Sums(<<>>, f)
  BY <1>1 DEF Sums
<1> QED BY <1>1, <1>2, TotalBySums

LEMMA TotalOfAppend ==
  ASSUME NEW counts \in Seq(Nat), NEW k \in Nat
  PROVE  Total(Append(counts, k)) = Total(counts) + k
<1> DEFINE L == Len(counts)
<1>1. PICK f \in [0..L -> Nat] : Sums(counts, f)
  BY SumExists
<1> DEFINE more == Append(counts, k)
           g == [i \in 0..(L + 1) |-> IF i <= L THEN f[i] ELSE f[L] + k]
<1>2. more \in Seq(Nat) /\ Len(more) = L + 1 /\ L \in Nat
      /\ more[L + 1] = k /\ \A i \in 1..L : more[i] = counts[i]
  OBVIOUS
<1>3. Sums(more, g)
  <2> HIDE DEF more
  <2>1. g[0] = 0
    BY <1>1, <1>2 DEF Sums
  <2>2. ASSUME NEW i \in 1..(L + 1) PROVE g[i] = g[i - 1] + more[i]
    <3>1. i \in 0..(L + 1) /\ i - 1 \in 0..(L + 1) /\ i - 1 <= L
      BY <1>2
    <3>2. CASE i <= L
      <4>1. f[i] = f[i - 1] + counts[i]
        BY <1>1, <1>2, <3>2 DEF Sums
      <4> QED BY <1>2, <3>1, <3>2, <4>1
    <3>3. CASE i = L + 1
      BY <1>2, <3>1, <3>3
    <3> QED BY <1>2, <3>2, <3>3
  <2> QED BY <1>2, <2>1, <2>2 DEF Sums
<1>4. g[L + 1] = f[L] + k
  BY <1>2
<1> QED BY <1>1, <1>2, <1>3, <1>4, TotalBySums

LEMMA TotalOfMore ==
  ASSUME NEW counts \in Seq(Nat), NEW j \in 1..Len(counts), NEW k \in Nat
  PROVE  Total([counts EXCEPT ![j] = @ + k]) = Total(counts) + k
<1> DEFINE L == Len(counts)
<1>1. PICK f \in [0..L -> Nat] : Sums(counts, f)
  BY SumExists
<1> DEFINE more == [counts EXCEPT ![j] = @ + k]
           g == [i \in 0..L |-> IF i < j THEN f[i] ELSE f[i] + k]
<1>2. more \in Seq(Nat) /\ Len(more) = L /\ L \in Nat
      /\ \A i \in 1..L : more[i] = IF i = j THEN counts[i] + k ELSE counts[i]
  OBVIOUS
<1>3. Sums(more, g)
  <2> HIDE DEF more
  <2>1. g[0] = 0
    BY <1>1, <1>2 DEF Sums
  <2>2. ASSUME NEW i \in 1..L PROVE g[i] = g[i - 1] + more[i]
    <3>1. i \in 0..L /\ i - 1 \in 0..L
      BY <1>2
    <3>2. counts[i] \in Nat /\ f[i] \in Nat /\ f[i - 1] \in Nat
      <4>1. f[i] \in Nat /\ f[i - 1] \in Nat
        BY <3>1
      <4> QED BY <1>2, <4>1
    <3>3. f[i] = f[i - 1] + counts[i]
      BY <1>1 DEF Sums
    <3>4. /\ g[i] = IF i < j THEN f[i] ELSE f[i] + k
          /\ g[i - 1] = IF i - 1 < j THEN f[i - 1] ELSE f[i - 1] + k
          /\ more[i] = IF i = j THEN counts[i] + k ELSE counts[i]
      BY <1>2, <3>1
    <3> HIDE DEF g
    <3>5. CASE i < j
      <4>1. i - 1 < j /\ i # j
        BY <1>2, <3>5
      <4> QED BY <3>3, <3>4, <3>5, <4>1
    <3>6. CASE i = j
      <4>1. i - 1 < j /\ ~(i < j)
        BY <1>2, <3>6
      <4> QED BY <3>2, <3>3, <3>4, <3>6, <4>1
    <3>7. CASE i > j
      <4>1. ~(i - 1 < j) /\ ~(i < j) /\ i # j
        BY <1>2, <3>7
      <4> QED BY <3>2, <3>3, <3>4, <4>1
    <3> QED BY <1>2, <3>5, <3>6, <3>7
  <2> QED BY <1>2, <2>1, <2>2 DEF Sums
<1>4. g[L] = f[L] + k
  BY <1>2
<1> QED BY <1>1, <1>2, <1>3, <1>4, TotalBySums

LEMMA TotalWithZeros ==
  ASSUME NEW counts \in Seq(Nat), NEW more \in Seq(Nat), Len(counts) <= Len(more),
         \A i \in 1..Len(more) : more[i] = IF i <= Len(counts) THEN counts[i] ELSE 0
  PROVE  Total(more) = Total(counts)
<1> DEFINE L == Len(counts)
           M == Len(more)
<1>1. PICK f \in [0..L -> Nat] : Sums(counts, f)
  BY SumExists
<1> DEFINE g == [i \in 0..M |-> IF i <= L THEN f[i] ELSE f[L]]
<1>2. L \in Nat /\ M \in Nat
  OBVIOUS
<1>3. Sums(more, g)
  <2>1. g[0] = 0
    BY <1>1, <1>2 DEF Sums
  <2>2. ASSUME NEW i \in 1..M PROVE g[i] = g[i - 1] + more[i]
    <3>1. i \in 0..M /\ i - 1 \in 0..M
      BY <1>2
    <3>2. CASE i <= L
      <4>1. f[i] = f[i - 1] + counts[i]
        BY <1>1, <1>2, <3>2 DEF Sums
      <4> QED BY <1>2, <3>1, <3>2, <4>1
    <3>3. CASE i > L
      <4>1. g[i] = f[L] /\ g[i - 1] = f[L] /\ more[i] = 0 /\ f[L] \in Nat
        BY <1>1, <1>2, <3>1, <3>3
      <4> QED BY <4>1
    <3> QED BY <1>2, <3>2, <3>3
  <2> QED BY <2>1, <2>2 DEF Sums
<1>4. g[M] = f[L]
  BY <1>2
<1> QED BY <1>1, <1>2, <1>3, <1>4, TotalBySums

-----------------------------------------------------------------------------
(* Arranged puts every member of a finite set in its place.                    *)

Orders(R, S) ==
  /\ \A x, y \in S : x # y => <<x, y>> \in R \/ <<y, x>> \in R
  /\ \A x, y, z \in S : <<x, y>> \in R /\ <<y, z>> \in R => <<x, z>> \in R
  /\ \A x \in S : <<x, x>> \notin R

InOrder(s, n, R) == \A i, j \in 1..n : i < j => <<s[i], s[j]>> \in R

Sortable(S, R, n) ==
  \A T \in SUBSET S :
    Cardinality(T) = n => \E s \in [1..n -> T] : InOrder(s, n, R)

LEMMA SortableStep ==
  ASSUME NEW S, IsFiniteSet(S), NEW R, Orders(R, S), NEW n \in Nat \ {0},
         Sortable(S, R, n - 1)
  PROVE  Sortable(S, R, n)
<1> SUFFICES ASSUME NEW T \in SUBSET S, Cardinality(T) = n
             PROVE \E s \in [1..n -> T] : InOrder(s, n, R)
  BY DEF Sortable
<1>1. IsFiniteSet(T) /\ T # {}
  BY FS_Subset, FS_EmptySet
<1>2. PICK x \in T : TRUE
  BY <1>1
<1>3. Cardinality(T \ {x}) = n - 1 /\ T \ {x} \in SUBSET S
  BY <1>1, FS_RemoveElement
<1>4. PICK s \in [1..(n - 1) -> T \ {x}] : InOrder(s, n - 1, R)
  BY <1>3 DEF Sortable
<1> DEFINE K == {k \in 1..n : k = n \/ <<x, s[k]>> \in R}
<1>5. K \in SUBSET Nat /\ n \in K
  OBVIOUS
<1>6. PICK k \in K : \A l \in K : k <= l
  BY <1>5, LeastExists
<1>7. k \in 1..n /\ (k = n \/ <<x, s[k]>> \in R)
  BY <1>6
<1>8. \A i \in 1..(n - 1) : s[i] \in T /\ s[i] \in S /\ s[i] # x
  BY <1>4
<1>9. \A i \in 1..(n - 1) : i < k => <<s[i], x>> \in R
  <2> SUFFICES ASSUME NEW i \in 1..(n - 1), i < k PROVE <<s[i], x>> \in R
    OBVIOUS
  <2>1. i \in 1..n /\ i \notin K /\ ~(k <= i)
    BY <1>6, <1>7
  <2>2. <<x, s[i]>> \notin R
    BY <2>1
  <2> QED BY <1>8, <2>2 DEF Orders
<1>10. \A i \in 1..(n - 1) : i >= k => <<x, s[i]>> \in R
  <2> SUFFICES ASSUME NEW i \in 1..(n - 1), i >= k PROVE <<x, s[i]>> \in R
    OBVIOUS
  <2>1. k # n /\ k \in 1..(n - 1) /\ <<x, s[k]>> \in R
    BY <1>7
  <2>2. CASE i = k
    BY <2>1, <2>2
  <2>3. CASE i > k
    <3>1. <<s[k], s[i]>> \in R
      BY <1>4, <2>1, <2>3 DEF InOrder
    <3> QED BY <1>8, <2>1, <3>1 DEF Orders
  <2> QED BY <2>1, <2>2, <2>3
<1> DEFINE q == [i \in 1..n |-> IF i < k THEN s[i] ELSE IF i = k THEN x ELSE s[i - 1]]
<1>11. q \in [1..n -> T]
  <2> SUFFICES ASSUME NEW i \in 1..n PROVE q[i] \in T
    OBVIOUS
  <2>1. i < k => i \in 1..(n - 1)
    BY <1>7
  <2>2. i > k => i - 1 \in 1..(n - 1)
    BY <1>7
  <2> QED BY <1>7, <1>8, <2>1, <2>2
<1>12. ASSUME NEW i \in 1..n, NEW j \in 1..n, i < j PROVE <<q[i], q[j]>> \in R
  <2>1. CASE j < k
    <3>1. i \in 1..(n - 1) /\ j \in 1..(n - 1) /\ q[i] = s[i] /\ q[j] = s[j]
      BY <1>7, <1>12, <2>1
    <3> QED BY <1>4, <1>12, <3>1 DEF InOrder
  <2>2. CASE j = k
    <3>1. i \in 1..(n - 1) /\ q[i] = s[i] /\ q[j] = x /\ i < k
      BY <1>7, <1>12, <2>2
    <3> QED BY <1>9, <3>1
  <2>3. CASE i < k /\ k < j
    <3>1. /\ i \in 1..(n - 1) /\ j - 1 \in 1..(n - 1) /\ j - 1 >= k
          /\ q[i] = s[i] /\ q[j] = s[j - 1]
      BY <1>7, <2>3
    <3>2. <<s[i], x>> \in R /\ <<x, s[j - 1]>> \in R
      BY <1>9, <1>10, <2>3, <3>1
    <3> QED BY <1>8, <3>1, <3>2 DEF Orders
  <2>4. CASE i = k
    <3>1. j - 1 \in 1..(n - 1) /\ j - 1 >= k /\ q[i] = x /\ q[j] = s[j - 1]
      BY <1>7, <1>12, <2>4
    <3> QED BY <1>10, <3>1
  <2>5. CASE k < i
    <3>1. /\ i - 1 \in 1..(n - 1) /\ j - 1 \in 1..(n - 1) /\ i - 1 < j - 1
          /\ q[i] = s[i - 1] /\ q[j] = s[j - 1]
      BY <1>7, <1>12, <2>5
    <3> QED BY <1>4, <3>1 DEF InOrder
  <2> QED BY <1>7, <1>12, <2>1, <2>2, <2>3, <2>4, <2>5
<1>13. InOrder(q, n, R)
  BY <1>12 DEF InOrder
<1> QED BY <1>11, <1>13

LEMMA ArrangedIsOrder ==
  ASSUME NEW S, IsFiniteSet(S), NEW R, Orders(R, S)
  PROVE  /\ Arranged(S, R) \in [1..Cardinality(S) -> S]
         /\ InOrder(Arranged(S, R), Cardinality(S), R)
<1>1. Cardinality(S) \in Nat
  BY FS_CardinalityType
<1> DEFINE Bad == {n \in 0..Cardinality(S) : ~Sortable(S, R, n)}
<1>2. Bad = {}
  <2>1. SUFFICES ASSUME Bad # {} PROVE FALSE
    OBVIOUS
  <2>2. Bad \in SUBSET Nat
    BY <1>1
  <2>3. PICK n \in Bad : \A m \in Bad : n <= m
    BY <2>1, <2>2, LeastExists
  <2>4. CASE n = 0
    <3> SUFFICES ASSUME NEW T \in SUBSET S, Cardinality(T) = 0
                 PROVE \E s \in [1..0 -> T] : InOrder(s, 0, R)
      BY <2>3, <2>4 DEF Sortable
    <3>1. [i \in 1..0 |-> i] \in [1..0 -> T]
      OBVIOUS
    <3>2. InOrder([i \in 1..0 |-> i], 0, R)
      BY DEF InOrder
    <3> QED BY <3>1, <3>2
  <2>5. CASE n # 0
    <3>1. n \in Nat \ {0} /\ n - 1 \in 0..Cardinality(S) /\ ~(n <= n - 1)
      BY <1>1, <2>3, <2>5
    <3>2. Sortable(S, R, n - 1)
      BY <2>3, <3>1
    <3>3. Sortable(S, R, n)
      BY <3>1, <3>2, SortableStep
    <3> QED BY <2>3, <3>3
  <2> QED BY <2>4, <2>5
<1>3. Sortable(S, R, Cardinality(S))
  BY <1>1, <1>2
<1>4. \E s \in [1..Cardinality(S) -> S] :
        \A i, j \in 1..Cardinality(S) : i < j => <<s[i], s[j]>> \in R
  BY <1>3 DEF Sortable, InOrder
<1> QED BY <1>4, Zenon DEF Arranged, InOrder

(* Each member has one place. *)
LEMMA ArrangedIsOnto ==
  ASSUME NEW S, IsFiniteSet(S), NEW R, Orders(R, S)
  PROVE  /\ \A i, j \in 1..Cardinality(S) : Arranged(S, R)[i] = Arranged(S, R)[j] => i = j
         /\ \A x \in S : \E i \in 1..Cardinality(S) : Arranged(S, R)[i] = x
<1> DEFINE n == Cardinality(S)
           s == Arranged(S, R)
<1>1. n \in Nat
  BY FS_CardinalityType
<1>2. s \in [1..n -> S] /\ InOrder(s, n, R)
  BY ArrangedIsOrder
<1>3. \A i, j \in 1..n : s[i] = s[j] => i = j
  <2> SUFFICES ASSUME NEW i \in 1..n, NEW j \in 1..n, s[i] = s[j], i # j PROVE FALSE
    OBVIOUS
  <2>1. s[i] \in S /\ (i < j \/ j < i)
    BY <1>1, <1>2
  <2>2. <<s[i], s[i]>> \in R
    BY <1>2, <2>1 DEF InOrder
  <2> QED BY <2>1, <2>2 DEF Orders
<1>4. s \in Injection(1..n, S)
  BY <1>2, <1>3 DEF Injection, IsInjective
<1>5. IsFiniteSet(1..n) /\ Cardinality(1..n) = n
  BY <1>1, FS_Interval
<1>6. s \in Surjection(1..n, S)
  BY <1>4, <1>5, FS_Injection
<1>7. \A x \in S : \E i \in 1..n : s[i] = x
  BY <1>6 DEF Surjection
<1> QED BY <1>3, <1>7

-----------------------------------------------------------------------------
(* Lists of nodes, and what they add up to. *)

CountsOf(nodes) == [i \in 1..Len(nodes) |-> nodes[i].n]

LEMMA NodeFields ==
  ASSUME NEW node \in Node
  PROVE  /\ node.id \in AllIds /\ node.cls \in Classes /\ node.at \in Places
         /\ node.box \in SUBSET Places /\ node.n \in Nat /\ node.last \in Nat
         /\ node.emb \in AllIds \cup {NoEmb} /\ node.room \in Range(RoomOf) \cup {NoRoom}
BY DEF Node, AllIds

LEMMA CountsAreNats ==
  ASSUME NEW nodes \in Seq(Node)
  PROVE  /\ CountsOf(nodes) \in Seq(Nat) /\ Len(CountsOf(nodes)) = Len(nodes)
         /\ \A i \in 1..Len(nodes) : CountsOf(nodes)[i] = nodes[i].n
         /\ Sightings(nodes) = Total(CountsOf(nodes)) /\ Sightings(nodes) \in Nat
<1>1. \A i \in 1..Len(nodes) : nodes[i].n \in Nat
  <2>1. \A i \in 1..Len(nodes) : nodes[i] \in Node
    OBVIOUS
  <2> QED BY <2>1, NodeFields
<1>2. Len(nodes) \in Nat
  OBVIOUS
<1>3. CountsOf(nodes) \in Seq(Nat) /\ Len(CountsOf(nodes)) = Len(nodes)
  BY <1>1, <1>2 DEF CountsOf
<1>4. \A i \in 1..Len(nodes) : CountsOf(nodes)[i] = nodes[i].n
  BY DEF CountsOf
<1>5. Sightings(nodes) = Total(CountsOf(nodes))
  BY DEF Sightings, CountsOf
<1> QED BY <1>3, <1>4, <1>5, TotalIsNat

(* Nodes that were seen as often, and after them nodes never seen. *)
LEMMA SightingsKept ==
  ASSUME NEW nodes \in Seq(Node), NEW more \in Seq(Node), Len(nodes) <= Len(more),
         \A i \in 1..Len(more) : more[i].n = IF i <= Len(nodes) THEN nodes[i].n ELSE 0
  PROVE  Sightings(more) = Sightings(nodes)
<1> DEFINE a == CountsOf(nodes)
           b == CountsOf(more)
<1>1. a \in Seq(Nat) /\ b \in Seq(Nat) /\ Len(a) = Len(nodes) /\ Len(b) = Len(more)
  BY CountsAreNats
<1>2. \A i \in 1..Len(b) : b[i] = IF i <= Len(a) THEN a[i] ELSE 0
  <2> SUFFICES ASSUME NEW i \in 1..Len(more)
               PROVE b[i] = IF i <= Len(nodes) THEN a[i] ELSE 0
    BY <1>1
  <2>1. b[i] = more[i].n
    BY CountsAreNats
  <2>2. i <= Len(nodes) => i \in 1..Len(nodes) /\ a[i] = nodes[i].n
    <3>1. Len(nodes) \in Nat
      OBVIOUS
    <3> QED BY <3>1, CountsAreNats
  <2> QED BY <2>1, <2>2
<1>3. Total(b) = Total(a)
  <2> HIDE DEF a, b
  <2> QED BY <1>1, <1>2, TotalWithZeros
<1> QED BY <1>3, CountsAreNats

LEMMA SightingsOfAppend ==
  ASSUME NEW nodes \in Seq(Node), NEW node \in Node
  PROVE  Sightings(Append(nodes, node)) = Sightings(nodes) + node.n
<1> DEFINE more == Append(nodes, node)
<1>1. /\ more \in Seq(Node) /\ Len(more) = Len(nodes) + 1 /\ Len(nodes) \in Nat
      /\ more[Len(nodes) + 1] = node /\ \A i \in 1..Len(nodes) : more[i] = nodes[i]
  OBVIOUS
<1>2. node.n \in Nat
  BY DEF Node
<1>3. CountsOf(more) = Append(CountsOf(nodes), node.n)
  <2> DEFINE a == CountsOf(nodes)
             b == CountsOf(more)
             c == Append(a, node.n)
  <2>1. a \in Seq(Nat) /\ Len(a) = Len(nodes) /\ \A i \in 1..Len(nodes) : a[i] = nodes[i].n
    BY CountsAreNats
  <2>2. b \in Seq(Nat) /\ Len(b) = Len(more) /\ \A i \in 1..Len(more) : b[i] = more[i].n
    BY <1>1, CountsAreNats
  <2> HIDE DEF a, b, more
  <2>3. c \in Seq(Nat) /\ Len(c) = Len(nodes) + 1
        /\ c[Len(nodes) + 1] = node.n /\ \A i \in 1..Len(nodes) : c[i] = a[i]
    BY <1>2, <2>1
  <2>4. \A i \in 1..(Len(nodes) + 1) : b[i] = c[i]
    <3> SUFFICES ASSUME NEW i \in 1..(Len(nodes) + 1) PROVE b[i] = c[i]
      OBVIOUS
    <3>1. i \in 1..Len(nodes) \/ i = Len(nodes) + 1
      BY <1>1
    <3> QED BY <1>1, <2>1, <2>2, <2>3, <3>1
  <2>5. b = c
    BY <1>1, <2>2, <2>3, <2>4
  <2> QED BY <2>5 DEF a, b
<1>4. CountsOf(nodes) \in Seq(Nat)
  BY CountsAreNats
<1>5. Total(CountsOf(more)) = Total(CountsOf(nodes)) + node.n
  BY <1>2, <1>3, <1>4, TotalOfAppend
<1>6. Sightings(nodes) = Total(CountsOf(nodes)) /\ Sightings(more) = Total(CountsOf(more))
  BY <1>1, CountsAreNats
<1> QED BY <1>5, <1>6

LEMMA SightingsOfUpdate ==
  ASSUME NEW nodes \in Seq(Node), NEW j \in 1..Len(nodes), NEW node \in Node,
         NEW k \in Nat, node.n = nodes[j].n + k
  PROVE  Sightings([nodes EXCEPT ![j] = node]) = Sightings(nodes) + k
<1> DEFINE more == [nodes EXCEPT ![j] = node]
<1>1. /\ more \in Seq(Node) /\ Len(more) = Len(nodes) /\ Len(nodes) \in Nat
      /\ \A i \in 1..Len(nodes) : more[i] = IF i = j THEN node ELSE nodes[i]
  OBVIOUS
<1>2. CountsOf(more) = [CountsOf(nodes) EXCEPT ![j] = @ + k]
  <2> DEFINE a == CountsOf(nodes)
             b == CountsOf(more)
             c == [a EXCEPT ![j] = @ + k]
  <2>1. a \in Seq(Nat) /\ Len(a) = Len(nodes) /\ \A i \in 1..Len(nodes) : a[i] = nodes[i].n
    BY CountsAreNats
  <2>2. b \in Seq(Nat) /\ Len(b) = Len(more) /\ \A i \in 1..Len(more) : b[i] = more[i].n
    BY <1>1, CountsAreNats
  <2> HIDE DEF a, b, more
  <2>3. c \in Seq(Nat) /\ Len(c) = Len(nodes)
        /\ \A i \in 1..Len(nodes) : c[i] = IF i = j THEN a[i] + k ELSE a[i]
    BY <2>1
  <2>4. Len(b) = Len(c) /\ \A i \in 1..Len(b) : b[i] = c[i]
    BY <1>1, <2>1, <2>2, <2>3
  <2>5. b = c
    BY <2>2, <2>3, <2>4, SMTT(30)
  <2> QED BY <2>5 DEF a, b, c
<1>3. CountsOf(nodes) \in Seq(Nat) /\ j \in 1..Len(CountsOf(nodes))
  BY CountsAreNats
<1>4. Total(CountsOf(more)) = Total(CountsOf(nodes)) + k
  BY <1>2, <1>3, TotalOfMore
<1>5. Sightings(nodes) = Total(CountsOf(nodes)) /\ Sightings(more) = Total(CountsOf(more))
  BY <1>1, CountsAreNats
<1> QED BY <1>4, <1>5

-----------------------------------------------------------------------------
(* What merging, capping, seeding, stamping and loading make of a list. *)

Distinct(nodes) == \A i, j \in 1..Len(nodes) : nodes[i].id = nodes[j].id => i = j
Issued(nodes, next) == \A i \in 1..Len(nodes) : nodes[i].id \in Nat => nodes[i].id < next

LEMMA ObservationFields ==
  ASSUME NEW obs \in Observation
  PROVE  /\ obs.cls \in Classes /\ obs.at \in Places /\ obs.last \in Nat
         /\ obs.n \in Nat /\ obs.emb \in BOOLEAN
BY DEF Observation

LEMMA ClosestInReach ==
  ASSUME NEW nodes \in Seq(Node), NEW obs \in Observation, InReach(nodes, obs) # {}
  PROVE  Closest(nodes, obs) \in InReach(nodes, obs)
<1> DEFINE I == InReach(nodes, obs)
           d(i) == AbsDiff(nodes[i].at, obs.at)
<1>1. I \in SUBSET (1..Len(nodes)) /\ Len(nodes) \in Nat
  BY DEF InReach, SameClass
<1>2. \A i \in I : d(i) \in Nat
  <2> SUFFICES ASSUME NEW i \in I PROVE d(i) \in Nat
    OBVIOUS
  <2>1. nodes[i] \in Node
    BY <1>1
  <2>2. nodes[i].at \in Int /\ obs.at \in Int
    BY <2>1, NodeFields, ObservationFields, SceneAssumption DEF Places
  <2> QED BY <2>2 DEF AbsDiff
<1> HIDE DEF I, d
<1>3. {d(i) : i \in I} \in SUBSET Nat /\ {d(i) : i \in I} # {}
  BY <1>2 DEF I
<1>4. PICK m \in {d(i) : i \in I} : \A e \in {d(i) : i \in I} : m <= e
  BY <1>3, LeastExists
<1> DEFINE E == {i \in I : d(i) = m}
<1>5. E \in SUBSET (0..Len(nodes)) /\ E # {}
  BY <1>1, <1>4
<1>6. PICK i \in E : \A j \in E : j <= i
  BY <1>1, <1>5, MaxIsGreatest
<1>7. \A j \in I \ {i} : d(i) < d(j) \/ (d(i) = d(j) /\ j < i)
  <2> SUFFICES ASSUME NEW j \in I \ {i} PROVE d(i) < d(j) \/ (d(i) = d(j) /\ j < i)
    OBVIOUS
  <2>1. d(i) = m /\ m <= d(j) /\ d(i) \in Nat /\ d(j) \in Nat
    BY <1>2, <1>4, <1>6
  <2>2. d(j) = m => j <= i /\ j # i /\ j \in Nat /\ i \in Nat
    BY <1>1, <1>6
  <2> QED BY <2>1, <2>2
<1>8. i \in I
  BY <1>6
<1>9. \E x \in I : \A j \in I \ {x} :
        LET dx == AbsDiff(nodes[x].at, obs.at)
            dj == AbsDiff(nodes[j].at, obs.at)
        IN  dx < dj \/ (dx = dj /\ j < x)
  BY <1>7, <1>8 DEF d
<1> QED BY <1>9, Zenon DEF Closest, I

LEMMA UpdatedIsNode ==
  ASSUME NEW node \in Node, NEW obs \in Observation, NEW u \in UpdatedNodes(node, obs)
  PROVE  u \in Node /\ u.n = node.n + obs.n /\ u.id = node.id
<1> DEFINE box == IF node.cloud THEN Hull(node.box \cup {obs.at}) ELSE {obs.at}
<1>1. obs.at \in Places /\ obs.last \in Nat /\ obs.n \in Nat
  BY ObservationFields
<1>2. node.n \in Nat /\ node.last \in Nat /\ node.id \in AllIds
      /\ node.emb \in AllIds \cup {NoEmb}
  BY NodeFields
<1>3. box \in SUBSET Places
  BY <1>1 DEF Hull
<1>4. PICK p \in box :
        u = [node EXCEPT !.n = @ + obs.n,
               !.last = IF obs.last > @ THEN obs.last ELSE @,
               !.emb = IF obs.emb /\ (@ = NoEmb \/ node.n = 0) THEN node.id ELSE @,
               !.box = box, !.at = p, !.cloud = TRUE]
  BY DEF UpdatedNodes
<1> DEFINE n == node.n + obs.n
           last == IF obs.last > node.last THEN obs.last ELSE node.last
           emb == IF obs.emb /\ (node.emb = NoEmb \/ node.n = 0) THEN node.id ELSE node.emb
<1>5. n \in Nat /\ last \in Nat /\ emb \in AllIds \cup {NoEmb}
  BY <1>1, <1>2
<1>6. u = [node EXCEPT !.n = n, !.last = last, !.emb = emb, !.box = box, !.at = p,
                       !.cloud = TRUE]
  BY <1>4
<1> HIDE DEF n, last, emb, box
<1>7. u \in Node /\ u.n = n /\ u.id = node.id
  BY <1>3, <1>5, <1>6 DEF Node, AllIds
<1> QED BY <1>7 DEF n

LEMMA FreshIsNode ==
  ASSUME NEW obs \in Observation, NEW id \in Nat
  PROVE  NodeFromObs(obs, id) \in Node /\ NodeFromObs(obs, id).n = obs.n
         /\ NodeFromObs(obs, id).id = id
BY ObservationFields DEF NodeFromObs, Node, AllIds

(* One observation folded in adds its sightings, to a node or as a new one.    *)
LEMMA FoldAddsUp ==
  ASSUME NEW nodes \in Seq(Node), NEW obs \in Observation, NEW id \in Nat,
         NEW d \in Fold(nodes, obs, id)
  PROVE  /\ d \in Seq(Node) /\ Sightings(d) = Sightings(nodes) + obs.n
         /\ \/ /\ Len(d) = Len(nodes)
               /\ \A i \in 1..Len(nodes) : d[i].id = nodes[i].id
            \/ /\ Len(d) = Len(nodes) + 1 /\ d[Len(d)].id = id
               /\ \A i \in 1..Len(nodes) : d[i].id = nodes[i].id
<1>1. obs.n \in Nat
  BY ObservationFields
<1>2. ASSUME NEW j \in 1..Len(nodes), NEW u \in UpdatedNodes(nodes[j], obs),
             d = [nodes EXCEPT ![j] = u]
      PROVE  /\ d \in Seq(Node) /\ Sightings(d) = Sightings(nodes) + obs.n
             /\ Len(d) = Len(nodes) /\ \A i \in 1..Len(nodes) : d[i].id = nodes[i].id
  <2>1. nodes[j] \in Node
    OBVIOUS
  <2>2. u \in Node /\ u.n = nodes[j].n + obs.n /\ u.id = nodes[j].id
    BY <2>1, UpdatedIsNode
  <2>3. Sightings(d) = Sightings(nodes) + obs.n
    BY <1>1, <1>2, <2>2, SightingsOfUpdate
  <2>4. d \in Seq(Node) /\ Len(d) = Len(nodes)
        /\ \A i \in 1..Len(nodes) : d[i] = IF i = j THEN u ELSE nodes[i]
    BY <1>2, <2>2
  <2> QED BY <2>2, <2>3, <2>4
<1>3. CASE InReach(nodes, obs) # {}
  <2>1. Closest(nodes, obs) \in 1..Len(nodes)
    BY <1>3, ClosestInReach DEF InReach, SameClass
  <2>2. PICK u \in UpdatedNodes(nodes[Closest(nodes, obs)], obs) :
          d = [nodes EXCEPT ![Closest(nodes, obs)] = u]
    BY <1>3 DEF Fold
  <2> QED BY <1>2, <2>1, <2>2
<1>4. CASE InReach(nodes, obs) = {} /\ Boxed(nodes, obs) # {}
  <2>1. Boxed(nodes, obs) \in SUBSET Nat /\ Boxed(nodes, obs) \subseteq 1..Len(nodes)
    BY DEF Boxed, SameClass
  <2>2. Min(Boxed(nodes, obs)) \in 1..Len(nodes)
    BY <1>4, <2>1, MinIsLeast
  <2>3. PICK u \in UpdatedNodes(nodes[Min(Boxed(nodes, obs))], obs) :
          d = [nodes EXCEPT ![Min(Boxed(nodes, obs))] = u]
    BY <1>4 DEF Fold
  <2> QED BY <1>2, <2>2, <2>3
<1>5. CASE InReach(nodes, obs) = {} /\ Boxed(nodes, obs) = {}
  <2> DEFINE new == NodeFromObs(obs, id)
  <2>1. d = Append(nodes, new)
    BY <1>5 DEF Fold
  <2>2. new \in Node /\ new.n = obs.n /\ new.id = id
    BY FreshIsNode
  <2> HIDE DEF new
  <2>3. Sightings(d) = Sightings(nodes) + obs.n
    BY <2>1, <2>2, SightingsOfAppend
  <2>4. d \in Seq(Node) /\ Len(d) = Len(nodes) + 1 /\ d[Len(d)] = new
        /\ \A i \in 1..Len(nodes) : d[i] = nodes[i]
    BY <2>1, <2>2
  <2> QED BY <2>2, <2>3, <2>4
<1> QED BY <1>3, <1>4, <1>5

LEMMA PrecedesOrders ==
  ASSUME NEW nodes \in Seq(Node)
  PROVE  /\ Orders(Precedes(nodes), 1..Len(nodes))
         /\ IsFiniteSet(1..Len(nodes)) /\ Cardinality(1..Len(nodes)) = Len(nodes)
<1> DEFINE S == 1..Len(nodes)
           R == Precedes(nodes)
<1>1. Len(nodes) \in Nat /\ \A i \in S : i \in Nat /\ nodes[i].last \in Nat
  <2>1. \A i \in S : nodes[i] \in Node
    OBVIOUS
  <2> QED BY <2>1, NodeFields
<1>2. \A i, j \in S : <<i, j>> \in R <=>
        IF IsMap(nodes[i]) \/ IsMap(nodes[j])
        THEN IsMap(nodes[i]) /\ (IsMap(nodes[j]) => i < j)
        ELSE nodes[i].last > nodes[j].last \/ (nodes[i].last = nodes[j].last /\ i < j)
  BY DEF Precedes
<1> HIDE DEF R, S
<1>3. \A x, y \in S : x # y => <<x, y>> \in R \/ <<y, x>> \in R
  BY <1>1, <1>2
<1>4. \A x, y, z \in S : <<x, y>> \in R /\ <<y, z>> \in R => <<x, z>> \in R
  <2> SUFFICES ASSUME NEW x \in S, NEW y \in S, NEW z \in S,
                      <<x, y>> \in R, <<y, z>> \in R
               PROVE  <<x, z>> \in R
    OBVIOUS
  <2>1. CASE IsMap(nodes[x])
    BY <1>1, <1>2, <2>1
  <2>2. CASE ~IsMap(nodes[x])
    BY <1>1, <1>2, <2>2
  <2> QED BY <2>1, <2>2
<1>5. \A x \in S : <<x, x>> \notin R
  BY <1>1, <1>2
<1>6. Orders(R, S)
  BY <1>3, <1>4, <1>5 DEF Orders
<1>7. IsFiniteSet(1..Len(nodes)) /\ Cardinality(1..Len(nodes)) = Len(nodes)
  BY <1>1, FS_Interval
<1> QED BY <1>6, <1>7 DEF R, S

(* The nodes the cap keeps are some of the list's, each once; of the perceived *)
(* ones none is staler than one it drops.                                      *)
LEMMA CappedKeepsNewest ==
  ASSUME NEW nodes \in Seq(Node), NEW d, d = Capped(nodes)
  PROVE  /\ d \in Seq(Node)
         /\ Distinct(nodes) => Distinct(d)
         /\ \A next \in Nat : Issued(nodes, next) => Issued(d, next)
         /\ Distinct(nodes) => \A i, j \in 1..Len(nodes) :
              /\ nodes[i].id \notin Ids(d)
              /\ nodes[j].id \in Ids(d) /\ ~IsMap(nodes[j])
              => nodes[i].last <= nodes[j].last
         /\ \A k \in 1..Len(d) : \E i \in 1..Len(nodes) : d[k] = nodes[i]
         /\ \A i \in 1..Len(nodes) : IsMap(nodes[i]) => \E k \in 1..Len(d) : d[k] = nodes[i]
<1>1. CASE Cap = 0 \/ Len(nodes) <= Cap
  <2>1. d = nodes
    BY <1>1 DEF Capped
  <2>2. \A i \in 1..Len(nodes) : nodes[i].id \in Ids(nodes)
    BY DEF Ids
  <2> QED BY <2>1, <2>2
<1>2. CASE ~(Cap = 0 \/ Len(nodes) <= Cap)
  <2> DEFINE n == Len(nodes)
             order == Arranged(1..n, Precedes(nodes))
             maps == {k \in 1..n : IsMap(nodes[order[k]])}
             kept == KeptOf(nodes, order)
  <2>1. n \in Nat /\ Cap \in Nat /\ Cap < n
    BY <1>2, SceneAssumption
  <2>2. order \in [1..n -> 1..n] /\ InOrder(order, n, Precedes(nodes))
    BY PrecedesOrders, ArrangedIsOrder
  <2>3. /\ \A i, j \in 1..n : order[i] = order[j] => i = j
        /\ \A x \in 1..n : \E i \in 1..n : order[i] = x
    BY PrecedesOrders, ArrangedIsOnto
  <2>4. d = [k \in 1..kept |-> nodes[order[k]]]
    BY <1>2 DEF Capped
  <2>5. kept = Max({Cap} \cup maps)
    BY DEF KeptOf
  <2> HIDE DEF order, kept, n
  <2>6. kept \in 0..n /\ \A k \in 1..n : IsMap(nodes[order[k]]) => k <= kept
    <3>1. ({Cap} \cup maps) \in SUBSET (0..n) /\ {Cap} \cup maps # {}
      BY <2>1
    <3> HIDE DEF maps
    <3>2. kept \in {Cap} \cup maps /\ \A k \in {Cap} \cup maps : k <= kept
      BY <2>1, <2>5, <3>1, MaxIsGreatest
    <3> QED BY <3>1, <3>2 DEF maps
  <2>7. \A k \in 1..kept : k \in 1..n /\ order[k] \in 1..n /\ nodes[order[k]] \in Node
    BY <2>1, <2>2, <2>6 DEF n
  <2>8. d \in Seq(Node) /\ Len(d) = kept /\ \A k \in 1..kept : d[k] = nodes[order[k]]
    BY <2>4, <2>6, <2>7
  <2>9. Distinct(nodes) => Distinct(d)
    <3> SUFFICES ASSUME Distinct(nodes), NEW i \in 1..kept, NEW j \in 1..kept, d[i].id = d[j].id
                 PROVE  i = j
      BY <2>8 DEF Distinct
    <3>1. order[i] \in 1..n /\ order[j] \in 1..n /\ i \in 1..n /\ j \in 1..n
      BY <2>7
    <3>2. nodes[order[i]].id = nodes[order[j]].id
      BY <2>8
    <3>3. order[i] = order[j]
      BY <3>1, <3>2 DEF Distinct, n
    <3> QED BY <2>3, <3>1, <3>3
  <2>10. \A next \in Nat : Issued(nodes, next) => Issued(d, next)
    BY <2>7, <2>8 DEF Issued, n
  <2>11. ASSUME Distinct(nodes), NEW i \in 1..n, NEW j \in 1..n, nodes[i].id \notin Ids(d),
                nodes[j].id \in Ids(d), ~IsMap(nodes[j])
         PROVE  nodes[i].last <= nodes[j].last
    <3>1. PICK k \in 1..kept : nodes[j].id = nodes[order[k]].id
      BY <2>8, <2>11 DEF Ids
    <3>2. j = order[k] /\ k \in 1..n
      BY <2>7, <2>11, <3>1 DEF Distinct, n
    <3>3. PICK m \in 1..n : order[m] = i
      BY <2>3
    <3>4. m \notin 1..kept
      <4> SUFFICES ASSUME m \in 1..kept PROVE FALSE
        OBVIOUS
      <4>1. d[m].id = nodes[i].id
        BY <2>8, <3>3
      <4> QED BY <2>8, <2>11, <4>1 DEF Ids
    <3>5. m > kept /\ k < m
      BY <2>1, <2>6, <3>1, <3>4
    <3>6. ~IsMap(nodes[i])
      BY <2>1, <2>6, <3>3, <3>5
    <3>7. <<j, i>> \in Precedes(nodes)
      BY <2>2, <3>2, <3>3, <3>5 DEF InOrder
    <3>8. nodes[i].last \in Nat /\ nodes[j].last \in Nat
      <4>1. nodes[i] \in Node /\ nodes[j] \in Node
        BY DEF n
      <4> QED BY <4>1, NodeFields
    <3>9. nodes[j].last > nodes[i].last \/ nodes[j].last = nodes[i].last
      BY <2>11, <3>6, <3>7 DEF Precedes
    <3> QED BY <3>8, <3>9
  <2>12. Distinct(nodes) => \A i, j \in 1..Len(nodes) :
           /\ nodes[i].id \notin Ids(d)
           /\ nodes[j].id \in Ids(d) /\ ~IsMap(nodes[j])
           => nodes[i].last <= nodes[j].last
    BY <2>11 DEF n
  <2>13. \A k \in 1..Len(d) : \E i \in 1..Len(nodes) : d[k] = nodes[i]
    BY <2>7, <2>8 DEF n
  <2>14. ASSUME NEW i \in 1..Len(nodes), IsMap(nodes[i])
         PROVE  \E k \in 1..Len(d) : d[k] = nodes[i]
    <3>1. PICK k \in 1..n : order[k] = i
      BY <2>3 DEF n
    <3>2. k \in 1..kept
      BY <2>1, <2>6, <2>14, <3>1
    <3> QED BY <2>8, <3>1, <3>2
  <2> QED BY <2>8, <2>9, <2>10, <2>12, <2>13, <2>14
<1> QED BY <1>1, <1>2

(* A placeholder as the survey has it. *)
FreshOf(node, survey) ==
  /\ node.n = 0 /\ IsMap(node) /\ node.cloud = FALSE
  /\ node.id \in MapNames /\ node.id \in DOMAIN survey /\ node.box = survey[node.id]

LEMMA MapNodeIsNode ==
  ASSUME NEW m \in MapNames \X Classes, NEW survey \in Surveys, m[1] \in DOMAIN survey,
         NEW embeds \in BOOLEAN, NEW cached \in AllIds \cup {NoEmb}
  PROVE  /\ MapNode(m, survey, embeds, cached) \in Node
         /\ MapNode(m, survey, embeds, cached).n = 0
         /\ MapNode(m, survey, embeds, cached).id = m[1]
         /\ FreshOf(MapNode(m, survey, embeds, cached), survey)
         /\ cached # NoEmb => MapNode(m, survey, embeds, cached).emb # NoEmb
<1> DEFINE box == survey[m[1]]
           at == (Min(box) + Max(box)) \div 2
           emb == IF embeds THEN m[1] ELSE cached
<1>1. box # {} /\ box \in SUBSET Places /\ LastPlace \in Nat /\ Places = 0..LastPlace
  BY SceneAssumption DEF Places
<1>2. box \in SUBSET Nat /\ box \in SUBSET (0..LastPlace)
  BY <1>1
<1> HIDE DEF box
<1>3. Min(box) \in 0..LastPlace
  BY <1>1, <1>2, MinIsLeast
<1>4. Max(box) \in 0..LastPlace
  BY <1>1, <1>2, MaxIsGreatest
<1>5. at \in Places
  BY <1>1, <1>3, <1>4
<1> HIDE DEF at
<1>6. m[1] \in MapNames /\ m[2] \in Classes
  OBVIOUS
<1>7. emb \in Nat \cup MapNames \cup {NoEmb}
  BY <1>6 DEF AllIds
<1>9. cached # NoEmb => emb # NoEmb
  BY <1>6, SceneAssumption
<1> HIDE DEF emb
<1>8. MapNode(m, survey, embeds, cached) =
        [id |-> m[1], cls |-> m[2], at |-> at, box |-> box, cloud |-> FALSE, n |-> 0,
         last |-> 0, src |-> "map", emb |-> emb, room |-> NoRoom]
  BY DEF MapNode, at, box, emb
<1>10. FreshOf(MapNode(m, survey, embeds, cached), survey)
  BY <1>6, <1>8 DEF FreshOf, IsMap, box
<1> QED BY <1>1, <1>5, <1>6, <1>7, <1>8, <1>9, <1>10 DEF Node

(* Seeding adds no sighting, and changes no node that was seen.                *)
LEMMA MissingAreFresh ==
  ASSUME NEW nodes \in Seq(Node), NEW survey \in Surveys, NEW embeds \in BOOLEAN,
         NEW more, more = MissingNodes(nodes, survey, embeds)
  PROVE  /\ more \in Seq(Node) /\ Distinct(more)
         /\ \A i \in 1..Len(more) :
              more[i].n = 0 /\ more[i].id \in MapNames /\ more[i].id \notin Ids(nodes)
         /\ \A i \in 1..Len(more) : FreshOf(more[i], survey)
         /\ \A m \in DOMAIN survey \ Ids(nodes) : \E i \in 1..Len(more) : more[i].id = m
<1> DEFINE missing == {k \in 1..Len(MapObjects) :
                         MapObjects[k][1] \in DOMAIN survey \ Ids(nodes)}
           R == {p \in missing \X missing : p[1] < p[2]}
           c == Cardinality(missing)
           order == Arranged(missing, R)
<1>1. MapObjects \in Seq(MapNames \X Classes) /\ Len(MapObjects) \in Nat
  BY SceneAssumption
<1>2. IsFiniteSet(missing) /\ missing \in SUBSET Nat
  <2>1. IsFiniteSet(1..Len(MapObjects))
    BY <1>1, FS_Interval
  <2> QED BY <1>1, <2>1, FS_Subset
<1>3. c \in Nat
  BY <1>2, FS_CardinalityType
<1>4. Orders(R, missing)
  <2> HIDE DEF missing
  <2>1. \A x, y \in missing : <<x, y>> \in R <=> x < y
    OBVIOUS
  <2> HIDE DEF R
  <2> QED BY <1>2, <2>1 DEF Orders
<1>5. /\ order \in [1..c -> missing]
      /\ \A i, j \in 1..c : order[i] = order[j] => i = j
      /\ \A k \in missing : \E i \in 1..c : order[i] = k
  <2> HIDE DEF missing, R
  <2> QED BY <1>2, <1>4, ArrangedIsOrder, ArrangedIsOnto
<1>6. more = [i \in 1..c |-> MapNode(MapObjects[order[i]], survey, embeds, NoEmb)]
  BY DEF MissingNodes
<1> HIDE DEF c, order, R
<1>7. ASSUME NEW i \in 1..c
      PROVE  LET m == MapObjects[order[i]] IN
             /\ m \in MapNames \X Classes /\ m[1] \in DOMAIN survey /\ m[1] \notin Ids(nodes)
             /\ more[i] \in Node /\ more[i].n = 0 /\ more[i].id = m[1]
             /\ FreshOf(more[i], survey)
  <2> DEFINE m == MapObjects[order[i]]
  <2>1. order[i] \in missing
    BY <1>5
  <2>2. m \in MapNames \X Classes /\ m[1] \in DOMAIN survey /\ m[1] \notin Ids(nodes)
    BY <1>1, <2>1
  <2>3. more[i] = MapNode(m, survey, embeds, NoEmb)
    BY <1>6
  <2> HIDE DEF m
  <2>4. more[i] \in Node /\ more[i].n = 0 /\ more[i].id = m[1] /\ FreshOf(more[i], survey)
    <3>1. NoEmb \in AllIds \cup {NoEmb} /\ m[1] \in DOMAIN survey
      BY <2>2
    <3> HIDE DEF FreshOf
    <3> QED BY <2>2, <2>3, <3>1, MapNodeIsNode
  <2> QED BY <2>2, <2>4 DEF m
<1>8. more \in Seq(Node) /\ Len(more) = c
  <2>1. \A i \in 1..c : more[i] \in Node
    BY <1>7
  <2>2. DOMAIN more = 1..c /\ more = [i \in 1..c |-> more[i]]
    BY <1>6
  <2> QED BY <1>3, <2>1, <2>2
<1>9. Distinct(more)
  <2> SUFFICES ASSUME NEW i \in 1..c, NEW j \in 1..c, more[i].id = more[j].id PROVE i = j
    BY <1>8 DEF Distinct
  <2>1. MapObjects[order[i]][1] = MapObjects[order[j]][1]
    BY <1>7
  <2>2. order[i] \in 1..Len(MapObjects) /\ order[j] \in 1..Len(MapObjects)
    BY <1>5
  <2>3. order[i] = order[j]
    BY <2>1, <2>2, SceneAssumption
  <2> QED BY <1>5, <2>3
<1>10. \A i \in 1..c :
         more[i].n = 0 /\ more[i].id \in MapNames /\ more[i].id \notin Ids(nodes)
  BY <1>7
<1>11. ASSUME NEW m \in DOMAIN survey \ Ids(nodes) PROVE \E i \in 1..c : more[i].id = m
  <2>1. m \in MapNames
    BY SceneAssumption
  <2>2. PICK k \in 1..Len(MapObjects) : MapObjects[k][1] = m
    BY <2>1 DEF MapNames
  <2>3. k \in missing
    BY <2>2
  <2>4. PICK i \in 1..c : order[i] = k
    BY <1>5, <2>3
  <2> QED BY <1>7, <2>2, <2>4
<1> QED BY <1>7, <1>8, <1>9, <1>10, <1>11

LEMMA Concatenated ==
  ASSUME NEW T, NEW a \in Seq(T), NEW b \in Seq(T)
  PROVE  /\ a \o b \in Seq(T) /\ Len(a \o b) = Len(a) + Len(b) /\ Len(b) \in Nat
         /\ \A i \in 1..(Len(a) + Len(b)) :
              (a \o b)[i] = IF i <= Len(a) THEN a[i] ELSE b[i - Len(a)]
OBVIOUS

LEMMA SeededKeeps ==
  ASSUME NEW nodes \in Seq(Node), NEW survey \in Surveys, NEW embeds \in BOOLEAN,
         NEW d, d = Seeded(nodes, survey, embeds)
  PROVE  /\ d \in Seq(Node) /\ Sightings(d) = Sightings(nodes)
         /\ Len(nodes) <= Len(d)
         /\ \A i \in 1..Len(nodes) : nodes[i].n > 0 => d[i] = nodes[i]
         /\ Distinct(nodes) => Distinct(d)
         /\ \A next \in Nat : Issued(nodes, next) => Issued(d, next)
         /\ \A i \in 1..Len(nodes) : d[i].id = nodes[i].id /\ d[i].n = nodes[i].n
         /\ \A i \in 1..Len(nodes) :
              \/ d[i] = nodes[i] /\ ~(Surveyed(nodes[i].id, survey) /\ nodes[i].n = 0)
              \/ FreshOf(d[i], survey) /\ (nodes[i].emb # NoEmb => d[i].emb # NoEmb)
         /\ \A i \in 1..Len(d) : i \in 1..Len(nodes) \/ FreshOf(d[i], survey)
         /\ \A m \in DOMAIN survey : \E i \in 1..Len(d) : d[i].id = m
<1> DEFINE new(i) == IF Surveyed(nodes[i].id, survey) /\ nodes[i].n = 0
                     THEN MapNode(MapObject(nodes[i].id), survey, embeds, nodes[i].emb)
                     ELSE nodes[i]
           old == [i \in 1..Len(nodes) |-> new(i)]
           more == MissingNodes(nodes, survey, embeds)
           n == Len(nodes)
<1>1. n \in Nat
  OBVIOUS
<1>2. ASSUME NEW i \in 1..n
      PROVE  /\ new(i) \in Node /\ new(i).n = nodes[i].n /\ new(i).id = nodes[i].id
             /\ nodes[i].n > 0 => new(i) = nodes[i]
             /\ \/ new(i) = nodes[i] /\ ~(Surveyed(nodes[i].id, survey) /\ nodes[i].n = 0)
                \/ FreshOf(new(i), survey) /\ (nodes[i].emb # NoEmb => new(i).emb # NoEmb)
  <2>1. nodes[i] \in Node
    OBVIOUS
  <2>2. CASE Surveyed(nodes[i].id, survey) /\ nodes[i].n = 0
    <3> DEFINE m == MapObject(nodes[i].id)
    <3>1. nodes[i].id \in MapNames /\ nodes[i].id \in DOMAIN survey
      BY <2>2 DEF Surveyed
    <3>2. \E x \in Range(MapObjects) : x[1] = nodes[i].id
      BY <3>1, SceneAssumption DEF MapNames, Range
    <3>3. m \in Range(MapObjects) /\ m[1] = nodes[i].id
      BY <3>2 DEF MapObject
    <3>4. m \in MapNames \X Classes
      BY <3>3, SceneAssumption DEF Range
    <3>5. nodes[i].emb \in AllIds \cup {NoEmb}
      BY <2>1, NodeFields
    <3>6. new(i) = MapNode(m, survey, embeds, nodes[i].emb)
      BY <2>2
    <3> HIDE DEF m
    <3>7. /\ new(i) \in Node /\ new(i).n = 0 /\ new(i).id = m[1]
          /\ FreshOf(new(i), survey) /\ (nodes[i].emb # NoEmb => new(i).emb # NoEmb)
      BY <3>1, <3>3, <3>4, <3>5, <3>6, MapNodeIsNode
    <3> QED BY <2>2, <3>3, <3>7
  <2>3. CASE ~(Surveyed(nodes[i].id, survey) /\ nodes[i].n = 0)
    BY <2>1, <2>3
  <2> QED BY <2>2, <2>3
<1>3. d = old \o more
  BY DEF Seeded
<1>4. /\ more \in Seq(Node) /\ Distinct(more)
      /\ \A i \in 1..Len(more) :
           more[i].n = 0 /\ more[i].id \in MapNames /\ more[i].id \notin Ids(nodes)
      /\ \A i \in 1..Len(more) : FreshOf(more[i], survey)
      /\ \A m \in DOMAIN survey \ Ids(nodes) : \E i \in 1..Len(more) : more[i].id = m
  BY MissingAreFresh
<1> HIDE DEF new, more
<1>5. /\ old \in Seq(Node) /\ Len(old) = n
      /\ \A i \in 1..n : old[i] = new(i)
  BY <1>1, <1>2
<1> HIDE DEF old
<1>6. /\ d \in Seq(Node) /\ Len(d) = n + Len(more) /\ Len(more) \in Nat
      /\ \A i \in 1..Len(d) : d[i] = IF i <= n THEN old[i] ELSE more[i - n]
  <2>1. /\ old \o more \in Seq(Node) /\ Len(old \o more) = Len(old) + Len(more)
        /\ Len(more) \in Nat
        /\ \A i \in 1..(Len(old) + Len(more)) :
             (old \o more)[i] = IF i <= Len(old) THEN old[i] ELSE more[i - Len(old)]
    BY <1>4, <1>5, Concatenated
  <2> QED BY <1>3, <1>5, <2>1
<1>7. \A i \in 1..n : i \in 1..Len(d) /\ d[i] = new(i)
  BY <1>1, <1>5, <1>6
<1>8. ASSUME NEW i \in 1..Len(d), i > n
      PROVE  i - n \in 1..Len(more) /\ d[i] = more[i - n]
  BY <1>1, <1>6, <1>8
<1>9. ASSUME NEW i \in 1..Len(d)
      PROVE  d[i].n = IF i <= n THEN nodes[i].n ELSE 0
  <2>1. CASE i <= n
    BY <1>1, <1>2, <1>7, <2>1
  <2>2. CASE i > n
    BY <1>1, <1>4, <1>8, <2>2
  <2> QED BY <1>1, <1>6, <2>1, <2>2
<1>10. Sightings(d) = Sightings(nodes)
  BY <1>1, <1>6, <1>9, SightingsKept
<1>11. \A i \in 1..n : nodes[i].n > 0 => d[i] = nodes[i]
  BY <1>2, <1>7
<1>12. ASSUME NEW i \in 1..Len(d), i <= n PROVE i \in 1..n /\ d[i].id = nodes[i].id
  BY <1>1, <1>2, <1>6, <1>7, <1>12
<1>13. ASSUME NEW i \in 1..Len(d), i > n PROVE d[i].id \in MapNames /\ d[i].id \notin Ids(nodes)
  BY <1>4, <1>8, <1>13
<1>14. ASSUME Distinct(nodes) PROVE Distinct(d)
  <2> SUFFICES ASSUME NEW i \in 1..Len(d), NEW j \in 1..Len(d), d[i].id = d[j].id PROVE i = j
    BY DEF Distinct
  <2>1. \A k \in 1..n : nodes[k].id \in Ids(nodes)
    BY DEF Ids
  <2>2. CASE i <= n /\ j <= n
    BY <1>12, <1>14, <2>2 DEF Distinct
  <2>3. CASE i > n /\ j > n
    <3>1. more[i - n].id = more[j - n].id /\ i - n \in 1..Len(more) /\ j - n \in 1..Len(more)
      BY <1>8, <2>3
    <3>2. i - n = j - n
      BY <1>4, <3>1 DEF Distinct
    <3> QED BY <1>1, <1>6, <3>2
  <2>4. CASE (i <= n /\ j > n) \/ (i > n /\ j <= n)
    BY <1>12, <1>13, <2>1, <2>4
  <2> QED BY <1>1, <1>6, <2>2, <2>3, <2>4
<1>15. ASSUME NEW next \in Nat, Issued(nodes, next) PROVE Issued(d, next)
  <2> SUFFICES ASSUME NEW i \in 1..Len(d), d[i].id \in Nat PROVE d[i].id < next
    BY DEF Issued
  <2>1. i <= n
    BY <1>1, <1>6, <1>13, SceneAssumption
  <2> QED BY <1>12, <1>15, <2>1 DEF Issued
<1>16. \A i \in 1..n :
         /\ d[i].id = nodes[i].id /\ d[i].n = nodes[i].n
         /\ \/ d[i] = nodes[i] /\ ~(Surveyed(nodes[i].id, survey) /\ nodes[i].n = 0)
            \/ FreshOf(d[i], survey) /\ (nodes[i].emb # NoEmb => d[i].emb # NoEmb)
  BY <1>2, <1>7
<1>17. \A i \in 1..Len(d) : i \in 1..n \/ FreshOf(d[i], survey)
  BY <1>1, <1>4, <1>6, <1>8
<1>18. ASSUME NEW m \in DOMAIN survey PROVE \E i \in 1..Len(d) : d[i].id = m
  <2>1. CASE m \in Ids(nodes)
    <3>1. PICK i \in 1..n : nodes[i].id = m
      BY <2>1 DEF Ids
    <3> QED BY <1>2, <1>7, <3>1
  <2>2. CASE m \notin Ids(nodes)
    <3>1. PICK i \in 1..Len(more) : more[i].id = m
      BY <1>4, <2>2
    <3>2. n + i \in 1..Len(d) /\ n + i > n /\ (n + i) - n = i
      BY <1>1, <1>6
    <3> QED BY <1>8, <3>1, <3>2
  <2> QED BY <2>1, <2>2
<1> QED BY <1>1, <1>6, <1>10, <1>11, <1>14, <1>15, <1>16, <1>17, <1>18

(* The same nodes, perhaps without their clouds and with vectors found. *)
Alike(nodes, d) ==
  /\ Len(d) = Len(nodes)
  /\ \A i \in 1..Len(nodes) :
       /\ d[i].id = nodes[i].id /\ d[i].n = nodes[i].n /\ d[i].src = nodes[i].src
       /\ d[i].box = nodes[i].box /\ (d[i].cloud => nodes[i].cloud)
       /\ (nodes[i].emb # NoEmb => d[i].emb # NoEmb)

(* Stamping rooms and loading change neither ids, places nor sightings. *)
LEMMA StampedKeeps ==
  ASSUME NEW nodes \in Seq(Node), NEW d, d = Stamped(nodes)
  PROVE  /\ d \in Seq(Node) /\ Len(d) = Len(nodes) /\ Sightings(d) = Sightings(nodes)
         /\ \A i \in 1..Len(nodes) : d[i].id = nodes[i].id /\ d[i].at = nodes[i].at
         /\ Alike(nodes, d)
<1>1. Len(nodes) \in Nat
  OBVIOUS
<1>2. ASSUME NEW i \in 1..Len(nodes)
      PROVE  /\ d[i] \in Node /\ d[i].id = nodes[i].id /\ d[i].at = nodes[i].at
             /\ d[i].n = nodes[i].n /\ d[i].src = nodes[i].src /\ d[i].box = nodes[i].box
             /\ d[i].cloud = nodes[i].cloud /\ d[i].emb = nodes[i].emb
  <2>1. nodes[i] \in Node
    OBVIOUS
  <2>2. RoomOf[nodes[i].at] \in Range(RoomOf) \cup {NoRoom}
    BY <2>1, NodeFields, SceneAssumption DEF Range
  <2>3. d[i] = [nodes[i] EXCEPT !.room = RoomOf[nodes[i].at]]
    BY DEF Stamped
  <2> QED BY <2>1, <2>2, <2>3 DEF Node
<1>3. d = [i \in 1..Len(nodes) |-> d[i]]
  BY DEF Stamped
<1>4. d \in Seq(Node) /\ Len(d) = Len(nodes)
  BY <1>1, <1>2, <1>3
<1>5. Sightings(d) = Sightings(nodes)
  BY <1>1, <1>2, <1>4, SightingsKept
<1> QED BY <1>2, <1>4, <1>5 DEF Alike

LEMMA LoadedKeeps ==
  ASSUME NEW files \in [nodes : Seq(Node), emb : Seq(AllIds \cup {NoEmb}),
                        edges : SUBSET (AllIds \X AllIds)],
         NEW d, d = Loaded(files).nodes
  PROVE  /\ d \in Seq(Node) /\ Len(d) = Len(files.nodes)
         /\ Sightings(d) = Sightings(files.nodes)
         /\ \A i \in 1..Len(d) : d[i].id = files.nodes[i].id
         /\ Alike(files.nodes, d)
<1> DEFINE nodes == files.nodes
           emb(i) == IF nodes[i].emb = NoEmb /\ i <= Len(files.emb)
                     THEN files.emb[i] ELSE nodes[i].emb
<1>1. nodes \in Seq(Node) /\ files.emb \in Seq(AllIds \cup {NoEmb})
      /\ Len(nodes) \in Nat /\ Len(files.emb) \in Nat
  OBVIOUS
<1>2. d = [i \in 1..Len(nodes) |-> [nodes[i] EXCEPT !.cloud = FALSE, !.emb = emb(i)]]
  BY DEF Loaded
<1>3. ASSUME NEW i \in 1..Len(nodes)
      PROVE  /\ d[i] \in Node /\ d[i].id = nodes[i].id /\ d[i].n = nodes[i].n
             /\ d[i].src = nodes[i].src /\ d[i].box = nodes[i].box /\ d[i].cloud = FALSE
             /\ nodes[i].emb # NoEmb => d[i].emb # NoEmb
  <2>1. nodes[i] \in Node
    BY <1>1
  <2>2. i <= Len(files.emb) => files.emb[i] \in AllIds \cup {NoEmb}
    BY <1>1
  <2>3. emb(i) \in Nat \cup MapNames \cup {NoEmb}
    BY <2>1, <2>2, NodeFields DEF AllIds
  <2>4. d[i] = [nodes[i] EXCEPT !.cloud = FALSE, !.emb = emb(i)]
    BY <1>2
  <2>5. nodes[i].emb # NoEmb => emb(i) = nodes[i].emb
    OBVIOUS
  <2> HIDE DEF emb
  <2> QED BY <2>1, <2>3, <2>4, <2>5 DEF Node
<1>4. d = [i \in 1..Len(nodes) |-> d[i]]
  BY <1>2
<1> HIDE DEF nodes, emb
<1>7. \A i \in 1..Len(nodes) : d[i] \in Node /\ d[i].n = nodes[i].n
  BY <1>3
<1>5. d \in Seq(Node) /\ Len(d) = Len(nodes)
  BY <1>1, <1>7, <1>4
<1>6. Sightings(d) = Sightings(nodes)
  <2>1. \A i \in 1..Len(d) : d[i].n = IF i <= Len(nodes) THEN nodes[i].n ELSE 0
    BY <1>1, <1>5, <1>7
  <2>2. nodes \in Seq(Node) /\ d \in Seq(Node) /\ Len(nodes) <= Len(d)
    BY <1>1, <1>5
  <2> QED BY <2>1, <2>2, SightingsKept
<1> QED BY <1>3, <1>5, <1>6 DEF Alike, nodes

-----------------------------------------------------------------------------
(* The inductive invariant. *)

(* Whoever is not idle holds the lock. *)
Locked == \A t \in Threads : stage[t] # "idle" => lock = t

(* What a thread is about to swap in adds up. *)
DraftsBalanced ==
  \A t \in Threads :
    stage[t] \in {"fold", "swap"} => Sightings(draft[t]) = ledger + tally[t]

(* No id is used twice, and fresh ones are fresh. *)
Named(nodes) == Distinct(nodes) /\ Issued(nodes, nextId)
IdsUnique ==
  /\ Named(scene.nodes) /\ Named(disk.nodes)
  /\ \A t \in Threads : Named(draft[t])

IInv == TypeOK /\ LedgerBalanced /\ Locked /\ DraftsBalanced /\ IdsUnique

LEMMA StoreInit == Init => IInv
<1> SUFFICES ASSUME Init PROVE IInv
  OBVIOUS
<1> DEFINE none == <<>>
<1>1. none \in Seq(Node) /\ none \in Seq(Observation) /\ Len(none) = 0
      /\ none \in Seq(AllIds \cup {NoEmb})
  OBVIOUS
<1>2. Sightings(none) = 0 /\ Named(none)
  <2>1. [i \in 1..Len(none) |-> none[i].n] = <<>>
    OBVIOUS
  <2> QED BY <1>1, <2>1, TotalOfNone DEF Sightings, Named, Distinct, Issued
<1>3. /\ scene = [nodes |-> none, edges |-> {}]
      /\ disk = [nodes |-> none, emb |-> none, edges |-> {}]
      /\ draft = [t \in Threads |-> none] /\ batch = [t \in Threads |-> none]
      /\ stage = [t \in Threads |-> IF t = Main THEN "seed" ELSE "idle"]
      /\ tally = [t \in Threads |-> 0] /\ lock = Main
      /\ worldMap \in Surveys /\ sightedAt = [m \in MapNames |-> {}]
      /\ nextId = 1 /\ ledger = 0 /\ ledgerDisk = 0
  BY DEF Init, EmptyScene
<1> HIDE DEF none
<1>4. TypeOK
  BY <1>1, <1>3 DEF TypeOK, Threads
<1>5. LedgerBalanced
  BY <1>2, <1>3 DEF LedgerBalanced
<1>6. Locked /\ DraftsBalanced
  BY <1>2, <1>3 DEF Locked, DraftsBalanced
<1>7. IdsUnique
  BY <1>2, <1>3 DEF IdsUnique
<1> QED BY <1>4, <1>5, <1>6, <1>7 DEF IInv

(* Ids stay fresh while nextId grows. *)
LEMMA IssuedLater ==
  ASSUME NEW nodes \in Seq(Node), NEW next \in Nat, Issued(nodes, next)
  PROVE  Issued(nodes, next + 1)
BY DEF Issued

LEMMA SeedStep == IInv /\ Seed => IInv'
<1> SUFFICES ASSUME IInv, Seed PROVE IInv'
  OBVIOUS
<1> USE DEF IInv, TypeOK
<1>1. Main \in Threads /\ scene.nodes \in Seq(Node) /\ lock = Main
  BY DEF Threads, Seed, Locked
<1>2. /\ tally' = [tally EXCEPT ![Main] = 0]
      /\ IF DOMAIN worldMap = {} THEN lock' = NoOne /\ Goto(Main, "idle")
                                 ELSE lock' = lock /\ Goto(Main, "swap")
  BY DEF Seed
<1>e. PICK embeds \in BOOLEAN :
        draft' = [draft EXCEPT ![Main] = Seeded(scene.nodes, worldMap, embeds)]
  BY DEF Seed
<1> DEFINE d == Seeded(scene.nodes, worldMap, embeds)
<1>3. /\ d \in Seq(Node) /\ Sightings(d) = Sightings(scene.nodes)
      /\ Distinct(scene.nodes) => Distinct(d)
      /\ \A next \in Nat : Issued(scene.nodes, next) => Issued(d, next)
  BY <1>1, SeededKeeps
<1> HIDE DEF d
<1>4. /\ draft' = [draft EXCEPT ![Main] = d]
      /\ UNCHANGED <<worldMap, sightedAt, scene, disk, batch, nextId, ledger, ledgerDisk>>
  BY <1>e DEF known, Seed, d
<1>5. \E label \in {"idle", "swap"} :
        /\ stage' = [stage EXCEPT ![Main] = label]
        /\ lock' = IF label = "idle" THEN NoOne ELSE Main
  BY <1>1, <1>2 DEF Goto
<1>6. TypeOK'
  BY <1>1, <1>2, <1>3, <1>4, <1>5
<1>7. LedgerBalanced'
  BY <1>4 DEF LedgerBalanced
<1>8. Locked' /\ \A t \in Threads : t # Main => stage[t] = "idle" /\ stage'[t] = "idle"
  BY <1>1, <1>5 DEF Locked
<1>9. DraftsBalanced'
  BY <1>1, <1>2, <1>3, <1>4, <1>8 DEF DraftsBalanced, LedgerBalanced
<1>10. IdsUnique'
  BY <1>1, <1>3, <1>4 DEF IdsUnique, Named
<1> QED BY <1>6, <1>7, <1>8, <1>9, <1>10

LEMMA IdsAfterFold ==
  ASSUME NEW old \in Seq(Node), NEW d \in Seq(Node), NEW next \in Nat,
         Distinct(old), Issued(old, next),
         \A i \in 1..Len(old) : d[i].id = old[i].id,
         Len(d) = Len(old) \/ (Len(d) = Len(old) + 1 /\ d[Len(d)].id = next)
  PROVE  Distinct(d) /\ Issued(d, IF Len(d) > Len(old) THEN next + 1 ELSE next)
<1>1. Len(old) \in Nat
  OBVIOUS
<1>2. CASE Len(d) = Len(old)
  <2>1. Distinct(d)
    BY <1>2 DEF Distinct
  <2>2. Issued(d, next)
    BY <1>2 DEF Issued
  <2> QED BY <1>1, <1>2, <2>1, <2>2
<1>3. CASE Len(d) = Len(old) + 1 /\ d[Len(d)].id = next
  <2>1. \A i \in 1..Len(d) : i \in 1..Len(old) \/ i = Len(d)
    BY <1>1, <1>3
  <2>2. \A i \in 1..Len(old) : d[i].id # next
    <3> SUFFICES ASSUME NEW i \in 1..Len(old), d[i].id = next PROVE FALSE
      OBVIOUS
    <3>1. old[i].id \in Nat /\ old[i].id = next
      OBVIOUS
    <3>2. next < next
      BY <3>1 DEF Issued
    <3> QED BY <3>2
  <2>3. Distinct(d)
    <3> SUFFICES ASSUME NEW i \in 1..Len(d), NEW j \in 1..Len(d), d[i].id = d[j].id
                 PROVE  i = j
      BY DEF Distinct
    <3> QED BY <1>3, <2>1, <2>2 DEF Distinct
  <2>4. Issued(d, next + 1)
    <3> SUFFICES ASSUME NEW i \in 1..Len(d), d[i].id \in Nat PROVE d[i].id < next + 1
      BY DEF Issued
    <3>1. CASE i \in 1..Len(old)
      <4>1. old[i].id = d[i].id /\ old[i].id < next
        BY <3>1 DEF Issued
      <4> QED BY <4>1
    <3>2. CASE i = Len(d)
      BY <1>3, <3>2
    <3> QED BY <2>1, <3>1, <3>2
  <2>5. Len(d) > Len(old)
    BY <1>1, <1>3
  <2> QED BY <2>3, <2>4, <2>5
<1> QED BY <1>2, <1>3

LEMMA FoldStep == ASSUME IInv, NEW b \in Builders, FoldOne(b) PROVE IInv'
<1> USE DEF IInv, TypeOK
<1> DEFINE obs == Head(batch[b])
           d == draft'[b]
<1>1. /\ b \in Threads /\ batch[b] \in Seq(Observation) /\ batch[b] # <<>>
      /\ draft[b] \in Seq(Node) /\ stage[b] = "fold"
  BY DEF FoldOne, Threads
<1>2. obs \in Observation /\ Tail(batch[b]) \in Seq(Observation)
  BY <1>1
<1>3. obs.n \in Nat
  BY <1>2, ObservationFields
<1>4. /\ d \in Fold(draft[b], obs, nextId) /\ draft' = [draft EXCEPT ![b] = d]
      /\ tally' = [tally EXCEPT ![b] = @ + obs.n]
      /\ batch' = [batch EXCEPT ![b] = Tail(@)]
      /\ nextId' = IF Len(d) > Len(draft[b]) THEN nextId + 1 ELSE nextId
      /\ UNCHANGED <<worldMap, scene, disk, lock, stage, ledger, ledgerDisk>>
      /\ sightedAt' = [m \in MapNames |->
           sightedAt[m] \cup IF m \in Gained(draft[b], draft'[b]) THEN {obs.at} ELSE {}]
  BY <1>1 DEF FoldOne
<1> HIDE DEF obs, d
<1>5. /\ d \in Seq(Node) /\ Sightings(d) = Sightings(draft[b]) + obs.n
      /\ \/ /\ Len(d) = Len(draft[b])
            /\ \A i \in 1..Len(draft[b]) : d[i].id = draft[b][i].id
         \/ /\ Len(d) = Len(draft[b]) + 1 /\ d[Len(d)].id = nextId
            /\ \A i \in 1..Len(draft[b]) : d[i].id = draft[b][i].id
  BY <1>1, <1>2, <1>4, FoldAddsUp
<1>6. TypeOK'
  <2>1. obs.at \in Places
    BY <1>2, ObservationFields
  <2>2. sightedAt' \in [MapNames -> SUBSET Places]
    BY <1>4, <2>1
  <2> QED BY <1>1, <1>2, <1>3, <1>4, <1>5, <2>2
<1>7. LedgerBalanced' /\ Locked'
  BY <1>4 DEF LedgerBalanced, Locked
<1>8. DraftsBalanced'
  <2>1. Sightings(draft[b]) = ledger + tally[b]
    BY <1>1 DEF DraftsBalanced
  <2>2. ASSUME NEW t \in Threads, stage'[t] \in {"fold", "swap"}
        PROVE  Sightings(draft'[t]) = ledger' + tally'[t]
    <3>1. CASE t = b
      <4>1. draft'[t] = d /\ tally'[t] = tally[b] + obs.n /\ tally[b] \in Int
        BY <1>1, <1>4, <3>1
      <4> QED BY <1>3, <1>4, <1>5, <2>1, <4>1
    <3>2. CASE t # b
      BY <1>4, <2>2, <3>2 DEF DraftsBalanced
    <3> QED BY <3>1, <3>2
  <2> QED BY <2>2 DEF DraftsBalanced
<1>9. IdsUnique'
  <2>1. nextId' \in {nextId, nextId + 1} /\ nextId \in Nat
    BY <1>4
  <2>2. ASSUME NEW nodes \in Seq(Node), Named(nodes)
        PROVE  Distinct(nodes) /\ Issued(nodes, nextId')
    BY <2>1, <2>2, IssuedLater DEF Named
  <2>3. Distinct(d) /\ Issued(d, nextId')
    <3>1. Distinct(draft[b]) /\ Issued(draft[b], nextId)
      BY <1>1 DEF IdsUnique, Named
    <3> QED BY <1>1, <1>4, <1>5, <2>1, <3>1, IdsAfterFold
  <2>4. ASSUME NEW t \in Threads PROVE Named(draft[t])'
    BY <1>1, <1>4, <2>2, <2>3 DEF IdsUnique, Named
  <2> QED BY <1>4, <2>2, <2>4 DEF IdsUnique, Named
<1> QED BY <1>6, <1>7, <1>8, <1>9

LEMMA PruneStep == ASSUME IInv, NEW b \in Builders, Prune(b) PROVE IInv'
<1> USE DEF IInv, TypeOK
<1> DEFINE d == Capped(draft[b])
<1>1. b \in Threads /\ draft[b] \in Seq(Node) /\ stage[b] = "fold" /\ tally[b] \in Int
  BY DEF Prune, Threads
<1>2. /\ d \in Seq(Node)
      /\ Distinct(draft[b]) => Distinct(d)
      /\ \A next \in Nat : Issued(draft[b], next) => Issued(d, next)
  BY <1>1, CappedKeepsNewest
<1>3. /\ draft' = [draft EXCEPT ![b] = d]
      /\ tally' = [tally EXCEPT ![b] = @ - (Sightings(draft[b]) - Sightings(d))]
      /\ stage' = [stage EXCEPT ![b] = "swap"]
      /\ UNCHANGED <<worldMap, sightedAt, scene, disk, lock, batch, nextId, ledger, ledgerDisk>>
  BY DEF known, Prune, Goto
<1> HIDE DEF d
<1>4. Sightings(d) \in Nat /\ Sightings(draft[b]) \in Nat
  BY <1>1, <1>2, CountsAreNats
<1>5. TypeOK'
  BY <1>1, <1>2, <1>3, <1>4
<1>6. LedgerBalanced' /\ Locked'
  BY <1>1, <1>3 DEF LedgerBalanced, Locked
<1>7. DraftsBalanced'
  <2>1. Sightings(draft[b]) = ledger + tally[b]
    BY <1>1 DEF DraftsBalanced
  <2>2. ASSUME NEW t \in Threads, stage'[t] \in {"fold", "swap"}
        PROVE  Sightings(draft'[t]) = ledger' + tally'[t]
    <3>1. CASE t = b
      <4>1. draft'[t] = d /\ tally'[t] = tally[b] - (Sightings(draft[b]) - Sightings(d))
        BY <1>1, <1>3, <3>1
      <4> QED BY <1>1, <1>3, <1>4, <2>1, <4>1
    <3>2. CASE t # b
      BY <1>3, <2>2, <3>2 DEF DraftsBalanced
    <3> QED BY <3>1, <3>2
  <2> QED BY <2>2 DEF DraftsBalanced
<1>8. IdsUnique'
  BY <1>1, <1>2, <1>3 DEF IdsUnique, Named
<1> QED BY <1>5, <1>6, <1>7, <1>8

LEMMA SwapStep == ASSUME IInv, NEW t \in Threads, Swap(t) PROVE IInv'
<1> USE DEF IInv, TypeOK
<1> DEFINE d == Stamped(draft[t])
<1>1. draft[t] \in Seq(Node) /\ stage[t] = "swap" /\ tally[t] \in Int
  BY DEF Swap
<1>2. /\ d \in Seq(Node) /\ Len(d) = Len(draft[t]) /\ Sightings(d) = Sightings(draft[t])
      /\ \A i \in 1..Len(draft[t]) : d[i].id = draft[t][i].id /\ d[i].at = draft[t][i].at
  BY <1>1, StampedKeeps
<1>3. /\ scene' = [nodes |-> d, edges |-> Relations(draft[t])]
      /\ ledger' = ledger + tally[t]
      /\ stage' = [stage EXCEPT ![t] = "nodes"]
      /\ UNCHANGED <<worldMap, sightedAt, disk, lock, batch, draft, tally, nextId, ledgerDisk>>
  BY DEF known, Swap, Goto
<1> HIDE DEF d
<1>4. Sightings(draft[t]) = ledger + tally[t] /\ Sightings(draft[t]) \in Nat
  BY <1>1, CountsAreNats DEF DraftsBalanced
<1>5. Relations(draft[t]) \in SUBSET (AllIds \X AllIds)
  <2>1. \A i \in 1..Len(draft[t]) : draft[t][i] \in Node
    BY <1>1
  <2>2. \A i \in 1..Len(draft[t]) : draft[t][i].id \in AllIds
    BY <2>1, NodeFields
  <2> QED BY <2>2 DEF Relations
<1>6. TypeOK'
  BY <1>2, <1>3, <1>4, <1>5
<1>7. LedgerBalanced'
  BY <1>2, <1>3, <1>4 DEF LedgerBalanced
<1>8. Locked'
  BY <1>1, <1>3 DEF Locked
<1>9. DraftsBalanced'
  <2>1. lock = t
    BY <1>1 DEF Locked
  <2>2. \A u \in Threads : stage'[u] \notin {"fold", "swap"}
    BY <1>3, <2>1 DEF Locked
  <2> QED BY <2>2 DEF DraftsBalanced
<1>10. IdsUnique'
  <2>1. Distinct(draft[t]) /\ Issued(draft[t], nextId)
    BY DEF IdsUnique, Named
  <2>2. Distinct(d) /\ Issued(d, nextId)
    BY <1>2, <2>1 DEF Distinct, Issued
  <2> QED BY <1>3, <2>2 DEF IdsUnique, Named
<1> QED BY <1>6, <1>7, <1>8, <1>9, <1>10

LEMMA RestartStep == IInv /\ Restart => IInv'
<1> SUFFICES ASSUME IInv, Restart PROVE IInv'
  OBVIOUS
<1> USE DEF IInv, TypeOK
<1> DEFINE none == <<>>
           d == Loaded(disk).nodes
<1>1. none \in Seq(Node) /\ none \in Seq(Observation) /\ Len(none) = 0
  OBVIOUS
<1>2. Named(none)
  BY <1>1 DEF Named, Distinct, Issued
<1>3. /\ d \in Seq(Node) /\ Len(d) = Len(disk.nodes)
      /\ Sightings(d) = Sightings(disk.nodes)
      /\ \A i \in 1..Len(d) : d[i].id = disk.nodes[i].id
  BY LoadedKeeps
<1>4. /\ scene' = Loaded(disk) /\ lock' = Main /\ ledger' = ledgerDisk
      /\ stage' = [t \in Threads |-> IF t = Main THEN "seed" ELSE "idle"]
      /\ draft' = [t \in Threads |-> none] /\ batch' = [t \in Threads |-> none]
      /\ tally' = [t \in Threads |-> 0]
      /\ worldMap' \in Surveys
      /\ UNCHANGED <<sightedAt, disk, nextId, ledgerDisk>>
  BY DEF Restart
<1>5. scene'.nodes = d
  BY <1>4
<1>6. scene' \in [nodes : Seq(Node), edges : SUBSET (AllIds \X AllIds)]
  BY <1>3, <1>4 DEF Loaded
<1> HIDE DEF none, d
<1>7. TypeOK'
  BY <1>1, <1>4, <1>6 DEF Threads
<1>8. LedgerBalanced'
  BY <1>3, <1>4, <1>5 DEF LedgerBalanced
<1>9. Locked' /\ DraftsBalanced'
  BY <1>4 DEF Locked, DraftsBalanced
<1>10. IdsUnique'
  <2>1. Distinct(disk.nodes) /\ Issued(disk.nodes, nextId)
    BY DEF IdsUnique, Named
  <2>2. Distinct(d) /\ Issued(d, nextId)
    BY <1>3, <2>1 DEF Distinct, Issued
  <2> QED BY <1>2, <1>4, <1>5, <2>1, <2>2 DEF IdsUnique, Named
<1> QED BY <1>7, <1>8, <1>9, <1>10

LEMMA StoreStep == IInv /\ [Next]_vars => IInv'
<1> SUFFICES ASSUME IInv, [Next]_vars PROVE IInv'
  OBVIOUS
<1> USE DEF IInv, TypeOK
<1>1. CASE UNCHANGED vars
  BY <1>1 DEF vars, known, work, bounds, LedgerBalanced, Locked, DraftsBalanced, IdsUnique, Named
<1>2. CASE Seed
  BY <1>2, SeedStep
<1>3. CASE Persist
  <2>1. /\ stage' = [stage EXCEPT ![Main] = "nodes"] /\ lock' = Main /\ Main \in Threads
        /\ \A t \in Threads : stage[t] = "idle"
        /\ UNCHANGED <<worldMap, sightedAt, scene, disk, batch, draft, tally, nextId, ledger, ledgerDisk>>
    BY <1>3 DEF known, Persist, Goto, Threads
  <2>2. TypeOK'
    BY <2>1
  <2>3. LedgerBalanced' /\ IdsUnique'
    BY <2>1 DEF LedgerBalanced, IdsUnique, Named
  <2>4. Locked' /\ DraftsBalanced'
    BY <2>1 DEF Locked, DraftsBalanced
  <2> QED BY <2>2, <2>3, <2>4
<1>4. CASE Restart
  BY <1>4, RestartStep
<1>5. ASSUME NEW b \in Builders, Begin(b) PROVE IInv'
  <2>1. /\ b \in Threads /\ lock = NoOne /\ scene.nodes \in Seq(Node)
        /\ \E obs \in Batches : batch' = [batch EXCEPT ![b] = obs]
        /\ draft' = [draft EXCEPT ![b] = scene.nodes] /\ tally' = [tally EXCEPT ![b] = 0]
        /\ lock' = b /\ stage' = [stage EXCEPT ![b] = "fold"]
        /\ UNCHANGED <<worldMap, sightedAt, scene, disk, nextId, ledger, ledgerDisk>>
    BY <1>5 DEF known, Begin, Goto, Threads
  <2>2. \A t \in Threads : stage[t] = "idle"
    BY <2>1, SceneAssumption DEF Locked
  <2>3. TypeOK'
    BY <2>1, SceneAssumption
  <2>4. LedgerBalanced' /\ IdsUnique'
    BY <2>1 DEF LedgerBalanced, IdsUnique, Named
  <2>5. Locked' /\ DraftsBalanced'
    BY <2>1, <2>2 DEF Locked, DraftsBalanced, LedgerBalanced
  <2> QED BY <2>3, <2>4, <2>5
<1>6. ASSUME NEW b \in Builders, WriteFails(b) PROVE IInv'
  <2>1. /\ b \in Threads /\ lock' = NoOne /\ stage' = [stage EXCEPT ![b] = "idle"]
        /\ stage[b] # "idle"
        /\ UNCHANGED <<worldMap, sightedAt, scene, disk, batch, draft, tally, nextId, ledger, ledgerDisk>>
    BY <1>6 DEF known, WriteFails, Goto, Threads
  <2>2. TypeOK'
    BY <2>1
  <2>3. LedgerBalanced' /\ IdsUnique'
    BY <2>1 DEF LedgerBalanced, IdsUnique, Named
  <2>4. \A t \in Threads : stage'[t] = "idle"
    BY <2>1 DEF Locked
  <2>5. Locked' /\ DraftsBalanced'
    BY <2>4 DEF Locked, DraftsBalanced
  <2> QED BY <2>2, <2>3, <2>5
<1>7. ASSUME NEW t \in Threads, WriteNodes(t) PROVE IInv'
  <2>1. /\ disk' = [disk EXCEPT !.nodes = scene.nodes] /\ ledgerDisk' = ledger
        /\ stage' = [stage EXCEPT ![t] = "emb"] /\ stage[t] = "nodes"
        /\ UNCHANGED <<worldMap, sightedAt, scene, lock, batch, draft, tally, nextId, ledger>>
    BY <1>7 DEF known, WriteNodes, Goto
  <2>2. TypeOK'
    BY <2>1
  <2>3. LedgerBalanced' /\ IdsUnique'
    BY <2>1 DEF LedgerBalanced, IdsUnique, Named
  <2>4. Locked' /\ DraftsBalanced'
    BY <2>1 DEF Locked, DraftsBalanced
  <2> QED BY <2>2, <2>3, <2>4
<1>8. ASSUME NEW t \in Threads, WriteEmb(t) PROVE IInv'
  <2> DEFINE rows == [i \in 1..Len(scene.nodes) |-> scene.nodes[i].emb]
  <2>1. /\ disk' = [disk EXCEPT !.emb = rows]
        /\ stage' = [stage EXCEPT ![t] = "edges"] /\ stage[t] = "emb"
        /\ UNCHANGED <<worldMap, sightedAt, scene, lock, batch, draft, tally, nextId, ledger, ledgerDisk>>
    BY <1>8 DEF known, WriteEmb, Goto
  <2>2. rows \in Seq(AllIds \cup {NoEmb})
    <3>1. \A i \in 1..Len(scene.nodes) : scene.nodes[i] \in Node
      OBVIOUS
    <3>2. \A i \in 1..Len(scene.nodes) : scene.nodes[i].emb \in AllIds \cup {NoEmb}
      BY <3>1, NodeFields
    <3>3. Len(scene.nodes) \in Nat
      OBVIOUS
    <3> QED BY <3>2, <3>3
  <2> HIDE DEF rows
  <2>3. TypeOK'
    BY <2>1, <2>2
  <2>4. LedgerBalanced' /\ IdsUnique'
    BY <2>1 DEF LedgerBalanced, IdsUnique, Named
  <2>5. Locked' /\ DraftsBalanced'
    BY <2>1 DEF Locked, DraftsBalanced
  <2> QED BY <2>3, <2>4, <2>5
<1>9. ASSUME NEW t \in Threads, WriteEdges(t) PROVE IInv'
  <2>1. /\ disk' = [disk EXCEPT !.edges = scene.edges] /\ lock' = NoOne
        /\ stage' = [stage EXCEPT ![t] = "idle"] /\ stage[t] = "edges"
        /\ UNCHANGED <<worldMap, sightedAt, scene, batch, draft, tally, nextId, ledger, ledgerDisk>>
    BY <1>9 DEF known, WriteEdges, Goto
  <2>2. TypeOK'
    BY <2>1
  <2>3. LedgerBalanced' /\ IdsUnique'
    BY <2>1 DEF LedgerBalanced, IdsUnique, Named
  <2>4. \A u \in Threads : stage'[u] = "idle"
    BY <2>1 DEF Locked
  <2>5. Locked' /\ DraftsBalanced'
    BY <2>4 DEF Locked, DraftsBalanced
  <2> QED BY <2>2, <2>3, <2>5
<1> QED
  BY <1>1, <1>2, <1>3, <1>4, <1>5, <1>6, <1>7, <1>8, <1>9, FoldStep, PruneStep, SwapStep
  DEF Next, Install

THEOREM StoreInvariant == Spec => []IInv
  BY StoreInit, StoreStep, PTL DEF Spec

(* The scene, the files and every draft keep their types.                      *)
THEOREM StoreTypeCorrect == Spec => []TypeOK
<1>1. IInv => TypeOK
  BY DEF IInv
<1> QED BY <1>1, StoreInvariant, PTL

(* No sighting is lost or counted twice, whoever builds and whenever the       *)
(* process dies: LedgerBalanced for every number of builders and batches.      *)
THEOREM LedgerTheorem == Spec => []LedgerBalanced
<1>1. IInv => LedgerBalanced
  BY DEF IInv
<1> QED BY <1>1, StoreInvariant, PTL

-----------------------------------------------------------------------------
(* Edges. *)

LEMMA RelationsOfStamped ==
  ASSUME NEW nodes \in Seq(Node)
  PROVE  /\ Relations(Stamped(nodes)) = Relations(nodes)
         /\ \A e \in Relations(nodes) : {e[1], e[2]} \subseteq Ids(Stamped(nodes))
<1> DEFINE d == Stamped(nodes)
<1>1. /\ d \in Seq(Node) /\ Len(d) = Len(nodes)
      /\ \A i \in 1..Len(nodes) : d[i].id = nodes[i].id /\ d[i].at = nodes[i].at
  BY StampedKeeps
<1> HIDE DEF d
<1>2. Relations(d) = Relations(nodes)
  BY <1>1 DEF Relations
<1>3. \A i \in 1..Len(nodes) : nodes[i].id \in Ids(d)
  <2> SUFFICES ASSUME NEW i \in 1..Len(nodes) PROVE nodes[i].id \in Ids(d)
    OBVIOUS
  <2>1. i \in 1..Len(d) /\ d[i].id = nodes[i].id
    BY <1>1
  <2> QED BY <2>1 DEF Ids
<1>4. \A e \in Relations(nodes) : {e[1], e[2]} \subseteq Ids(d)
  BY <1>3 DEF Relations
<1> QED BY <1>2, <1>4 DEF d

LEMMA EdgesStep ==
  ASSUME \A survey \in Surveys : DOMAIN survey # {}, IInv, EdgesFollowNodes, [Next]_vars
  PROVE  EdgesFollowNodes'
<1> USE DEF EdgesFollowNodes, Started
<1>1. Main \in Threads /\ stage \in [Threads -> {"idle", "seed", "fold", "swap", "nodes", "emb", "edges"}]
  BY DEF Threads, IInv, TypeOK
<1>2. ASSUME UNCHANGED scene, Started' => Started PROVE EdgesFollowNodes'
  BY <1>2
<1>3. CASE UNCHANGED vars
  BY <1>2, <1>3 DEF vars, work
<1>4. CASE Seed
  <2>1. /\ IF DOMAIN worldMap = {} THEN Goto(Main, "idle") ELSE Goto(Main, "swap")
        /\ worldMap \in Surveys
    BY <1>4 DEF Seed, IInv, TypeOK
  <2>2. stage'[Main] = "swap" /\ UNCHANGED scene
    BY <1>1, <1>4, <2>1 DEF Seed, Goto
  <2> QED BY <1>2, <2>2
<1>5. CASE Persist
  <2>1. stage[Main] = "idle" /\ UNCHANGED scene
    BY <1>1, <1>5 DEF Persist
  <2> QED BY <1>2, <2>1
<1>6. CASE Restart
  <2> DEFINE d == Loaded(disk).nodes
  <2>1. /\ d \in Seq(Node) /\ Len(d) = Len(disk.nodes)
        /\ \A i \in 1..Len(d) : d[i].id = disk.nodes[i].id
    BY LoadedKeeps DEF IInv, TypeOK
  <2>2. /\ scene' = Loaded(disk) /\ stage'[Main] = "seed"
    BY <1>1, <1>6 DEF Restart
  <2>3. /\ scene'.nodes = d
        /\ \A e \in scene'.edges : {e[1], e[2]} \subseteq Ids(disk.nodes)
    BY <2>2 DEF Loaded
  <2> HIDE DEF d
  <2>4. Ids(d) = Ids(disk.nodes)
    BY <2>1 DEF Ids
  <2> QED BY <2>2, <2>3, <2>4
<1>7. ASSUME NEW b \in Builders, Begin(b) \/ FoldOne(b) \/ Prune(b) \/ WriteFails(b)
      PROVE  EdgesFollowNodes'
  <2>1. b \in Threads /\ b # Main /\ UNCHANGED scene
    BY <1>7, SceneAssumption DEF Threads, Begin, FoldOne, Prune, WriteFails
  <2>2. stage'[Main] = stage[Main]
    BY <1>1, <1>7, <2>1 DEF Begin, FoldOne, Prune, WriteFails, Goto
  <2> QED BY <1>2, <2>1, <2>2
<1>8. ASSUME NEW t \in Threads, Swap(t) PROVE EdgesFollowNodes'
  <2>1. draft[t] \in Seq(Node)
    BY DEF IInv, TypeOK
  <2>2. scene'.nodes = Stamped(draft[t]) /\ scene'.edges = Relations(draft[t])
    BY <1>8 DEF Swap
  <2> QED BY <2>1, <2>2, RelationsOfStamped
<1>9. ASSUME NEW t \in Threads, WriteNodes(t) \/ WriteEmb(t) \/ WriteEdges(t)
      PROVE  EdgesFollowNodes'
  <2>1. UNCHANGED scene /\ stage[t] \in {"nodes", "emb", "edges"}
    BY <1>9 DEF WriteNodes, WriteEmb, WriteEdges
  <2>2. stage'[Main] = stage[Main] \/ t = Main
    BY <1>1, <1>9 DEF WriteNodes, WriteEmb, WriteEdges, Goto
  <2> QED BY <1>2, <2>1, <2>2
<1> QED BY <1>3, <1>4, <1>5, <1>6, <1>7, <1>8, <1>9 DEF Next, Install

(* The edges name the nodes beside them, from the end of every start on, if    *)
(* the surveyed map is never empty: seeding an empty map derives nothing.      *)
THEOREM EdgesTheorem ==
  ASSUME \A survey \in Surveys : DOMAIN survey # {}
  PROVE  Spec => []EdgesFollowNodes
<1>1. Init => EdgesFollowNodes
  BY SceneAssumption DEF Init, EmptyScene, EdgesFollowNodes, Started, Threads
<1>2. IInv /\ EdgesFollowNodes /\ [Next]_vars => EdgesFollowNodes'
  BY EdgesStep
<1> QED BY <1>1, <1>2, StoreInvariant, PTL DEF Spec

-----------------------------------------------------------------------------
(* The surveyed objects.  Everything a list says of them is carried from the   *)
(* files to the scene, from the scene to a draft, and back; KInv says so of    *)
(* all three, drafts only while their thread is about to swap them in.         *)

(* Of a map node: it has a surveyed name, and only a seen one has a cloud.     *)
Shaped(nodes) ==
  \A i \in 1..Len(nodes) :
    /\ IsMap(nodes[i]) <=> nodes[i].id \in MapNames
    /\ nodes[i].cloud => nodes[i].n > 0

GroundedIn(nodes, at) ==
  \A i \in 1..Len(nodes) : IsMap(nodes[i]) /\ nodes[i].n > 0 =>
    nodes[i].box \subseteq Hull(at[nodes[i].id])

Sound(nodes, at) == Shaped(nodes) /\ GroundedIn(nodes, at)

(* The list follows a survey: it names every object of it, and shows those     *)
(* never seen where it has them.                                               *)
Follows(nodes, survey) ==
  /\ \A i \in 1..Len(nodes) :
       IsMap(nodes[i]) /\ nodes[i].n = 0 /\ nodes[i].id \in DOMAIN survey =>
         nodes[i].box = survey[nodes[i].id]
  /\ \A m \in DOMAIN survey : \E i \in 1..Len(nodes) : nodes[i].id = m

SightedMore(at, later) == \A m \in MapNames : at[m] \subseteq later[m]

LEMMA HullGrows ==
  ASSUME NEW S \in SUBSET Places, NEW T \in SUBSET Places, S \subseteq T
  PROVE  Hull(S) \subseteq Hull(T)
BY DEF Hull

LEMMA HullOfHull ==
  ASSUME NEW S \in SUBSET Places, NEW B, B \subseteq Hull(S), NEW p \in Places
  PROVE  Hull(B \cup {p}) \subseteq Hull(S \cup {p}) /\ p \in Hull(S \cup {p})
<1>1. Places \subseteq Int
  BY SceneAssumption DEF Places
<1>2. ASSUME NEW x \in Hull(B \cup {p}) PROVE x \in Hull(S \cup {p})
  <2>1. PICK a \in B \cup {p}, b \in B \cup {p} : x \in Places /\ a <= x /\ x <= b
    BY DEF Hull
  <2>2. \E c \in S \cup {p} : c <= a /\ a \in Int
    BY <1>1 DEF Hull
  <2>3. \E c \in S \cup {p} : b <= c /\ b \in Int
    BY <1>1 DEF Hull
  <2> QED BY <1>1, <2>1, <2>2, <2>3 DEF Hull
<1>3. p \in Hull(S \cup {p})
  BY <1>1 DEF Hull
<1> QED BY <1>2, <1>3

LEMMA SoundLater ==
  ASSUME NEW nodes \in Seq(Node), NEW at \in [MapNames -> SUBSET Places],
         NEW later \in [MapNames -> SUBSET Places], SightedMore(at, later), Sound(nodes, at)
  PROVE  Sound(nodes, later)
<1> SUFFICES ASSUME NEW i \in 1..Len(nodes), IsMap(nodes[i]), nodes[i].n > 0
             PROVE  nodes[i].box \subseteq Hull(later[nodes[i].id])
  BY DEF Sound, GroundedIn
<1>1. nodes[i].id \in MapNames /\ nodes[i].box \subseteq Hull(at[nodes[i].id])
  BY DEF Sound, Shaped, GroundedIn
<1>2. Hull(at[nodes[i].id]) \subseteq Hull(later[nodes[i].id])
  BY <1>1, HullGrows DEF SightedMore
<1> QED BY <1>1, <1>2

LEMMA RetainedChain ==
  ASSUME NEW a \in Seq(Node), NEW b \in Seq(Node), NEW c \in Seq(Node), Shaped(a), Shaped(b),
         Retained(a, b), Retained(b, c)
  PROVE  Retained(a, c)
<1> SUFFICES ASSUME NEW i \in 1..Len(a), IsMap(a[i])
             PROVE  \E k \in 1..Len(c) : /\ c[k].id = a[i].id /\ c[k].n >= a[i].n
                                         /\ a[i].emb # NoEmb => c[k].emb # NoEmb
  BY DEF Retained
<1>1. PICK j \in 1..Len(b) : /\ b[j].id = a[i].id /\ b[j].n >= a[i].n
                             /\ a[i].emb # NoEmb => b[j].emb # NoEmb
  BY DEF Retained
<1>2. IsMap(b[j])
  BY <1>1 DEF Shaped
<1>3. PICK k \in 1..Len(c) : /\ c[k].id = b[j].id /\ c[k].n >= b[j].n
                             /\ b[j].emb # NoEmb => c[k].emb # NoEmb
  BY <1>2 DEF Retained
<1>4. a[i].n \in Nat /\ b[j].n \in Nat /\ c[k].n \in Nat
  <2>1. a[i] \in Node /\ b[j] \in Node /\ c[k] \in Node
    OBVIOUS
  <2> QED BY <2>1, NodeFields
<1> QED BY <1>1, <1>3, <1>4

LEMMA RetainedSelf == ASSUME NEW a \in Seq(Node) PROVE Retained(a, a)
<1>1. \A i \in 1..Len(a) : a[i].n \in Nat
  <2>1. \A i \in 1..Len(a) : a[i] \in Node
    OBVIOUS
  <2> QED BY <2>1, NodeFields
<1> QED BY <1>1 DEF Retained

(* Stamping rooms and reading the files change nothing of this.                *)
LEMMA AlikeKept ==
  ASSUME NEW nodes \in Seq(Node), NEW d \in Seq(Node), Alike(nodes, d), NEW at, Sound(nodes, at)
  PROVE  /\ Sound(d, at) /\ Retained(nodes, d)
         /\ \A survey : Follows(nodes, survey) => Follows(d, survey)
<1>1. \A i \in 1..Len(nodes) : nodes[i].n \in Nat
  <2>1. \A i \in 1..Len(nodes) : nodes[i] \in Node
    OBVIOUS
  <2> QED BY <2>1, NodeFields
<1>2. Sound(d, at)
  BY DEF Alike, Sound, Shaped, GroundedIn, IsMap
<1>3. Retained(nodes, d)
  BY <1>1 DEF Alike, Retained
<1>4. ASSUME NEW survey, Follows(nodes, survey) PROVE Follows(d, survey)
  BY <1>4 DEF Alike, Follows, IsMap
<1> QED BY <1>2, <1>3, <1>4

(* The cap drops no map node and changes none.                                 *)
LEMMA CappedKept ==
  ASSUME NEW nodes \in Seq(Node), NEW d, d = Capped(nodes), NEW at, Sound(nodes, at),
         NEW survey \in Surveys, Follows(nodes, survey)
  PROVE  Sound(d, at) /\ Retained(nodes, d) /\ Follows(d, survey)
<1>1. /\ \A k \in 1..Len(d) : \E i \in 1..Len(nodes) : d[k] = nodes[i]
      /\ \A i \in 1..Len(nodes) : IsMap(nodes[i]) => \E k \in 1..Len(d) : d[k] = nodes[i]
  <2>1. \A k \in 1..Len(d) : \E i \in 1..Len(nodes) : d[k] = nodes[i]
    BY CappedKeepsNewest, SMTT(60)
  <2>2. \A i \in 1..Len(nodes) : IsMap(nodes[i]) => \E k \in 1..Len(d) : d[k] = nodes[i]
    BY CappedKeepsNewest, SMTT(60)
  <2> QED BY <2>1, <2>2
<1>2. \A i \in 1..Len(nodes) : nodes[i].n \in Nat
  <2>1. \A i \in 1..Len(nodes) : nodes[i] \in Node
    OBVIOUS
  <2> QED BY <2>1, NodeFields
<1>3. Shaped(d)
  BY <1>1 DEF Sound, Shaped
<1>4. GroundedIn(d, at)
  BY <1>1 DEF Sound, GroundedIn
<1>5. Retained(nodes, d)
  <2> SUFFICES ASSUME NEW i \in 1..Len(nodes), IsMap(nodes[i])
               PROVE  \E k \in 1..Len(d) :
                        /\ d[k].id = nodes[i].id /\ d[k].n >= nodes[i].n
                        /\ nodes[i].emb # NoEmb => d[k].emb # NoEmb
    BY DEF Retained
  <2>1. PICK k \in 1..Len(d) : d[k] = nodes[i]
    BY <1>1
  <2> QED BY <1>2, <2>1
<1>6. Follows(d, survey)
  <2>1. ASSUME NEW k \in 1..Len(d), IsMap(d[k]), d[k].n = 0, d[k].id \in DOMAIN survey
        PROVE  d[k].box = survey[d[k].id]
    <3>1. PICK i \in 1..Len(nodes) : d[k] = nodes[i]
      BY <1>1
    <3> QED BY <2>1, <3>1 DEF Follows
  <2>2. ASSUME NEW m \in DOMAIN survey PROVE \E k \in 1..Len(d) : d[k].id = m
    <3>1. PICK i \in 1..Len(nodes) : nodes[i].id = m
      BY DEF Follows
    <3>2. m \in MapNames
      BY SceneAssumption
    <3>3. IsMap(nodes[i])
      BY <3>1, <3>2 DEF Sound, Shaped
    <3> QED BY <1>1, <3>1, <3>3
  <2> QED BY <2>1, <2>2 DEF Follows
<1> QED BY <1>3, <1>4, <1>5, <1>6 DEF Sound

(* What was seen is left as it is by a seeding; the rest follows the survey.   *)
LEMMA SeededKept ==
  ASSUME NEW nodes \in Seq(Node), NEW survey \in Surveys, NEW embeds \in BOOLEAN,
         NEW d, d = Seeded(nodes, survey, embeds), NEW at, Sound(nodes, at)
  PROVE  Sound(d, at) /\ Retained(nodes, d) /\ Follows(d, survey)
<1>1. /\ d \in Seq(Node) /\ Len(nodes) <= Len(d)
      /\ \A i \in 1..Len(nodes) : d[i].id = nodes[i].id /\ d[i].n = nodes[i].n
      /\ \A i \in 1..Len(nodes) :
           \/ d[i] = nodes[i] /\ ~(Surveyed(nodes[i].id, survey) /\ nodes[i].n = 0)
           \/ FreshOf(d[i], survey) /\ (nodes[i].emb # NoEmb => d[i].emb # NoEmb)
      /\ \A i \in 1..Len(d) : i \in 1..Len(nodes) \/ FreshOf(d[i], survey)
      /\ \A m \in DOMAIN survey : \E i \in 1..Len(d) : d[i].id = m
  BY SeededKeeps, SMTT(60)
<1>2. \A i \in 1..Len(nodes) : nodes[i].n \in Nat /\ i \in 1..Len(d)
  <2>1. \A i \in 1..Len(nodes) : nodes[i] \in Node
    OBVIOUS
  <2> QED BY <1>1, <2>1, NodeFields
<1>3. \A i \in 1..Len(d) :
        FreshOf(d[i], survey)
        \/ (i \in 1..Len(nodes) /\ d[i] = nodes[i]
            /\ ~(Surveyed(nodes[i].id, survey) /\ nodes[i].n = 0))
  BY <1>1
<1>4. Shaped(d)
  BY <1>3 DEF Sound, Shaped, FreshOf
<1>5. GroundedIn(d, at)
  BY <1>3 DEF Sound, GroundedIn, FreshOf
<1>6. Retained(nodes, d)
  <2> SUFFICES ASSUME NEW i \in 1..Len(nodes), IsMap(nodes[i])
               PROVE  /\ d[i].id = nodes[i].id /\ d[i].n >= nodes[i].n
                      /\ nodes[i].emb # NoEmb => d[i].emb # NoEmb
    BY <1>2 DEF Retained
  <2> QED BY <1>1, <1>2
<1>7. Follows(d, survey)
  <2>1. ASSUME NEW i \in 1..Len(d), IsMap(d[i]), d[i].n = 0, d[i].id \in DOMAIN survey
        PROVE  d[i].box = survey[d[i].id]
    <3>1. CASE FreshOf(d[i], survey)
      BY <3>1 DEF FreshOf
    <3>2. CASE ~FreshOf(d[i], survey)
      <4>1. i \in 1..Len(nodes) /\ d[i] = nodes[i]
            /\ ~(Surveyed(nodes[i].id, survey) /\ nodes[i].n = 0)
        BY <1>3, <3>2
      <4>2. nodes[i].id \in MapNames
        BY <2>1, <4>1 DEF Sound, Shaped
      <4> QED BY <2>1, <4>1, <4>2 DEF Surveyed
    <3> QED BY <3>1, <3>2
  <2> QED BY <1>1, <2>1 DEF Follows
<1> QED BY <1>4, <1>5, <1>6, <1>7 DEF Sound

(* One observation: a node it falls on is the old one with more sightings.     *)
LEMMA UpdatedKeeps ==
  ASSUME NEW node \in Node, NEW obs \in Observation, NEW u \in UpdatedNodes(node, obs)
  PROVE  /\ u.id = node.id /\ u.n > node.n /\ u.n > 0 /\ u.src = node.src
         /\ node.emb # NoEmb => u.emb # NoEmb
         /\ \A S \in SUBSET Places :
              (node.cloud => node.box \subseteq Hull(S)) => u.box \subseteq Hull(S \cup {obs.at})
<1> DEFINE box == IF node.cloud THEN Hull(node.box \cup {obs.at}) ELSE {obs.at}
           last == IF obs.last > node.last THEN obs.last ELSE node.last
           emb == IF obs.emb /\ (node.emb = NoEmb \/ node.n = 0) THEN node.id ELSE node.emb
           n == node.n + obs.n
<1>1. PICK p \in box :
        u = [node EXCEPT !.n = n, !.last = last, !.emb = emb, !.box = box, !.at = p,
                         !.cloud = TRUE]
  BY DEF UpdatedNodes
<1>2. obs.n \in Nat \ {0} /\ obs.at \in Places
  BY DEF Observation
<1>3. node.n \in Nat /\ node.id \in AllIds
  BY NodeFields
<1>4. node.emb # NoEmb => emb # NoEmb
  BY <1>3, SceneAssumption DEF AllIds
<1>5. n > node.n /\ n > 0
  BY <1>2, <1>3
<1>6. ASSUME NEW S \in SUBSET Places, node.cloud => node.box \subseteq Hull(S)
      PROVE  box \subseteq Hull(S \cup {obs.at})
  BY <1>2, <1>6, HullOfHull
<1> HIDE DEF box, last, emb, n
<1>7. u.id = node.id /\ u.n = n /\ u.src = node.src /\ u.emb = emb /\ u.box = box
  BY <1>1 DEF Node
<1> QED BY <1>4, <1>5, <1>6, <1>7

LEMMA FoldChanges ==
  ASSUME NEW nodes \in Seq(Node), NEW obs \in Observation, NEW id \in Nat,
         NEW d \in Fold(nodes, obs, id)
  PROVE  /\ Len(nodes) <= Len(d)
         /\ \A i \in 1..Len(nodes) : i \in 1..Len(d)
              /\ (d[i] = nodes[i] \/ d[i] \in UpdatedNodes(nodes[i], obs))
         /\ \A i \in 1..Len(d) : i \in 1..Len(nodes) \/ d[i] = NodeFromObs(obs, id)
<1>1. ASSUME NEW j \in 1..Len(nodes), NEW u \in UpdatedNodes(nodes[j], obs),
             d = [nodes EXCEPT ![j] = u]
      PROVE  /\ Len(d) = Len(nodes)
             /\ \A i \in 1..Len(nodes) : d[i] = nodes[i] \/ d[i] \in UpdatedNodes(nodes[i], obs)
  BY <1>1
<1>2. CASE InReach(nodes, obs) # {}
  <2>1. Closest(nodes, obs) \in 1..Len(nodes)
    BY <1>2, ClosestInReach DEF InReach, SameClass
  <2>2. PICK u \in UpdatedNodes(nodes[Closest(nodes, obs)], obs) :
          d = [nodes EXCEPT ![Closest(nodes, obs)] = u]
    BY <1>2 DEF Fold
  <2> QED BY <1>1, <2>1, <2>2
<1>3. CASE InReach(nodes, obs) = {} /\ Boxed(nodes, obs) # {}
  <2>1. Boxed(nodes, obs) \in SUBSET Nat /\ Boxed(nodes, obs) \subseteq 1..Len(nodes)
    BY DEF Boxed, SameClass
  <2>2. Min(Boxed(nodes, obs)) \in 1..Len(nodes)
    BY <1>3, <2>1, MinIsLeast
  <2>3. PICK u \in UpdatedNodes(nodes[Min(Boxed(nodes, obs))], obs) :
          d = [nodes EXCEPT ![Min(Boxed(nodes, obs))] = u]
    BY <1>3 DEF Fold
  <2> QED BY <1>1, <2>2, <2>3
<1>4. CASE InReach(nodes, obs) = {} /\ Boxed(nodes, obs) = {}
  <2> DEFINE new == NodeFromObs(obs, id)
  <2>1. d = Append(nodes, new)
    BY <1>4 DEF Fold
  <2> HIDE DEF new
  <2>2. Len(d) = Len(nodes) + 1 /\ Len(nodes) \in Nat /\ d[Len(d)] = new
        /\ \A i \in 1..Len(nodes) : d[i] = nodes[i]
    BY <2>1
  <2> QED BY <2>2 DEF new
<1> QED BY <1>2, <1>3, <1>4

After(at, old, new, p) ==
  [m \in MapNames |-> at[m] \cup IF m \in Gained(old, new) THEN {p} ELSE {}]

LEMMA FoldKept ==
  ASSUME NEW nodes \in Seq(Node), NEW obs \in Observation, NEW id \in Nat,
         NEW d \in Fold(nodes, obs, id), NEW at \in [MapNames -> SUBSET Places], NEW later,
         later = After(at, nodes, d, obs.at),
         Sound(nodes, at), NEW survey \in Surveys, Follows(nodes, survey)
  PROVE  /\ Sound(d, later) /\ Retained(nodes, d) /\ Follows(d, survey)
         /\ later \in [MapNames -> SUBSET Places] /\ SightedMore(at, later)
<1>1. /\ Len(nodes) <= Len(d)
      /\ \A i \in 1..Len(nodes) : i \in 1..Len(d)
           /\ (d[i] = nodes[i] \/ d[i] \in UpdatedNodes(nodes[i], obs))
      /\ \A i \in 1..Len(d) : i \in 1..Len(nodes) \/ d[i] = NodeFromObs(obs, id)
  BY FoldChanges
<1>2. later \in [MapNames -> SUBSET Places] /\ SightedMore(at, later)
  BY ObservationFields DEF SightedMore, After
<1>3. ASSUME NEW i \in 1..Len(nodes)
      PROVE  /\ nodes[i].n \in Nat /\ d[i].id = nodes[i].id /\ d[i].n >= nodes[i].n
             /\ d[i].src = nodes[i].src /\ (nodes[i].emb # NoEmb => d[i].emb # NoEmb)
             /\ d[i] = nodes[i] \/ (d[i].n > 0 /\ d[i].n > nodes[i].n)
  <2>1. nodes[i] \in Node
    OBVIOUS
  <2>2. nodes[i].n \in Nat
    BY <2>1, NodeFields
  <2>3. CASE d[i] = nodes[i]
    BY <2>2, <2>3
  <2>4. CASE d[i] \in UpdatedNodes(nodes[i], obs)
    <3>1. d[i].n \in Nat
      BY <2>1, <2>4, UpdatedIsNode, NodeFields
    <3> QED BY <2>1, <2>2, <2>4, <3>1, UpdatedKeeps
  <2> QED BY <1>1, <2>3, <2>4
<1>4. ASSUME NEW i \in 1..Len(d), i \notin 1..Len(nodes)
      PROVE  d[i].n > 0 /\ ~IsMap(d[i]) /\ d[i].id \notin MapNames
  <2>1. d[i] = NodeFromObs(obs, id)
    BY <1>1, <1>4
  <2> QED BY <2>1, SceneAssumption DEF NodeFromObs, IsMap, Observation
<1>5. Shaped(d)
  <2> SUFFICES ASSUME NEW i \in 1..Len(d)
               PROVE  (IsMap(d[i]) <=> d[i].id \in MapNames) /\ (d[i].cloud => d[i].n > 0)
    BY DEF Shaped
  <2>1. CASE i \in 1..Len(nodes)
    <3>1. (IsMap(nodes[i]) <=> nodes[i].id \in MapNames) /\ (nodes[i].cloud => nodes[i].n > 0)
      BY <2>1 DEF Sound, Shaped
    <3> QED BY <1>3, <2>1, <3>1 DEF IsMap
  <2>2. CASE i \notin 1..Len(nodes)
    BY <1>4, <2>2
  <2> QED BY <2>1, <2>2
<1>6. GroundedIn(d, later)
  <2> SUFFICES ASSUME NEW i \in 1..Len(d), IsMap(d[i]), d[i].n > 0
               PROVE  d[i].box \subseteq Hull(later[d[i].id])
    BY DEF GroundedIn
  <2>1. i \in 1..Len(nodes)
    BY <1>4
  <2>2. IsMap(nodes[i]) /\ nodes[i].id \in MapNames /\ d[i].id = nodes[i].id
    BY <1>3, <2>1 DEF Sound, Shaped, IsMap
  <2>3. CASE d[i] = nodes[i]
    <3>1. nodes[i].box \subseteq Hull(at[nodes[i].id])
      BY <2>1, <2>2, <2>3 DEF Sound, GroundedIn
    <3>2. Hull(at[nodes[i].id]) \subseteq Hull(later[nodes[i].id])
      BY <1>2, <2>2, HullGrows DEF SightedMore
    <3> QED BY <2>3, <3>1, <3>2
  <2>4. CASE d[i] # nodes[i]
    <3> DEFINE m == nodes[i].id
    <3>1. d[i] \in UpdatedNodes(nodes[i], obs) /\ d[i].n > nodes[i].n
      BY <1>1, <1>3, <2>1, <2>4
    <3>2. m \in Gained(nodes, d)
      BY <2>1, <2>2, <3>1 DEF Gained
    <3>3. later[m] = at[m] \cup {obs.at} /\ at[m] \in SUBSET Places
      BY <2>2, <3>2 DEF After
    <3>4. nodes[i].cloud => nodes[i].box \subseteq Hull(at[m])
      BY <2>1, <2>2 DEF Sound, Shaped, GroundedIn
    <3>5. nodes[i] \in Node
      BY <2>1
    <3>6. d[i].box \subseteq Hull(at[m] \cup {obs.at})
      BY <3>1, <3>3, <3>4, <3>5, UpdatedKeeps
    <3> QED BY <2>2, <3>3, <3>6
  <2> QED BY <2>3, <2>4
<1>7. Retained(nodes, d)
  BY <1>1, <1>3 DEF Retained
<1>8. Follows(d, survey)
  <2>1. ASSUME NEW i \in 1..Len(d), IsMap(d[i]), d[i].n = 0, d[i].id \in DOMAIN survey
        PROVE  d[i].box = survey[d[i].id]
    <3>1. i \in 1..Len(nodes) /\ d[i] = nodes[i]
      BY <1>3, <1>4, <2>1
    <3> QED BY <2>1, <3>1 DEF Follows
  <2>2. ASSUME NEW m \in DOMAIN survey PROVE \E i \in 1..Len(d) : d[i].id = m
    <3>1. PICK i \in 1..Len(nodes) : nodes[i].id = m
      BY DEF Follows
    <3> QED BY <1>1, <1>3, <3>1
  <2> QED BY <2>1, <2>2 DEF Follows
<1> QED BY <1>2, <1>5, <1>6, <1>7, <1>8 DEF Sound

(* A thread with a draft that will be swapped in, and what the draft says of   *)
(* the surveyed objects: all the scene does, and what the map does.            *)
Drafting(t) == stage[t] \in {"fold", "swap"}

KInv ==
  /\ Retained(disk.nodes, scene.nodes)
  /\ Sound(scene.nodes, sightedAt) /\ Sound(disk.nodes, sightedAt)
  /\ Started => Follows(scene.nodes, worldMap)
  /\ \A t \in Threads : Drafting(t) =>
       /\ Retained(scene.nodes, draft[t]) /\ Sound(draft[t], sightedAt)
       /\ Follows(draft[t], worldMap)

(* KInv of the next state, said without priming its parts.                     *)
LEMMA KeptNext ==
  ASSUME Retained(disk'.nodes, scene'.nodes),
         Sound(scene'.nodes, sightedAt'), Sound(disk'.nodes, sightedAt'),
         Started' => Follows(scene'.nodes, worldMap'),
         \A t \in Threads : stage'[t] \in {"fold", "swap"} =>
           /\ Retained(scene'.nodes, draft'[t]) /\ Sound(draft'[t], sightedAt')
           /\ Follows(draft'[t], worldMap')
  PROVE  KInv'
<1>1. Retained(disk.nodes, scene.nodes)'
  BY DEF Retained
<1>2. Sound(scene.nodes, sightedAt)' /\ Sound(disk.nodes, sightedAt)'
  BY DEF Sound, Shaped, GroundedIn
<1>3. Started' => Follows(scene.nodes, worldMap)'
  BY DEF Follows
<1>4. ASSUME NEW t \in Threads, Drafting(t)'
      PROVE  /\ Retained(scene.nodes, draft[t])' /\ Sound(draft[t], sightedAt)'
             /\ Follows(draft[t], worldMap)'
  <2>1. /\ Retained(scene'.nodes, draft'[t]) /\ Sound(draft'[t], sightedAt')
        /\ Follows(draft'[t], worldMap')
    BY <1>4 DEF Drafting
  <2>2. Retained(scene.nodes, draft[t])'
    BY <2>1 DEF Retained
  <2>3. Sound(draft[t], sightedAt)'
    BY <2>1 DEF Sound, Shaped, GroundedIn
  <2>4. Follows(draft[t], worldMap)'
    BY <2>1 DEF Follows
  <2> QED BY <2>2, <2>3, <2>4
<1> QED BY <1>1, <1>2, <1>3, <1>4 DEF KInv

LEMMA KeptInit == Init => KInv
<1> SUFFICES ASSUME Init PROVE KInv
  OBVIOUS
<1>1. scene.nodes = <<>> /\ disk.nodes = <<>> /\ Main \in Threads
      /\ stage = [t \in Threads |-> IF t = Main THEN "seed" ELSE "idle"]
  BY DEF Init, EmptyScene, Threads
<1>2. ~Started /\ \A t \in Threads : ~Drafting(t)
  BY <1>1 DEF Started, Drafting
<1>3. Len(scene.nodes) = 0 /\ Len(disk.nodes) = 0
  BY <1>1
<1>4. 1..0 = {}
  OBVIOUS
<1> QED BY <1>2, <1>3, <1>4 DEF KInv, Sound, Shaped, GroundedIn, Retained

(* A step that leaves the lists, the map and the sightings alone.              *)
LEMMA KeptAside ==
  ASSUME KInv, UNCHANGED <<scene, disk, draft, worldMap, sightedAt>>, Started' => Started,
         \A t \in Threads : Drafting(t)' => Drafting(t)
  PROVE  KInv'
BY DEF KInv, Drafting, Sound, Shaped, GroundedIn, Retained, Follows

LEMMA KeptSeed == ASSUME IInv, KInv, Seed PROVE KInv'
<1>1. /\ Main \in Threads /\ scene.nodes \in Seq(Node) /\ lock = Main
      /\ worldMap \in Surveys /\ draft \in [Threads -> Seq(Node)]
      /\ stage[Main] = "seed" /\ \A t \in Threads : t # Main => stage[t] = "idle"
      /\ stage \in [Threads -> {"idle", "seed", "fold", "swap", "nodes", "emb", "edges"}]
  BY DEF Threads, Seed, IInv, TypeOK, Locked
<1>2. PICK embeds \in BOOLEAN :
        draft' = [draft EXCEPT ![Main] = Seeded(scene.nodes, worldMap, embeds)]
  BY DEF Seed
<1> DEFINE d == Seeded(scene.nodes, worldMap, embeds)
<1>3. Sound(d, sightedAt) /\ Retained(scene.nodes, d) /\ Follows(d, worldMap)
  BY <1>1, SeededKept DEF KInv
<1>4. draft'[Main] = d
  BY <1>1, <1>2
<1> HIDE DEF d
<1>8. UNCHANGED <<scene, disk, worldMap, sightedAt>>
  BY DEF Seed, known
<1>5. PICK label \in {"idle", "swap"} :
        /\ stage' = [stage EXCEPT ![Main] = label]
        /\ label = "idle" => DOMAIN worldMap = {}
  BY DEF Seed, Goto
<1>6. \A t \in Threads : stage'[t] \in {"fold", "swap"} => t = Main
  BY <1>1, <1>5 DEF Drafting
<1>7. Started' => Follows(scene.nodes, worldMap)
  <2>1. stage'[Main] = label
    BY <1>1, <1>5
  <2> QED BY <1>5, <2>1 DEF Started, Follows
<1> QED BY <1>3, <1>4, <1>6, <1>7, <1>8, KeptNext DEF KInv

LEMMA KeptBegin == ASSUME IInv, KInv, NEW b \in Builders, Begin(b) PROVE KInv'
<1>1. /\ b \in Threads /\ b # Main /\ Main \in Threads /\ lock = NoOne
      /\ draft' = [draft EXCEPT ![b] = scene.nodes] /\ stage' = [stage EXCEPT ![b] = "fold"]
      /\ UNCHANGED <<scene, disk, worldMap, sightedAt>>
  BY SceneAssumption DEF Begin, Goto, Threads, known
<1>2. \A t \in Threads : stage[t] = "idle"
  BY <1>1, SceneAssumption DEF IInv, Locked
<1>3. Started
  BY <1>1, <1>2 DEF Started
<1>4. /\ scene.nodes \in Seq(Node) /\ draft \in [Threads -> Seq(Node)]
      /\ stage \in [Threads -> {"idle", "seed", "fold", "swap", "nodes", "emb", "edges"}]
  BY DEF IInv, TypeOK
<1>5. \A t \in Threads : stage'[t] \in {"fold", "swap"} => t = b
  BY <1>1, <1>2, <1>4 DEF Drafting
<1>6. /\ Retained(scene.nodes, draft'[b]) /\ Sound(draft'[b], sightedAt)
      /\ Follows(draft'[b], worldMap) /\ Follows(scene.nodes, worldMap)
  <2>1. draft'[b] = scene.nodes
    BY <1>1, <1>4
  <2> QED BY <1>3, <1>4, <2>1, RetainedSelf DEF KInv
<1> QED BY <1>1, <1>5, <1>6, KeptNext DEF KInv

LEMMA KeptFold == ASSUME IInv, KInv, NEW b \in Builders, FoldOne(b) PROVE KInv'
<1> DEFINE obs == Head(batch[b])
           d == draft'[b]
<1>1. /\ b \in Threads /\ batch[b] \in Seq(Observation) /\ batch[b] # <<>>
      /\ stage[b] = "fold" /\ nextId \in Nat /\ worldMap \in Surveys
      /\ scene.nodes \in Seq(Node) /\ disk.nodes \in Seq(Node)
      /\ draft \in [Threads -> Seq(Node)] /\ sightedAt \in [MapNames -> SUBSET Places]
  BY DEF FoldOne, Threads, IInv, TypeOK
<1>2. obs \in Observation
  BY <1>1
<1>3. /\ d \in Fold(draft[b], obs, nextId) /\ UNCHANGED <<scene, disk, stage, worldMap>>
      /\ sightedAt' = After(sightedAt, draft[b], d, obs.at)
  BY <1>1 DEF FoldOne, After
<1>4. Sound(draft[b], sightedAt) /\ Follows(draft[b], worldMap) /\ Retained(scene.nodes, draft[b])
  BY <1>1 DEF KInv, Drafting
<1>5. draft[b] \in Seq(Node)
  BY <1>1
<1> HIDE DEF obs, d
<1>6. d \in Seq(Node)
  BY <1>1, <1>2, <1>3, <1>5, FoldAddsUp
<1>7. /\ Sound(d, sightedAt') /\ Retained(draft[b], d) /\ Follows(d, worldMap)
      /\ sightedAt' \in [MapNames -> SUBSET Places] /\ SightedMore(sightedAt, sightedAt')
  <2> DEFINE later == After(sightedAt, draft[b], d, obs.at)
  <2>1. /\ d \in Fold(draft[b], obs, nextId) /\ obs \in Observation /\ nextId \in Nat
        /\ draft[b] \in Seq(Node) /\ sightedAt \in [MapNames -> SUBSET Places]
        /\ worldMap \in Surveys /\ Sound(draft[b], sightedAt) /\ Follows(draft[b], worldMap)
    BY <1>1, <1>2, <1>3, <1>4, <1>5
  <2>2. /\ Sound(d, later) /\ Retained(draft[b], d) /\ Follows(d, worldMap)
        /\ later \in [MapNames -> SUBSET Places] /\ SightedMore(sightedAt, later)
    BY <2>1, FoldKept
  <2>3. sightedAt' = later
    BY <1>3
  <2> QED BY <2>2, <2>3
<1>8. Sound(scene.nodes, sightedAt') /\ Sound(disk.nodes, sightedAt')
  BY <1>1, <1>7, SoundLater DEF KInv
<1>9. Retained(scene.nodes, d)
  BY <1>1, <1>4, <1>5, <1>6, <1>7, RetainedChain DEF KInv, Sound
<1>10. \A t \in Threads : Drafting(t) => t = b
  BY <1>1 DEF Drafting, IInv, Locked
<1>11. \A t \in Threads : stage'[t] \in {"fold", "swap"} => t = b
  BY <1>3, <1>10 DEF Drafting
<1>12. draft'[b] = d
  BY DEF d
<1>13. Retained(disk.nodes, scene.nodes) /\ (Started => Follows(scene.nodes, worldMap))
  BY DEF KInv
<1> QED BY <1>3, <1>7, <1>8, <1>9, <1>11, <1>12, <1>13, KeptNext DEF KInv, Started

LEMMA KeptPrune == ASSUME IInv, KInv, NEW b \in Builders, Prune(b) PROVE KInv'
<1> DEFINE d == Capped(draft[b])
<1>1. /\ b \in Threads /\ b # Main /\ stage[b] = "fold" /\ worldMap \in Surveys
      /\ draft \in [Threads -> Seq(Node)] /\ draft[b] \in Seq(Node)
      /\ scene.nodes \in Seq(Node)
      /\ stage \in [Threads -> {"idle", "seed", "fold", "swap", "nodes", "emb", "edges"}]
  BY SceneAssumption DEF Prune, Threads, IInv, TypeOK
<1>2. /\ draft' = [draft EXCEPT ![b] = d] /\ stage' = [stage EXCEPT ![b] = "swap"]
      /\ UNCHANGED <<scene, disk, worldMap, sightedAt>>
  BY DEF Prune, Goto, known
<1>3. Sound(draft[b], sightedAt) /\ Follows(draft[b], worldMap) /\ Retained(scene.nodes, draft[b])
  BY <1>1 DEF KInv, Drafting
<1>4. Sound(d, sightedAt) /\ Retained(draft[b], d) /\ Follows(d, worldMap)
  BY <1>1, <1>3, CappedKept
<1>5. d \in Seq(Node)
  BY <1>1, CappedKeepsNewest
<1> HIDE DEF d
<1>6. Retained(scene.nodes, d)
  BY <1>1, <1>3, <1>4, <1>5, RetainedChain DEF KInv, Sound
<1>7. \A t \in Threads : stage'[t] \in {"fold", "swap"} => t = b
  BY <1>1, <1>2 DEF Drafting, IInv, Locked
<1>8. draft'[b] = d /\ (Started' => Started) /\ Main \in Threads
  BY <1>1, <1>2 DEF Started, Threads
<1>9. /\ Retained(disk.nodes, scene.nodes) /\ (Started => Follows(scene.nodes, worldMap))
      /\ Sound(scene.nodes, sightedAt) /\ Sound(disk.nodes, sightedAt)
  BY DEF KInv
<1> QED BY <1>2, <1>4, <1>6, <1>7, <1>8, <1>9, KeptNext DEF KInv

LEMMA KeptSwap == ASSUME IInv, KInv, NEW t \in Threads, Swap(t) PROVE KInv'
<1> DEFINE d == Stamped(draft[t])
<1>1. /\ stage[t] = "swap" /\ draft[t] \in Seq(Node) /\ scene.nodes \in Seq(Node)
      /\ disk.nodes \in Seq(Node) /\ lock = t
      /\ stage \in [Threads -> {"idle", "seed", "fold", "swap", "nodes", "emb", "edges"}]
  BY DEF Swap, IInv, TypeOK, Locked
<1>2. /\ scene'.nodes = d /\ stage' = [stage EXCEPT ![t] = "nodes"]
      /\ UNCHANGED <<disk, draft, worldMap, sightedAt>>
  BY DEF Swap, Goto, known
<1>3. d \in Seq(Node) /\ Alike(draft[t], d)
  BY <1>1, StampedKeeps
<1> HIDE DEF d
<1>4. Sound(draft[t], sightedAt) /\ Follows(draft[t], worldMap) /\ Retained(scene.nodes, draft[t])
  BY <1>1 DEF KInv, Drafting
<1>5. Sound(d, sightedAt) /\ Retained(draft[t], d) /\ Follows(d, worldMap)
  BY <1>1, <1>3, <1>4, AlikeKept
<1>6. Sound(scene.nodes, sightedAt) /\ Sound(disk.nodes, sightedAt)
      /\ Retained(disk.nodes, scene.nodes)
  BY DEF KInv
<1>7. Retained(disk.nodes, draft[t])
  BY <1>1, <1>4, <1>6, RetainedChain DEF Sound
<1>8. Retained(disk.nodes, d)
  BY <1>1, <1>3, <1>4, <1>5, <1>6, <1>7, RetainedChain DEF Sound
<1>9. \A u \in Threads : stage'[u] \notin {"fold", "swap"}
  BY <1>1, <1>2 DEF Drafting, IInv, Locked
<1> QED BY <1>2, <1>5, <1>6, <1>8, <1>9, KeptNext DEF KInv

LEMMA KeptWrite == ASSUME IInv, KInv, NEW t \in Threads, WriteNodes(t) PROVE KInv'
<1>1. /\ stage[t] = "nodes" /\ lock = t /\ scene.nodes \in Seq(Node)
      /\ stage \in [Threads -> {"idle", "seed", "fold", "swap", "nodes", "emb", "edges"}]
      /\ disk \in [nodes : Seq(Node), emb : Seq(AllIds \cup {NoEmb}),
                    edges : SUBSET (AllIds \X AllIds)]
  BY DEF WriteNodes, IInv, TypeOK, Locked
<1>2. /\ disk'.nodes = scene.nodes /\ stage' = [stage EXCEPT ![t] = "emb"]
      /\ UNCHANGED <<scene, draft, worldMap, sightedAt>>
  BY <1>1 DEF WriteNodes, Goto, known
<1>3. Retained(scene.nodes, scene.nodes)
  BY <1>1, RetainedSelf
<1>4. (\A u \in Threads : stage'[u] \notin {"fold", "swap"}) /\ (Started' => Started) /\ Main \in Threads
  BY <1>1, <1>2 DEF Drafting, Started, IInv, Locked, Threads
<1>5. Sound(scene.nodes, sightedAt) /\ (Started => Follows(scene.nodes, worldMap))
  BY DEF KInv
<1> QED BY <1>2, <1>3, <1>4, <1>5, KeptNext DEF KInv

LEMMA KeptRestart == ASSUME IInv, KInv, Restart PROVE KInv'
<1> DEFINE d == Loaded(disk).nodes
<1>1. /\ scene'.nodes = d /\ UNCHANGED <<disk, sightedAt>>
      /\ stage' = [t \in Threads |-> IF t = Main THEN "seed" ELSE "idle"]
      /\ Main \in Threads
  BY DEF Restart, Threads
<1>2. d \in Seq(Node) /\ Alike(disk.nodes, d) /\ disk.nodes \in Seq(Node)
  BY LoadedKeeps DEF IInv, TypeOK
<1> HIDE DEF d
<1>3. Sound(disk.nodes, sightedAt)
  BY DEF KInv
<1>4. Sound(d, sightedAt) /\ Retained(disk.nodes, d)
  BY <1>2, <1>3, AlikeKept
<1>5. ~Started' /\ \A t \in Threads : stage'[t] \notin {"fold", "swap"}
  BY <1>1 DEF Started, Drafting
<1> QED BY <1>1, <1>3, <1>4, <1>5, KeptNext DEF KInv

LEMMA KeptStep == IInv /\ KInv /\ [Next]_vars => KInv'
<1> SUFFICES ASSUME IInv, KInv, [Next]_vars PROVE KInv'
  OBVIOUS
<1>1. /\ Main \in Threads /\ Builders \subseteq Threads /\ Main \notin Builders
      /\ stage \in [Threads -> {"idle", "seed", "fold", "swap", "nodes", "emb", "edges"}]
      /\ disk \in [nodes : Seq(Node), emb : Seq(AllIds \cup {NoEmb}),
                    edges : SUBSET (AllIds \X AllIds)]
  BY SceneAssumption DEF Threads, IInv, TypeOK
<1>2. CASE UNCHANGED vars
  BY <1>2, KeptAside DEF vars, known, work, Started, Drafting
<1>3. CASE Persist
  <2>1. /\ UNCHANGED <<scene, disk, draft, worldMap, sightedAt>>
        /\ stage' = [stage EXCEPT ![Main] = "nodes"] /\ stage[Main] = "idle"
    BY <1>1, <1>3 DEF Persist, Goto, known
  <2> QED BY <1>1, <2>1, KeptAside DEF Started, Drafting
<1>4. ASSUME NEW b \in Builders, WriteFails(b) PROVE KInv'
  <2>1. /\ UNCHANGED <<scene, disk, draft, worldMap, sightedAt>>
        /\ stage' = [stage EXCEPT ![b] = "idle"] /\ b # Main
    BY <1>1, <1>4 DEF WriteFails, Goto, known
  <2> QED BY <1>1, <2>1, KeptAside DEF Started, Drafting
<1>5. ASSUME NEW t \in Threads, WriteEmb(t) \/ WriteEdges(t) PROVE KInv'
  <2>1. \E label \in {"edges", "idle"} :
          /\ disk'.nodes = disk.nodes /\ UNCHANGED <<scene, draft, worldMap, sightedAt>>
          /\ stage' = [stage EXCEPT ![t] = label] /\ stage[t] \in {"emb", "edges"}
    BY <1>1, <1>5 DEF WriteEmb, WriteEdges, Goto, known
  <2>2. (Started' => Started) /\ \A u \in Threads : stage'[u] \in {"fold", "swap"} => Drafting(u)
    BY <1>1, <2>1 DEF Started, Drafting
  <2> QED BY <2>1, <2>2 DEF KInv, Drafting, Sound, Shaped, GroundedIn, Retained, Follows
<1> QED BY <1>2, <1>3, <1>4, <1>5, KeptSeed, KeptBegin, KeptFold, KeptPrune, KeptSwap, KeptWrite,
           KeptRestart DEF Next, Install

(* A list without doubles that names an object holds it once.                  *)
LEMMA HeldOnce ==
  ASSUME NEW nodes \in Seq(Node), Distinct(nodes), Follows(nodes, worldMap)
  PROVE  Complete(nodes)
<1> SUFFICES ASSUME NEW m \in DOMAIN worldMap
             PROVE  Cardinality({i \in 1..Len(nodes) : nodes[i].id = m}) = 1
  BY DEF Complete
<1>1. PICK i \in 1..Len(nodes) : nodes[i].id = m
  BY DEF Follows
<1>2. {k \in 1..Len(nodes) : nodes[k].id = m} = {i}
  BY <1>1 DEF Distinct
<1> QED BY <1>2, FS_Singleton

(* The surveyed objects survive: through detections, builds of any number of   *)
(* threads, any cap, crashes between any two writes and starts that find any   *)
(* other survey, with or without an embedding server, none is lost, doubled or *)
(* unlearnt, and none lies where neither a detection nor the survey puts it.   *)
THEOREM MapObjectsTheorem == Spec => []MapObjectsKept
<1>1. IInv /\ KInv => MapObjectsKept
  <2> SUFFICES ASSUME IInv, KInv PROVE MapObjectsKept
    OBVIOUS
  <2>1. Retained(disk.nodes, scene.nodes)
    BY DEF KInv
  <2>2. Grounded(scene.nodes) /\ Grounded(disk.nodes)
    BY DEF KInv, Sound, GroundedIn, Grounded
  <2>3. ASSUME Started PROVE AsSurveyed(scene.nodes) /\ Complete(scene.nodes)
    <3>1. scene.nodes \in Seq(Node) /\ Distinct(scene.nodes)
      BY DEF IInv, TypeOK, IdsUnique, Named
    <3>2. Follows(scene.nodes, worldMap)
      BY <2>3 DEF KInv
    <3>3. AsSurveyed(scene.nodes)
      BY <3>2 DEF Follows, AsSurveyed
    <3> QED BY <3>1, <3>2, <3>3, HeldOnce
  <2> QED BY <2>1, <2>2, <2>3 DEF MapObjectsKept
<1> QED BY <1>1, KeptInit, KeptStep, StoreInvariant, PTL DEF Spec

-----------------------------------------------------------------------------
(* What a cap may drop. *)

(* The cap never drops a fresher sighting than one it keeps.                   *)
THEOREM StalestTheorem == Spec => StalestPruned
<1> DEFINE Stalest == \A b \in Builders : Prune(b) =>
             \A i, j \in 1..Len(draft[b]) :
               LET x == draft[b][i]
                   y == draft[b][j]
               IN  /\ x.id \notin Ids(draft'[b])
                   /\ y.id \in Ids(draft'[b]) /\ ~IsMap(y)
                   => x.last <= y.last
<1>1. IInv /\ [Next]_vars => [Stalest]_vars
  <2> SUFFICES ASSUME IInv, NEW b \in Builders, Prune(b) PROVE
               \A i, j \in 1..Len(draft[b]) :
                 /\ draft[b][i].id \notin Ids(draft'[b])
                 /\ draft[b][j].id \in Ids(draft'[b]) /\ ~IsMap(draft[b][j])
                 => draft[b][i].last <= draft[b][j].last
    OBVIOUS
  <2>1. draft[b] \in Seq(Node) /\ draft'[b] = Capped(draft[b]) /\ Distinct(draft[b])
    BY DEF IInv, TypeOK, IdsUnique, Named, Prune, Threads
  <2> QED BY <2>1, CappedKeepsNewest
<1> QED BY <1>1, StoreInvariant, PTL DEF Spec, StalestPruned
=============================================================================

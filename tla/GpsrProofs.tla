----------------------------- MODULE GpsrProofs -----------------------------
(***************************************************************************)
(* What the GPSR scheduler and the executor that runs its schedule         *)
(* guarantee for any number of commands, any rooms and plans of any        *)
(* length.                                                                 *)
(***************************************************************************)
EXTENDS GpsrSchedule, GpsrExecution, FiniteSetTheorems, SequenceTheorems,
        WellFoundedInduction, TLAPS

-----------------------------------------------------------------------------
(* The schedule.  The pointers relate to the order built so far: pointer c      *)
(* counts exactly the steps of c that the order holds.                          *)

PlansOfAnyLength == [Commands -> Seq(Regions)]

LoopTyped(t) ==
  /\ t.order \in Seq(Commands \X Nat)
  /\ t.ptr \in [Commands -> Nat]
  /\ t.room \in Regions

(* Pointer c bounds the entries of c, and every step below it has an entry. *)
PointersCount(p, t) ==
  /\ \A c \in Commands : t.ptr[c] <= Len(p[c])
  /\ \A k \in 1..Len(t.order) : t.order[k][2] \in 1..t.ptr[t.order[k][1]]
  /\ \A c \in Commands : \A i \in 1..t.ptr[c] :
       \E k \in 1..Len(t.order) : t.order[k] = <<c, i>>

KeepsOrder(order0) ==
  \A j, k \in 1..Len(order0) :
    j < k /\ order0[j][1] = order0[k][1] => order0[j][2] < order0[k][2]

Sound(p, t) == LoopTyped(t) /\ PointersCount(p, t) /\ KeepsOrder(t.order)

(* A non-empty set of naturals has a least element. *)
LEMMA LeastExists ==
  ASSUME NEW S \in SUBSET Nat, S # {}
  PROVE  \E x \in S : \A y \in S : x <= y
<1>1. PICK x \in S : \A y \in S : ~ (<<y, x>> \in OpToRel(<, Nat))
  BY WFMin, NatLessThanWellFounded
<1>2. \A y \in S : ~ (y < x)
  BY <1>1 DEF OpToRel
<1> QED
  BY <1>2

(* Min picks it. *)
LEMMA MinIsLeast ==
  ASSUME NEW S \in SUBSET Nat, S # {}
  PROVE  Min(S) \in S /\ \A y \in S : Min(S) <= y
<1>1. \E x \in S : \A y \in S : x =< y
  BY LeastExists
<1> QED
  BY <1>1 DEF Min

(* The command that is served has a step left; if it needs a drive then no
   command can go on here, and none with a lower id can go on at all. *)
LEMMA ServedIsPending ==
  ASSUME NEW p, NEW t, Pending(p, t) # {}
  PROVE  /\ NextCommand(p, t) \in Pending(p, t)
         /\ NextCommand(p, t) \notin Here(p, t) =>
              /\ Here(p, t) = {}
              /\ \A d \in Pending(p, t) : NextCommand(p, t) <= d
<1>1. Here(p, t) \subseteq Pending(p, t)
  BY DEF Here
<1>2. Pending(p, t) \subseteq Nat
  BY PlanAssumption DEF Pending
<1>3. CASE Here(p, t) # {}
  BY <1>1, <1>2, <1>3, MinIsLeast DEF NextCommand
<1>4. CASE Here(p, t) = {}
  BY <1>2, <1>4, MinIsLeast DEF NextCommand
<1> QED
  BY <1>3, <1>4

(* What one iteration does. *)
LEMMA AdvanceFields ==
  ASSUME NEW p \in PlansOfAnyLength, NEW t, LoopTyped(t), Pending(p, t) # {}
  PROVE  LET c == NextCommand(p, t)
             u == Advance(p, t)
         IN  /\ c \in Commands /\ t.ptr[c] + 1 \in 1..Len(p[c])
             /\ LoopTyped(u)
             /\ Len(t.order) \in Nat /\ Len(u.order) = Len(t.order) + 1
             /\ \A k \in 1..Len(t.order) :
                  u.order[k] = t.order[k] /\ t.order[k] \in Commands \X Nat
             /\ u.order[Len(t.order) + 1] = <<c, t.ptr[c] + 1>>
             /\ u.ptr[c] = t.ptr[c] + 1
             /\ \A d \in Commands : d # c => u.ptr[d] = t.ptr[d]
             /\ u.room = IF p[c][t.ptr[c] + 1] = NoRoom THEN t.room ELSE p[c][t.ptr[c] + 1]
<1> DEFINE c == NextCommand(p, t)
           i == t.ptr[c] + 1
           r == p[c][i]
           u == Advance(p, t)
<1>1. c \in Commands /\ t.ptr[c] < Len(p[c])
  BY ServedIsPending DEF Pending
<1>2. /\ u.order = Append(t.order, <<c, i>>)
      /\ u.ptr = [t.ptr EXCEPT ![c] = i]
      /\ u.room = IF r = NoRoom THEN t.room ELSE r
  BY DEF Advance, NextRegion
<1> HIDE DEF c, u
<1>3. t.ptr[c] \in Nat /\ i \in Nat /\ i \in 1..Len(p[c])
  BY <1>1 DEF LoopTyped, PlansOfAnyLength
<1>4. r \in Regions
  BY <1>1, <1>3 DEF PlansOfAnyLength
<1>5. LoopTyped(u)
  BY <1>1, <1>2, <1>3, <1>4 DEF LoopTyped
<1>6. /\ Len(t.order) \in Nat /\ Len(u.order) = Len(t.order) + 1
      /\ \A k \in 1..Len(t.order) : u.order[k] = t.order[k] /\ t.order[k] \in Commands \X Nat
      /\ u.order[Len(t.order) + 1] = <<c, i>>
  BY <1>1, <1>2, <1>3 DEF LoopTyped
<1>7. /\ u.ptr[c] = i
      /\ \A d \in Commands : d # c => u.ptr[d] = t.ptr[d]
  BY <1>1, <1>2 DEF LoopTyped
<1> QED
  BY <1>1, <1>2, <1>3, <1>5, <1>6, <1>7 DEF c, u

LEMMA SoundAtStart ==
  ASSUME NEW p \in PlansOfAnyLength
  PROVE  Sound(p, Unscheduled)
<1>1. /\ Unscheduled.order = <<>> /\ Unscheduled.ptr = [c \in Commands |-> 0]
      /\ Unscheduled.room = NoRoom
  BY DEF Unscheduled
<1>2. LoopTyped(Unscheduled)
  BY <1>1 DEF LoopTyped, Regions
<1>3. PointersCount(p, Unscheduled)
  BY <1>1 DEF PointersCount, PlansOfAnyLength
<1>4. KeepsOrder(Unscheduled.order)
  BY <1>1 DEF KeepsOrder
<1> QED
  BY <1>2, <1>3, <1>4 DEF Sound

LEMMA SoundAfterAdvance ==
  ASSUME NEW p \in PlansOfAnyLength, NEW t, Sound(p, t), Pending(p, t) # {}
  PROVE  Sound(p, Advance(p, t))
<1> DEFINE c == NextCommand(p, t)
           i == t.ptr[c] + 1
           u == Advance(p, t)
<1>1. /\ c \in Commands /\ i \in 1..Len(p[c])
      /\ LoopTyped(u)
      /\ Len(t.order) \in Nat /\ Len(u.order) = Len(t.order) + 1
      /\ \A k \in 1..Len(t.order) : u.order[k] = t.order[k] /\ t.order[k] \in Commands \X Nat
      /\ u.order[Len(t.order) + 1] = <<c, i>>
      /\ u.ptr[c] = i
      /\ \A d \in Commands : d # c => u.ptr[d] = t.ptr[d]
  BY AdvanceFields DEF Sound
<1>2. t.ptr \in [Commands -> Nat] /\ \A d \in Commands : Len(p[d]) \in Nat
  BY DEF Sound, LoopTyped, PlansOfAnyLength
<1>3. t.ptr[c] \in Nat /\ i = t.ptr[c] + 1
  BY <1>1, <1>2
<1> HIDE DEF c, i, u
<1>4. \A d \in Commands : t.ptr[d] <= u.ptr[d] /\ u.ptr[d] \in Nat
  <2> SUFFICES ASSUME NEW d \in Commands PROVE t.ptr[d] <= u.ptr[d] /\ u.ptr[d] \in Nat
    OBVIOUS
  <2>1. CASE d = c
    BY <2>1, <1>1, <1>3
  <2>2. CASE d # c
    BY <2>2, <1>1, <1>2
  <2> QED BY <2>1, <2>2
<1>5. PointersCount(p, u)
  <2>1. ASSUME NEW d \in Commands PROVE u.ptr[d] <= Len(p[d])
    <3>1. CASE d = c
      BY <3>1, <1>1, <1>2
    <3>2. CASE d # c
      BY <3>2, <1>1 DEF Sound, PointersCount
    <3> QED BY <3>1, <3>2
  <2>2. ASSUME NEW k \in 1..Len(u.order)
        PROVE  u.order[k][2] \in 1..u.ptr[u.order[k][1]]
    <3>1. CASE k = Len(t.order) + 1
      <4>1. u.order[k][1] = c /\ u.order[k][2] = i
        BY <3>1, <1>1
      <4> QED
        BY <4>1, <1>1, <1>3
    <3>2. CASE k \in 1..Len(t.order)
      <4> DEFINE e == t.order[k]
      <4>1. u.order[k] = e /\ e[1] \in Commands /\ e[2] \in 1..t.ptr[e[1]]
        BY <3>2, <1>1 DEF Sound, PointersCount
      <4> HIDE DEF e
      <4>2. t.ptr[e[1]] \in Nat /\ u.ptr[e[1]] \in Nat /\ t.ptr[e[1]] <= u.ptr[e[1]]
        BY <4>1, <1>2, <1>4
      <4> QED
        BY <4>1, <4>2
    <3> QED
      BY <3>1, <3>2, <1>1
  <2>3. ASSUME NEW d \in Commands, NEW j \in 1..u.ptr[d]
        PROVE  \E k \in 1..Len(u.order) : u.order[k] = <<d, j>>
    <3>1. CASE d = c /\ j = i
      <4>1. Len(t.order) + 1 \in 1..Len(u.order)
        BY <1>1
      <4> QED
        BY <3>1, <4>1, <1>1
    <3>2. CASE ~ (d = c /\ j = i)
      <4>1. j \in 1..t.ptr[d]
        <5>1. CASE d = c
          BY <5>1, <3>2, <1>1, <1>3
        <5>2. CASE d # c
          BY <5>2, <1>1
        <5> QED BY <5>1, <5>2
      <4>2. PICK k \in 1..Len(t.order) : t.order[k] = <<d, j>>
        BY <4>1 DEF Sound, PointersCount
      <4>3. k \in 1..Len(u.order) /\ u.order[k] = <<d, j>>
        BY <4>2, <1>1
      <4> QED
        BY <4>3
    <3> QED
      BY <3>1, <3>2
  <2> QED
    BY <2>1, <2>2, <2>3 DEF PointersCount
<1>6. KeepsOrder(u.order)
  <2> SUFFICES ASSUME NEW j \in 1..Len(u.order), NEW k \in 1..Len(u.order),
                      j < k, u.order[j][1] = u.order[k][1]
               PROVE  u.order[j][2] < u.order[k][2]
    BY DEF KeepsOrder
  <2>1. j \in 1..Len(t.order)
    BY <1>1
  <2>2. CASE k \in 1..Len(t.order)
    BY <2>1, <2>2, <1>1 DEF Sound, KeepsOrder
  <2>3. CASE k = Len(t.order) + 1
    <3>1. t.order[j][1] = c
      BY <2>1, <2>3, <1>1
    <3>2. t.order[j][2] \in 1..t.ptr[c]
      BY <2>1, <3>1 DEF Sound, PointersCount
    <3>3. u.order[j][2] = t.order[j][2] /\ u.order[k][2] = i
      BY <2>1, <2>3, <1>1
    <3> QED
      BY <3>2, <3>3, <1>3
  <2> QED
    BY <2>2, <2>3, <1>1
<1> QED
  BY <1>1, <1>5, <1>6 DEF Sound, u

(* The steps of the plans are finitely many. *)
LEMMA StepsAreFinite ==
  ASSUME NEW p \in PlansOfAnyLength
  PROVE  IsFiniteSet(StepsOf(p)) /\ TotalSteps(p) \in Nat
<1> DEFINE f == [c \in Commands |-> {c} \X (1..Len(p[c]))]
           T == {{c} \X (1..Len(p[c])) : c \in Commands}
<1>1. f \in Surjection(Commands, T)
  BY DEF Surjection
<1>2. IsFiniteSet(T)
  BY <1>1, FS_Surjection, PlanAssumption
<1>3. \A S \in T : IsFiniteSet(S)
  <2> SUFFICES ASSUME NEW c \in Commands PROVE IsFiniteSet({c} \X (1..Len(p[c])))
    OBVIOUS
  <2>1. Len(p[c]) \in Nat
    BY DEF PlansOfAnyLength
  <2>2. IsFiniteSet(1..Len(p[c]))
    BY <2>1, FS_Interval
  <2>3. IsFiniteSet({c})
    BY FS_Singleton
  <2> QED BY <2>2, <2>3, FS_Product
<1>4. IsFiniteSet(UNION T)
  BY <1>2, <1>3, FS_UNION
<1> QED
  BY <1>4, FS_CardinalityType DEF StepsOf, TotalSteps

(* The order built so far holds different steps of the plans, so that it is
   complete when, and only when, it is as long as they are together. *)
LEMMA OrderOfSteps ==
  ASSUME NEW p \in PlansOfAnyLength, NEW t, Sound(p, t)
  PROVE  /\ \A k \in 1..Len(t.order) : t.order[k] \in StepsOf(p)
         /\ \A j, k \in 1..Len(t.order) : t.order[j] = t.order[k] => j = k
         /\ Pending(p, t) = {} => \A x \in StepsOf(p) : \E k \in 1..Len(t.order) : t.order[k] = x
<1>1. /\ t.order \in Seq(Commands \X Nat) /\ t.ptr \in [Commands -> Nat]
      /\ \A c \in Commands : Len(p[c]) \in Nat
  BY DEF Sound, LoopTyped, PlansOfAnyLength
<1>2. ASSUME NEW k \in 1..Len(t.order)
      PROVE  t.order[k] \in StepsOf(p)
  <2> DEFINE e == t.order[k]
  <2>1. e \in Commands \X Nat /\ e[2] \in 1..t.ptr[e[1]]
    BY <1>1 DEF Sound, PointersCount
  <2> HIDE DEF e
  <2>2. e[1] \in Commands /\ t.ptr[e[1]] \in Nat /\ t.ptr[e[1]] <= Len(p[e[1]]) /\ Len(p[e[1]]) \in Nat
    BY <2>1, <1>1 DEF Sound, PointersCount
  <2>3. e[2] \in 1..Len(p[e[1]]) /\ e = <<e[1], e[2]>>
    BY <2>1, <2>2
  <2>4. e \in {e[1]} \X (1..Len(p[e[1]]))
    BY <2>3
  <2> QED
    BY <2>2, <2>4 DEF StepsOf, e
<1>3. ASSUME NEW j \in 1..Len(t.order), NEW k \in 1..Len(t.order), t.order[j] = t.order[k]
      PROVE  j = k
  <2>1. j \in Nat /\ k \in Nat /\ t.order[j][2] \in Nat
    BY <1>1
  <2>2. ~(j < k) /\ ~(k < j)
    BY <1>3, <2>1 DEF Sound, KeepsOrder
  <2> QED BY <2>1, <2>2
<1>4. ASSUME Pending(p, t) = {}, NEW x \in StepsOf(p)
      PROVE  \E k \in 1..Len(t.order) : t.order[k] = x
  <2>1. PICK c \in Commands : x \in {c} \X (1..Len(p[c]))
    BY DEF StepsOf
  <2>2. x = <<c, x[2]>> /\ x[2] \in 1..Len(p[c])
    BY <2>1
  <2>3. ~(t.ptr[c] < Len(p[c])) /\ t.ptr[c] \in Nat /\ Len(p[c]) \in Nat
    BY <1>1, <1>4 DEF Pending
  <2>4. x[2] \in 1..t.ptr[c]
    BY <2>2, <2>3
  <2>5. \E k \in 1..Len(t.order) : t.order[k] = <<c, x[2]>>
    BY <2>4 DEF Sound, PointersCount
  <2> QED BY <2>2, <2>5
<1> QED
  BY <1>2, <1>3, <1>4

LEMMA CompleteByCount ==
  ASSUME NEW p \in PlansOfAnyLength, NEW t, Sound(p, t)
  PROVE  Pending(p, t) = {} <=> Len(t.order) = TotalSteps(p)
<1> DEFINE n == Len(t.order)
<1>1. /\ n \in Nat /\ t.order \in Seq(Commands \X Nat)
      /\ IsFiniteSet(1..n) /\ Cardinality(1..n) = n
  <2>1. n \in Nat /\ t.order \in Seq(Commands \X Nat)
    BY DEF Sound, LoopTyped
  <2> QED BY <2>1, FS_Interval
<1>2. t.order \in [1..n -> StepsOf(p)]
  <2>1. \A k \in 1..n : t.order[k] \in StepsOf(p)
    BY OrderOfSteps
  <2>2. t.order = [k \in 1..n |-> t.order[k]]
    BY <1>1
  <2> QED BY <2>1, <2>2
<1>3. t.order \in Injection(1..n, StepsOf(p))
  BY <1>2, OrderOfSteps DEF Injection, IsInjective
<1>4. Cardinality(1..n) = TotalSteps(p) <=> t.order \in Surjection(1..n, StepsOf(p))
  BY <1>3, StepsAreFinite, FS_Injection DEF TotalSteps
<1>5. ASSUME Pending(p, t) = {} PROVE n = TotalSteps(p)
  <2>1. t.order \in Surjection(1..n, StepsOf(p))
    BY <1>2, <1>5, OrderOfSteps DEF Surjection
  <2> QED BY <2>1, <1>1, <1>4
<1>6. ASSUME n = TotalSteps(p), NEW c \in Pending(p, t) PROVE FALSE
  <2>1. t.order \in Surjection(1..n, StepsOf(p))
    BY <1>1, <1>4, <1>6
  <2>2. c \in Commands /\ t.ptr[c] < Len(p[c]) /\ t.ptr[c] \in Nat /\ Len(p[c]) \in Nat
    BY DEF Pending, Sound, LoopTyped, PlansOfAnyLength
  <2>3. <<c, t.ptr[c] + 1>> \in {c} \X (1..Len(p[c]))
    BY <2>2
  <2>4. <<c, t.ptr[c] + 1>> \in StepsOf(p)
    BY <2>2, <2>3 DEF StepsOf
  <2>5. PICK k \in 1..n : t.order[k] = <<c, t.ptr[c] + 1>>
    BY <2>1, <2>4 DEF Surjection
  <2>6. t.order[k][2] \in 1..t.ptr[t.order[k][1]]
    BY DEF Sound, PointersCount
  <2>7. t.ptr[c] + 1 \in 1..t.ptr[c]
    BY <2>5, <2>6
  <2> QED BY <2>2, <2>7
<1> QED
  BY <1>5, <1>6

(* Interleaved is the loop run to its end. *)
IsRun(p, n, f) == f = [k \in 0..n |-> IF k = 0 THEN Unscheduled ELSE Advance(p, f[k - 1])]
RunOf(p) ==
  CHOOSE run : run = [k \in 0..TotalSteps(p) |->
                        IF k = 0 THEN Unscheduled ELSE Advance(p, run[k - 1])]

LEMMA RunExists ==
  ASSUME NEW p, NEW n \in Nat
  PROVE  \E f : IsRun(p, n, f)
<1> DEFINE Bad == {m \in Nat : ~ \E f : IsRun(p, m, f)}
<1>1. SUFFICES ASSUME Bad # {} PROVE FALSE
  OBVIOUS
<1>2. PICK m \in Bad : \A q \in Bad : m <= q
  BY <1>1, LeastExists
<1>3. CASE m = 0
  <2> DEFINE g == [k \in 0..0 |-> Unscheduled]
  <2>1. g = [k \in 0..0 |-> IF k = 0 THEN Unscheduled ELSE Advance(p, g[k - 1])]
    OBVIOUS
  <2>2. IsRun(p, m, g)
    BY <2>1, <1>3 DEF IsRun
  <2> QED BY <1>2, <2>2
<1>4. CASE m # 0
  <2>1. m \in Nat /\ m - 1 \in Nat /\ ~(m <= m - 1)
    BY <1>4
  <2>2. m - 1 \notin Bad
    BY <1>2, <2>1
  <2>3. PICK f : IsRun(p, m - 1, f)
    BY <2>1, <2>2
  <2> DEFINE g == [k \in 0..m |-> IF k = m THEN Advance(p, f[m - 1]) ELSE f[k]]
  <2>4. ASSUME NEW k \in 0..m
        PROVE  g[k] = IF k = 0 THEN Unscheduled ELSE Advance(p, g[k - 1])
    <3>1. CASE k = m
      <4>1. g[k] = Advance(p, f[m - 1]) /\ g[k - 1] = f[m - 1]
        BY <3>1, <1>4, <2>1
      <4> QED BY <4>1, <3>1, <1>4
    <3>2. CASE k # m
      <4>1. k \in 0..(m - 1) /\ g[k] = f[k]
        BY <3>2, <2>1
      <4>2. f[k] = IF k = 0 THEN Unscheduled ELSE Advance(p, f[k - 1])
        BY <4>1, <2>3, Zenon DEF IsRun
      <4>3. CASE k = 0
        BY <4>1, <4>2, <4>3
      <4>4. CASE k # 0
        <5>1. k - 1 \in 0..m /\ k - 1 # m
          BY <4>4, <3>2, <2>1
        <5>2. g[k - 1] = f[k - 1]
          BY <5>1
        <5> QED BY <4>1, <4>2, <4>4, <5>2
      <4> QED BY <4>3, <4>4
    <3> QED BY <3>1, <3>2
  <2> HIDE DEF g
  <2>5. g = [k \in 0..m |-> g[k]]
    BY DEF g
  <2>6. g = [k \in 0..m |-> IF k = 0 THEN Unscheduled ELSE Advance(p, g[k - 1])]
    BY <2>4, <2>5, Zenon
  <2>7. IsRun(p, m, g)
    BY <2>6 DEF IsRun
  <2> QED BY <1>2, <2>7
<1> QED BY <1>3, <1>4

LEMMA InterleavedRuns ==
  ASSUME NEW p \in PlansOfAnyLength
  PROVE  \E t : Sound(p, t) /\ Pending(p, t) = {} /\ Interleaved(p) = t.order
<1> DEFINE N == TotalSteps(p)
           run == RunOf(p)
<1>1. N \in Nat
  BY StepsAreFinite
<1>2. run = [k \in 0..N |-> IF k = 0 THEN Unscheduled ELSE Advance(p, run[k - 1])]
  BY <1>1, RunExists DEF RunOf, IsRun
<1>3. Interleaved(p) = run[N].order
  BY Zenon DEF Interleaved, RunOf
<1> HIDE DEF run
<1>4. run[0] = Unscheduled
  <2>1. 0 \in 0..N
    BY <1>1
  <2> QED BY <1>2, <2>1, Zenon
<1>5. ASSUME NEW k \in 1..N PROVE run[k] = Advance(p, run[k - 1])
  <2>1. k \in 0..N /\ k # 0
    BY <1>1
  <2> QED BY <1>2, <2>1, Zenon
<1> DEFINE Good(k) == Sound(p, run[k]) /\ Len(run[k].order) = k
           Bad == {k \in 0..N : ~Good(k)}
<1>6. Good(0)
  BY <1>4, SoundAtStart DEF Unscheduled
<1>7. ASSUME NEW k \in 1..N, Good(k - 1) PROVE Good(k)
  <2> DEFINE t == run[k - 1]
  <2>1. Sound(p, t) /\ Len(t.order) = k - 1 /\ k - 1 # N
    BY <1>7, <1>1
  <2>2. Pending(p, t) # {}
    BY <2>1, CompleteByCount
  <2>3. Sound(p, Advance(p, t)) /\ Len(Advance(p, t).order) = Len(t.order) + 1
    BY <2>1, <2>2, SoundAfterAdvance, AdvanceFields DEF Sound
  <2> QED BY <2>1, <2>3, <1>5
<1>8. Bad = {}
  <2>1. SUFFICES ASSUME Bad # {} PROVE FALSE
    OBVIOUS
  <2>2. PICK k \in Bad : \A q \in Bad : k <= q
    <3>1. Bad \in SUBSET Nat
      OBVIOUS
    <3> QED BY <2>1, <3>1, LeastExists
  <2> HIDE DEF Good
  <2>3. k # 0
    BY <2>2, <1>6
  <2>4. k \in 1..N /\ k - 1 \in 0..N /\ ~(k <= k - 1)
    BY <2>2, <2>3, <1>1
  <2>5. Good(k - 1)
    BY <2>2, <2>4
  <2> QED BY <2>2, <2>4, <2>5, <1>7
<1>9. Good(N)
  BY <1>1, <1>8
<1>10. Pending(p, run[N]) = {}
  BY <1>9, CompleteByCount
<1> QED BY <1>3, <1>9, <1>10

-----------------------------------------------------------------------------
(* Travel.  First as interleave() sees it, every step ending where it starts:   *)
(* every change of room of the interleaved run is one that the serial run makes *)
(* for the very same step, because a command that could go on where the robot   *)
(* is would have gone on before it left.                                        *)

(* x is where the robot comes from when it gets to y, if no step moves it. *)
Adjoins(p, run, x, y) ==
  /\ <<x, y>> \in run
  /\ \A z \in Located(p) : ~(<<x, z>> \in run /\ <<z, y>> \in run)

Changes(p, run) ==
  {y \in Located(p) :
     \A x \in Located(p) : Adjoins(p, run, x, y) => RegionAt(p, x) # RegionAt(p, y)}

(* The robot has not left the room of x while the step y that follows it there
   in the serial run, in the same room, is waiting. *)
RoomHeld(p, t) ==
  \A x, y \in Located(p) :
    /\ Adjoins(p, InTurn(p), x, y) /\ RegionAt(p, x) = RegionAt(p, y)
    /\ x[2] <= t.ptr[x[1]] /\ y[2] > t.ptr[y[1]]
    => t.room = RegionAt(p, x)

(* The loop's room is that of the last step that has one. *)
RoomOfLast(p, t) ==
  t.room # NoRoom =>
    \E k \in 1..Len(t.order) :
      /\ RegionAt(p, t.order[k]) = t.room
      /\ \A i \in (k + 1)..Len(t.order) : RegionAt(p, t.order[i]) = NoRoom

(* The robot gets to the room of the k-th step from another, or from nowhere. *)
Enters(p, order0, k) ==
  /\ RegionAt(p, order0[k]) # NoRoom
  /\ \A j \in 1..(k - 1) :
       /\ RegionAt(p, order0[j]) # NoRoom
       /\ \A i \in (j + 1)..(k - 1) : RegionAt(p, order0[i]) = NoRoom
       => RegionAt(p, order0[j]) # RegionAt(p, order0[k])

ChangesAreDue(p, t) ==
  \A k \in 1..Len(t.order) :
    Enters(p, t.order, k) => t.order[k] \in Changes(p, InTurn(p))

Frugal(p, t) == RoomHeld(p, t) /\ RoomOfLast(p, t) /\ ChangesAreDue(p, t)

LEMMA StepsByName ==
  ASSUME NEW p
  PROVE  /\ \A x \in StepsOf(p) : x = <<x[1], x[2]>> /\ x[1] \in Commands /\ x[2] \in 1..Len(p[x[1]])
         /\ \A c \in Commands : \A i \in 1..Len(p[c]) : <<c, i>> \in StepsOf(p)
<1>1. ASSUME NEW x \in StepsOf(p)
      PROVE  x = <<x[1], x[2]>> /\ x[1] \in Commands /\ x[2] \in 1..Len(p[x[1]])
  <2>1. PICK c \in Commands : x \in {c} \X (1..Len(p[c]))
    BY DEF StepsOf
  <2> QED BY <2>1
<1>2. ASSUME NEW c \in Commands, NEW i \in 1..Len(p[c])
      PROVE  <<c, i>> \in StepsOf(p)
  <2>1. <<c, i>> \in {c} \X (1..Len(p[c]))
    OBVIOUS
  <2> QED BY <2>1 DEF StepsOf
<1> QED BY <1>1, <1>2

(* A step that leads to y is of an earlier command, or earlier in y's own. *)
LEMMA AdjoinsInTurn ==
  ASSUME NEW p, NEW x \in Located(p), NEW y \in Located(p), Adjoins(p, InTurn(p), x, y)
  PROVE  x[1] < y[1] \/ (x[1] = y[1] /\ x[2] < y[2])
BY DEF Adjoins, InTurn

(* Whoever waits for a step of the room the robot is in can go on. *)
LEMMA WaitingCanGoOn ==
  ASSUME NEW p \in PlansOfAnyLength, NEW t, Sound(p, t),
         NEW x \in Located(p), NEW y \in Located(p),
         Adjoins(p, InTurn(p), x, y), RegionAt(p, x) = RegionAt(p, y),
         x[2] <= t.ptr[x[1]], y[2] > t.ptr[y[1]], t.room = RegionAt(p, x)
  PROVE  Here(p, t) # {}
<1> DEFINE d == y[1]
           z == <<d, t.ptr[d] + 1>>
<1>1. /\ x \in StepsOf(p) /\ y \in StepsOf(p)
      /\ y = <<d, y[2]>> /\ d \in Commands /\ y[2] \in 1..Len(p[d])
      /\ x = <<x[1], x[2]>> /\ x[1] \in Commands /\ x[2] \in 1..Len(p[x[1]])
  BY StepsByName DEF Located
<1>2. t.ptr[d] \in Nat /\ Len(p[d]) \in Nat /\ d \in Nat /\ x[1] \in Nat
  BY <1>1, PlanAssumption DEF Sound, LoopTyped, PlansOfAnyLength
<1>3. t.ptr[d] < Len(p[d]) /\ t.ptr[d] + 1 \in 1..Len(p[d]) /\ t.ptr[d] + 1 <= y[2]
  BY <1>1, <1>2
<1>4. d \in Pending(p, t)
  BY <1>1, <1>3 DEF Pending
<1>5. NextRegion(p, t, d) = RegionAt(p, z)
  BY DEF NextRegion, RegionAt
<1>6. z \in StepsOf(p)
  BY <1>1, <1>3, StepsByName
<1>7. CASE z = y
  <2>1. NextRegion(p, t, d) = t.room
    BY <1>5, <1>7
  <2> QED BY <1>4, <2>1 DEF Here
<1>8. CASE z # y
  <2>1. t.ptr[d] + 1 < y[2]
    BY <1>1, <1>2, <1>3, <1>8
  <2>2. <<z, y>> \in InTurn(p)
    BY <1>1, <1>6, <2>1 DEF InTurn
  <2>3. x[1] < z[1] \/ (x[1] = z[1] /\ x[2] < z[2])
    <3>1. CASE x[1] < d
      BY <3>1
    <3>2. CASE x[1] = d
      BY <3>2, <1>1, <1>2
    <3> QED BY <3>1, <3>2, AdjoinsInTurn
  <2>4. <<x, z>> \in InTurn(p)
    BY <1>1, <1>6, <2>3 DEF InTurn
  <2>5. z \notin Located(p)
    BY <2>2, <2>4 DEF Adjoins
  <2>6. RegionAt(p, z) = NoRoom
    BY <1>6, <2>5 DEF Located
  <2> QED BY <1>4, <1>5, <2>6 DEF Here
<1> QED BY <1>7, <1>8

LEMMA FrugalAtStart ==
  ASSUME NEW p \in PlansOfAnyLength
  PROVE  Frugal(p, Unscheduled)
<1>1. Unscheduled.order = <<>> /\ Unscheduled.ptr = [c \in Commands |-> 0] /\ Unscheduled.room = NoRoom
  BY DEF Unscheduled
<1>2. RoomHeld(p, Unscheduled)
  <2>1. ASSUME NEW x \in Located(p) PROVE ~(x[2] <= Unscheduled.ptr[x[1]])
    <3>1. x[1] \in Commands /\ x[2] \in 1..Len(p[x[1]])
      BY StepsByName DEF Located
    <3>2. Len(p[x[1]]) \in Nat
      BY <3>1 DEF PlansOfAnyLength
    <3> QED BY <1>1, <3>1, <3>2
  <2> QED BY <2>1 DEF RoomHeld
<1> QED
  BY <1>1, <1>2 DEF Frugal, RoomOfLast, ChangesAreDue

LEMMA FrugalAfterAdvance ==
  ASSUME NEW p \in PlansOfAnyLength, NEW t, Sound(p, t), Frugal(p, t), Pending(p, t) # {}
  PROVE  Frugal(p, Advance(p, t))
<1> DEFINE c == NextCommand(p, t)
           i == t.ptr[c] + 1
           r == p[c][i]
           u == Advance(p, t)
           n == Len(t.order)
<1>1. /\ c \in Commands /\ i \in 1..Len(p[c])
      /\ n \in Nat /\ Len(u.order) = n + 1
      /\ \A k \in 1..n : u.order[k] = t.order[k]
      /\ u.order[n + 1] = <<c, i>>
      /\ u.ptr[c] = i
      /\ \A d \in Commands : d # c => u.ptr[d] = t.ptr[d]
      /\ u.room = IF r = NoRoom THEN t.room ELSE r
  BY AdvanceFields DEF Sound
<1>2. \A d \in Commands : t.ptr[d] \in Nat /\ Len(p[d]) \in Nat /\ d \in Nat
  <2>1. t.ptr \in [Commands -> Nat]
    BY DEF Sound, LoopTyped
  <2>2. \A d \in Commands : Len(p[d]) \in Nat
    BY DEF PlansOfAnyLength
  <2> QED BY <2>1, <2>2, PlanAssumption
<1>3. RegionAt(p, <<c, i>>) = r /\ <<c, i>> \in StepsOf(p)
  BY <1>1, StepsByName DEF RegionAt
<1>4. ASSUME r \notin {NoRoom, t.room}
      PROVE  Here(p, t) = {} /\ \A d \in Pending(p, t) : c <= d
  <2>1. c \notin Here(p, t)
    BY <1>4 DEF Here, NextRegion
  <2> QED BY <2>1, ServedIsPending
<1>5. i = t.ptr[c] + 1
  OBVIOUS
<1> HIDE DEF c, i, r, u
<1>6. RoomHeld(p, u)
  <2> SUFFICES ASSUME NEW x \in Located(p), NEW y \in Located(p),
                      Adjoins(p, InTurn(p), x, y), RegionAt(p, x) = RegionAt(p, y),
                      x[2] <= u.ptr[x[1]], y[2] > u.ptr[y[1]]
               PROVE  u.room = RegionAt(p, x)
    BY DEF RoomHeld
  <2>1. /\ x = <<x[1], x[2]>> /\ x[1] \in Commands /\ x[2] \in 1..Len(p[x[1]])
        /\ y = <<y[1], y[2]>> /\ y[1] \in Commands /\ y[2] \in 1..Len(p[y[1]])
        /\ RegionAt(p, x) # NoRoom
    BY StepsByName DEF Located
  <2>2. CASE x = <<c, i>>
    <3>1. r # NoRoom /\ RegionAt(p, x) = r
      BY <2>1, <2>2, <1>3
    <3> QED BY <3>1, <1>1
  <2>3. CASE x # <<c, i>>
    <3>1. x[2] <= t.ptr[x[1]]
      <4>1. CASE x[1] = c
        <5>1. x[2] <= i /\ x[2] # i
          BY <4>1, <2>1, <2>3, <1>1
        <5> QED BY <5>1, <4>1, <2>1, <1>1, <1>2, <1>5
      <4>2. CASE x[1] # c
        BY <4>2, <2>1, <1>1
      <4> QED BY <4>1, <4>2
    <3>2. y[2] > t.ptr[y[1]]
      <4>1. CASE y[1] = c
        BY <4>1, <2>1, <1>1, <1>2, <1>5
      <4>2. CASE y[1] # c
        BY <4>2, <2>1, <1>1
      <4> QED BY <4>1, <4>2
    <3>3. t.room = RegionAt(p, x)
      BY <3>1, <3>2 DEF Frugal, RoomHeld
    <3>4. Here(p, t) # {}
      BY <3>1, <3>2, <3>3, WaitingCanGoOn
    <3> QED BY <3>3, <3>4, <1>1, <1>4
  <2> QED BY <2>2, <2>3
<1>7. RoomOfLast(p, u)
  <2> SUFFICES ASSUME u.room # NoRoom
               PROVE  \E k \in 1..(n + 1) :
                        /\ RegionAt(p, u.order[k]) = u.room
                        /\ \A m \in (k + 1)..(n + 1) : RegionAt(p, u.order[m]) = NoRoom
    BY <1>1 DEF RoomOfLast
  <2>1. CASE r = NoRoom
    <3>1. PICK k \in 1..n :
            /\ RegionAt(p, t.order[k]) = t.room
            /\ \A m \in (k + 1)..n : RegionAt(p, t.order[m]) = NoRoom
      BY <2>1, <1>1 DEF Frugal, RoomOfLast
    <3>2. ASSUME NEW m \in (k + 1)..(n + 1) PROVE RegionAt(p, u.order[m]) = NoRoom
      <4>1. CASE m = n + 1
        BY <4>1, <2>1, <1>1, <1>3
      <4>2. CASE m # n + 1
        <5>1. m \in (k + 1)..n /\ m \in 1..n
          BY <4>2, <1>1
        <5> QED BY <5>1, <3>1, <1>1
      <4> QED BY <4>1, <4>2
    <3>3. k \in 1..(n + 1) /\ RegionAt(p, u.order[k]) = u.room
      BY <3>1, <2>1, <1>1
    <3> QED BY <3>2, <3>3
  <2>2. CASE r # NoRoom
    <3>1. n + 1 \in 1..(n + 1) /\ RegionAt(p, u.order[n + 1]) = u.room
      BY <2>2, <1>1, <1>3
    <3>2. (n + 1 + 1)..(n + 1) = {}
      BY <1>1
    <3> QED BY <3>1, <3>2
  <2> QED BY <2>1, <2>2
<1>8. ChangesAreDue(p, u)
  <2> SUFFICES ASSUME NEW k \in 1..(n + 1), Enters(p, u.order, k)
               PROVE  u.order[k] \in Changes(p, InTurn(p))
    BY <1>1 DEF ChangesAreDue
  <2>1. CASE k \in 1..n
    <3>1. \A j \in 1..k : u.order[j] = t.order[j]
      BY <2>1, <1>1
    <3>2. Enters(p, t.order, k)
      <4>1. RegionAt(p, t.order[k]) # NoRoom
        BY <3>1, <2>1 DEF Enters
      <4>2. ASSUME NEW j \in 1..(k - 1), RegionAt(p, t.order[j]) # NoRoom,
                   \A m \in (j + 1)..(k - 1) : RegionAt(p, t.order[m]) = NoRoom
            PROVE  RegionAt(p, t.order[j]) # RegionAt(p, t.order[k])
        <5>1. \A m \in (j + 1)..(k - 1) : RegionAt(p, u.order[m]) = NoRoom
          BY <4>2, <3>1, <2>1, <1>1
        <5>2. j \in 1..k /\ k \in 1..k
          BY <2>1, <1>1
        <5> QED BY <5>1, <5>2, <4>2, <3>1 DEF Enters
      <4> QED BY <4>1, <4>2 DEF Enters
    <3> QED BY <3>1, <3>2, <2>1 DEF Frugal, ChangesAreDue
  <2>2. CASE k = n + 1
    <3> DEFINE y == <<c, i>>
    <3>1. r # NoRoom /\ y \in Located(p) /\ RegionAt(p, y) = r
      BY <2>2, <1>1, <1>3 DEF Enters, Located
    <3>2. r # t.room
      <4> SUFFICES ASSUME r = t.room PROVE FALSE
        OBVIOUS
      <4>1. PICK j \in 1..n :
              /\ RegionAt(p, t.order[j]) = t.room
              /\ \A m \in (j + 1)..n : RegionAt(p, t.order[m]) = NoRoom
        BY <3>1 DEF Frugal, RoomOfLast
      <4>2. j \in 1..(k - 1) /\ u.order[j] = t.order[j] /\ k - 1 = n
        BY <2>2, <1>1
      <4>3. ASSUME NEW m \in (j + 1)..(k - 1) PROVE RegionAt(p, u.order[m]) = NoRoom
        <5>1. m \in (j + 1)..n /\ m \in 1..n
          BY <4>2, <1>1
        <5>2. u.order[m] = t.order[m] /\ RegionAt(p, t.order[m]) = NoRoom
          BY <5>1, <4>1, <1>1
        <5> QED BY <5>2
      <4>4. RegionAt(p, u.order[j]) # RegionAt(p, u.order[k])
        BY <4>1, <4>2, <4>3, <3>1 DEF Enters
      <4> QED BY <4>1, <4>2, <4>4, <3>1, <2>2, <1>1
    <3>3. Here(p, t) = {} /\ \A d \in Pending(p, t) : c <= d
      BY <3>1, <3>2, <1>4
    <3>4. ASSUME NEW x \in Located(p), Adjoins(p, InTurn(p), x, y), RegionAt(p, x) = RegionAt(p, y)
          PROVE  FALSE
      <4>1. x[1] \in Commands /\ x[2] \in 1..Len(p[x[1]])
        BY StepsByName DEF Located
      <4>2. x[1] < c \/ (x[1] = c /\ x[2] < i)
        BY <3>1, <3>4, AdjoinsInTurn
      <4>3. y[2] > t.ptr[y[1]]
        BY <1>1, <1>2, <1>5
      <4>4. CASE x[2] <= t.ptr[x[1]]
        BY <4>4, <4>3, <3>1, <3>2, <3>4 DEF Frugal, RoomHeld
      <4>5. CASE ~(x[2] <= t.ptr[x[1]])
        <5>1. x[1] \in Pending(p, t)
          BY <4>1, <4>5, <1>2 DEF Pending
        <5>2. ~(x[1] < c)
          BY <5>1, <4>1, <3>3, <1>1, <1>2
        <5> QED BY <5>2, <4>1, <4>2, <4>5, <1>1, <1>2, <1>5
      <4> QED BY <4>4, <4>5
    <3>5. y \in Changes(p, InTurn(p))
      BY <3>1, <3>4 DEF Changes
    <3> QED BY <3>5, <2>2, <1>1
  <2> QED BY <2>1, <2>2, <1>1
<1> QED
  BY <1>6, <1>7, <1>8 DEF Frugal, u

(* When the loop has ended its order is a run of all the steps. *)
LEMMA ScheduledRun ==
  ASSUME NEW p \in PlansOfAnyLength, NEW t, Sound(p, t), Pending(p, t) = {}
  PROVE  /\ Len(t.order) \in Nat
         /\ \A j, k \in 1..Len(t.order) :
              <<t.order[j], t.order[k]>> \in Scheduled(t.order) <=> j < k
         /\ \A x \in StepsOf(p) : \E k \in 1..Len(t.order) : t.order[k] = x
         /\ \A k \in 1..Len(t.order) : t.order[k] \in StepsOf(p)
<1> DEFINE run == Scheduled(t.order)
           n == Len(t.order)
<1>1. n \in Nat
  BY DEF Sound, LoopTyped
<1>2. \A j, k \in 1..n : t.order[j] = t.order[k] => j = k
  BY OrderOfSteps
<1>3. ASSUME NEW j \in 1..n, NEW k \in 1..n
      PROVE  <<t.order[j], t.order[k]>> \in run <=> j < k
  <2>1. ASSUME j < k PROVE <<t.order[j], t.order[k]>> \in run
    <3>1. <<j, k>> \in {q \in (1..n) \X (1..n) : q[1] < q[2]}
      BY <2>1
    <3> QED BY <3>1 DEF Scheduled
  <2>2. ASSUME <<t.order[j], t.order[k]>> \in run PROVE j < k
    <3>1. PICK q \in (1..n) \X (1..n) :
            q[1] < q[2] /\ t.order[j] = t.order[q[1]] /\ t.order[k] = t.order[q[2]]
      BY <2>2 DEF Scheduled
    <3>2. q[1] \in 1..n /\ q[2] \in 1..n
      OBVIOUS
    <3>3. j = q[1] /\ k = q[2]
      BY <3>1, <3>2, <1>2
    <3> QED BY <3>1, <3>3
  <2> QED BY <2>1, <2>2
<1> QED
  BY <1>1, <1>3, OrderOfSteps

LEMMA FewerChanges ==
  ASSUME NEW p \in PlansOfAnyLength, NEW t, Sound(p, t), Frugal(p, t), Pending(p, t) = {}
  PROVE  Cardinality(Changes(p, Scheduled(t.order))) <= Cardinality(Changes(p, InTurn(p)))
<1> DEFINE run == Scheduled(t.order)
           n == Len(t.order)
<1>1. n \in Nat
  BY ScheduledRun
<1>3. \A j, k \in 1..n : <<t.order[j], t.order[k]>> \in run <=> j < k
  BY ScheduledRun
<1>4. \A x \in StepsOf(p) : \E k \in 1..n : t.order[k] = x
  BY OrderOfSteps
<1>5. \A k \in 1..n : t.order[k] \in StepsOf(p)
  BY OrderOfSteps
<1> HIDE DEF run
<1>6. Changes(p, run) \subseteq Changes(p, InTurn(p))
  <2> SUFFICES ASSUME NEW y \in Changes(p, run) PROVE y \in Changes(p, InTurn(p))
    OBVIOUS
  <2>1. y \in StepsOf(p) /\ RegionAt(p, y) # NoRoom
    BY DEF Changes, Located
  <2>2. PICK k \in 1..n : t.order[k] = y
    BY <2>1, <1>4
  <2>3. ASSUME NEW j \in 1..(k - 1), RegionAt(p, t.order[j]) # NoRoom,
               \A i \in (j + 1)..(k - 1) : RegionAt(p, t.order[i]) = NoRoom
        PROVE  RegionAt(p, t.order[j]) # RegionAt(p, t.order[k])
    <3> DEFINE x == t.order[j]
    <3>1. j \in 1..n /\ j < k /\ k \in Nat
      BY <1>1
    <3>2. x \in Located(p)
      BY <2>3, <3>1, <1>5 DEF Located
    <3>3. <<x, y>> \in run
      BY <3>1, <2>2, <1>3
    <3>4. ASSUME NEW z \in Located(p), <<x, z>> \in run, <<z, y>> \in run
          PROVE  FALSE
      <4>1. PICK m \in 1..n : t.order[m] = z
        BY <1>4 DEF Located
      <4>2. j < m
        BY <3>4, <4>1, <3>1, <1>3
      <4>3. m < k
        BY <3>4, <4>1, <2>2, <1>3
      <4>4. m \in (j + 1)..(k - 1)
        BY <4>2, <4>3, <3>1, <1>1
      <4>5. RegionAt(p, z) = NoRoom
        BY <4>1, <4>4, <2>3
      <4> QED BY <4>5 DEF Located
    <3>5. Adjoins(p, run, x, y)
      BY <3>3, <3>4 DEF Adjoins
    <3> QED BY <3>2, <3>5, <2>2 DEF Changes
  <2>4. Enters(p, t.order, k)
    BY <2>1, <2>2, <2>3 DEF Enters
  <2> QED BY <2>2, <2>4 DEF Frugal, ChangesAreDue
<1>7. IsFiniteSet(Changes(p, InTurn(p)))
  <2>1. Changes(p, InTurn(p)) \in SUBSET StepsOf(p)
    BY DEF Changes, Located
  <2> QED BY <2>1, StepsAreFinite, FS_Subset
<1> QED
  BY <1>6, <1>7, FS_Subset DEF run

-----------------------------------------------------------------------------
(* Detours: what the steps that end in another room add to either run. *)

(* A run puts the steps in a total order. *)
TotalRun(p, run) ==
  /\ \A x, y \in StepsOf(p) : x # y => <<x, y>> \in run \/ <<y, x>> \in run
  /\ \A x, y, z \in StepsOf(p) : <<x, y>> \in run /\ <<y, z>> \in run => <<x, z>> \in run

(* Steps that come next, of those with a region, after one that left its own. *)
Displaced(p, e, run) ==
  {y \in Located(p) : \E w \in Leaving(p, e) : Adjoins(p, run, w, y)}

LEMMA InTurnIsTotal ==
  ASSUME NEW p \in PlansOfAnyLength
  PROVE  TotalRun(p, InTurn(p))
<1>1. \A c \in Commands : c \in Nat /\ Len(p[c]) \in Nat
  BY PlanAssumption DEF PlansOfAnyLength
<1>2. \A x \in StepsOf(p) : x = <<x[1], x[2]>> /\ x[1] \in Nat /\ x[2] \in Nat
  <2>1. ASSUME NEW x \in StepsOf(p) PROVE x = <<x[1], x[2]>> /\ x[1] \in Nat /\ x[2] \in Nat
    <3>1. x = <<x[1], x[2]>> /\ x[1] \in Commands /\ x[2] \in 1..Len(p[x[1]])
      BY StepsByName
    <3> QED BY <3>1, <1>1
  <2> QED BY <2>1
<1>3. ASSUME NEW x \in StepsOf(p), NEW y \in StepsOf(p)
      PROVE  <<x, y>> \in InTurn(p) <=> x[1] < y[1] \/ (x[1] = y[1] /\ x[2] < y[2])
  BY DEF InTurn
<1>4. ASSUME NEW x \in StepsOf(p), NEW y \in StepsOf(p), x # y
      PROVE  <<x, y>> \in InTurn(p) \/ <<y, x>> \in InTurn(p)
  <2>1. x[1] # y[1] \/ x[2] # y[2]
    BY <1>2, <1>4
  <2> QED BY <2>1, <1>2, <1>3
<1>5. ASSUME NEW x \in StepsOf(p), NEW y \in StepsOf(p), NEW z \in StepsOf(p),
             <<x, y>> \in InTurn(p), <<y, z>> \in InTurn(p)
      PROVE  <<x, z>> \in InTurn(p)
  BY <1>2, <1>3, <1>5
<1> QED BY <1>4, <1>5 DEF TotalRun

LEMMA ScheduledIsTotal ==
  ASSUME NEW p \in PlansOfAnyLength, NEW t, Sound(p, t), Pending(p, t) = {}
  PROVE  TotalRun(p, Scheduled(t.order))
<1> DEFINE run == Scheduled(t.order)
           n == Len(t.order)
<1>1. /\ n \in Nat
      /\ \A j, k \in 1..n : <<t.order[j], t.order[k]>> \in run <=> j < k
      /\ \A x \in StepsOf(p) : \E k \in 1..n : t.order[k] = x
  BY ScheduledRun
<1> HIDE DEF run
<1>2. ASSUME NEW x \in StepsOf(p), NEW y \in StepsOf(p), x # y
      PROVE  <<x, y>> \in run \/ <<y, x>> \in run
  <2>1. PICK j \in 1..n : t.order[j] = x
    BY <1>1
  <2>2. PICK k \in 1..n : t.order[k] = y
    BY <1>1
  <2>3. j < k \/ k < j
    BY <2>1, <2>2, <1>2, <1>1
  <2> QED BY <2>1, <2>2, <2>3, <1>1
<1>3. ASSUME NEW x \in StepsOf(p), NEW y \in StepsOf(p), NEW z \in StepsOf(p),
             <<x, y>> \in run, <<y, z>> \in run
      PROVE  <<x, z>> \in run
  <2>1. PICK i \in 1..n : t.order[i] = x
    BY <1>1
  <2>2. PICK j \in 1..n : t.order[j] = y
    BY <1>1
  <2>3. PICK k \in 1..n : t.order[k] = z
    BY <1>1
  <2>4. i < j /\ j < k
    BY <2>1, <2>2, <2>3, <1>1, <1>3
  <2> QED BY <2>1, <2>3, <2>4, <1>1
<1> QED BY <1>2, <1>3 DEF TotalRun, run

(* A leaving step displaces one step at most. *)
LEMMA FewDisplaced ==
  ASSUME NEW p \in PlansOfAnyLength, NEW e, NEW run, TotalRun(p, run)
  PROVE  /\ IsFiniteSet(Leaving(p, e)) /\ IsFiniteSet(Displaced(p, e, run))
         /\ Cardinality(Displaced(p, e, run)) <= Cardinality(Leaving(p, e))
<1> DEFINE L == Leaving(p, e)
           D == Displaced(p, e, run)
           f == [y \in D |-> CHOOSE w \in L : Adjoins(p, run, w, y)]
<1>1. IsFiniteSet(L)
  <2>1. L \in SUBSET StepsOf(p)
    BY DEF Leaving
  <2> QED BY <2>1, StepsAreFinite, FS_Subset
<1>2. ASSUME NEW y \in D PROVE f[y] \in L /\ Adjoins(p, run, f[y], y)
  <2>1. \E w \in L : Adjoins(p, run, w, y)
    BY DEF Displaced
  <2> QED BY <2>1
<1>3. ASSUME NEW y \in D, NEW z \in D, f[y] = f[z] PROVE y = z
  <2> HIDE DEF f
  <2>1. y \in Located(p) /\ z \in Located(p) /\ y \in StepsOf(p) /\ z \in StepsOf(p)
    BY DEF Displaced, Located
  <2>2. Adjoins(p, run, f[y], y) /\ Adjoins(p, run, f[y], z)
    BY <1>2, <1>3
  <2>3. ~(<<y, z>> \in run) /\ ~(<<z, y>> \in run)
    BY <2>1, <2>2 DEF Adjoins
  <2> QED BY <2>1, <2>3 DEF TotalRun
<1>4. f \in Injection(D, L)
  <2>1. f \in [D -> L]
    BY <1>2
  <2> HIDE DEF f
  <2> QED BY <2>1, <1>3 DEF Injection, IsInjective
<1> HIDE DEF f, L, D
<1>5. IsFiniteSet(D) /\ Cardinality(D) <= Cardinality(L)
  BY <1>1, <1>4, FS_Injection
<1> QED BY <1>1, <1>5 DEF L, D

(* Wherever the two counts differ a step has been displaced. *)
LEMMA TripsAndChanges ==
  ASSUME NEW p \in PlansOfAnyLength, NEW e, NEW run, TotalRun(p, run)
  PROVE  /\ Trips(p, e, run) \subseteq Changes(p, run) \cup Displaced(p, e, run)
         /\ Changes(p, run) \subseteq Trips(p, e, run) \cup Displaced(p, e, run)
<1>1. \A x \in Located(p) : x \in Placing(p, e)
  BY DEF Located, Placing, EndAt
<1>2. \A x \in Placing(p, e) : x \in Located(p) \/ x \in Leaving(p, e)
  BY DEF Located, Placing, Leaving
<1>3. ASSUME NEW y \in Trips(p, e, run), y \notin Changes(p, run)
      PROVE  y \in Displaced(p, e, run)
  <2>1. y \in Located(p)
    BY DEF Trips
  <2>2. PICK x \in Located(p) : Adjoins(p, run, x, y) /\ RegionAt(p, x) = RegionAt(p, y)
    BY <2>1, <1>3 DEF Changes
  <2>3. CASE x \in Leaving(p, e)
    BY <2>1, <2>2, <2>3 DEF Displaced
  <2>4. CASE x \notin Leaving(p, e)
    <3>1. EndAt(p, e, x) = RegionAt(p, y)
      BY <2>2, <2>4 DEF Leaving, Located
    <3>2. ~Leads(p, e, run, x, y)
      BY <3>1, <1>1 DEF Trips
    <3>3. PICK z \in Placing(p, e) : <<x, z>> \in run /\ <<z, y>> \in run
      BY <3>2, <2>2 DEF Leads, Adjoins
    <3>4. z \in Leaving(p, e)
      BY <3>3, <2>2, <1>2 DEF Adjoins
    <3>5. ASSUME NEW v \in Located(p), <<z, v>> \in run, <<v, y>> \in run PROVE FALSE
      <4>1. x \in StepsOf(p) /\ z \in StepsOf(p) /\ v \in StepsOf(p)
        BY DEF Located, Placing
      <4>2. <<x, v>> \in run
        BY <4>1, <3>3, <3>5 DEF TotalRun
      <4> QED BY <4>2, <3>5, <2>2 DEF Adjoins
    <3>6. Adjoins(p, run, z, y)
      BY <3>3, <3>5 DEF Adjoins
    <3> QED BY <3>4, <3>6, <2>1 DEF Displaced
  <2> QED BY <2>3, <2>4
<1>4. ASSUME NEW y \in Changes(p, run), y \notin Trips(p, e, run)
      PROVE  y \in Displaced(p, e, run)
  <2>1. y \in Located(p)
    BY DEF Changes
  <2>2. PICK x \in Placing(p, e) : Leads(p, e, run, x, y) /\ EndAt(p, e, x) = RegionAt(p, y)
    BY <2>1, <1>4 DEF Trips
  <2>3. Adjoins(p, run, x, y)
    BY <2>2, <1>1 DEF Leads, Adjoins
  <2>4. x \in Leaving(p, e)
    <3> SUFFICES ASSUME x \notin Leaving(p, e) PROVE FALSE
      OBVIOUS
    <3>1. x \in Located(p)
      BY <1>2
    <3>2. RegionAt(p, x) = RegionAt(p, y)
      BY <2>2 DEF Leaving, Placing
    <3> QED BY <3>1, <3>2, <2>3 DEF Changes
  <2> QED BY <2>1, <2>3, <2>4 DEF Displaced
<1> QED BY <1>3, <1>4

(* A finite set covered by two others. *)
LEMMA CoveredByTwo ==
  ASSUME NEW A, NEW B, NEW C, IsFiniteSet(B), IsFiniteSet(C), A \subseteq B \cup C
  PROVE  Cardinality(A) \in Nat /\ Cardinality(A) <= Cardinality(B) + Cardinality(C)
<1>1. IsFiniteSet(B \cup C) /\ IsFiniteSet(B \cap C)
  BY FS_Union, FS_Intersection
<1>2. Cardinality(B \cup C) = Cardinality(B) + Cardinality(C) - Cardinality(B \cap C)
  BY FS_Union
<1>3. /\ Cardinality(B) \in Nat /\ Cardinality(C) \in Nat
      /\ Cardinality(B \cap C) \in Nat /\ Cardinality(B \cup C) \in Nat
  BY <1>1, FS_CardinalityType
<1>4. IsFiniteSet(A) /\ Cardinality(A) <= Cardinality(B \cup C)
  BY <1>1, FS_Subset
<1>5. Cardinality(A) \in Nat
  BY <1>4, FS_CardinalityType
<1> QED BY <1>2, <1>3, <1>4, <1>5

LEMMA TravelsBounded ==
  ASSUME NEW p \in PlansOfAnyLength, NEW e, NEW t, Sound(p, t), Frugal(p, t), Pending(p, t) = {}
  PROVE  Travels(p, e, Scheduled(t.order))
           <= Travels(p, e, InTurn(p)) + 2 * Cardinality(Leaving(p, e))
<1> DEFINE run == Scheduled(t.order)
           one == InTurn(p)
           away == Cardinality(Leaving(p, e))
<1>1. TotalRun(p, run) /\ TotalRun(p, one)
  BY ScheduledIsTotal, InTurnIsTotal
<1>2. Cardinality(Changes(p, run)) <= Cardinality(Changes(p, one))
  BY FewerChanges
<1> HIDE DEF run, one
<1>3. /\ IsFiniteSet(Changes(p, run)) /\ IsFiniteSet(Changes(p, one))
      /\ IsFiniteSet(Trips(p, e, run)) /\ IsFiniteSet(Trips(p, e, one))
  <2>1. /\ Changes(p, run) \in SUBSET StepsOf(p) /\ Changes(p, one) \in SUBSET StepsOf(p)
        /\ Trips(p, e, run) \in SUBSET StepsOf(p) /\ Trips(p, e, one) \in SUBSET StepsOf(p)
    BY DEF Changes, Trips, Located
  <2> QED BY <2>1, StepsAreFinite, FS_Subset
<1>4. /\ IsFiniteSet(Leaving(p, e))
      /\ IsFiniteSet(Displaced(p, e, run)) /\ Cardinality(Displaced(p, e, run)) <= away
      /\ IsFiniteSet(Displaced(p, e, one)) /\ Cardinality(Displaced(p, e, one)) <= away
  BY <1>1, FewDisplaced
<1>5. Cardinality(Trips(p, e, run))
        <= Cardinality(Changes(p, run)) + Cardinality(Displaced(p, e, run))
  BY <1>1, <1>3, <1>4, TripsAndChanges, CoveredByTwo
<1>6. Cardinality(Changes(p, one))
        <= Cardinality(Trips(p, e, one)) + Cardinality(Displaced(p, e, one))
  BY <1>1, <1>3, <1>4, TripsAndChanges, CoveredByTwo
<1>7. /\ away \in Nat
      /\ Cardinality(Displaced(p, e, run)) \in Nat /\ Cardinality(Displaced(p, e, one)) \in Nat
      /\ Cardinality(Changes(p, run)) \in Nat /\ Cardinality(Changes(p, one)) \in Nat
      /\ Cardinality(Trips(p, e, run)) \in Nat /\ Cardinality(Trips(p, e, one)) \in Nat
  BY <1>3, <1>4, FS_CardinalityType
<1> HIDE DEF away
<1>8. Cardinality(Trips(p, e, run)) <= Cardinality(Trips(p, e, one)) + 2 * away
  BY <1>2, <1>4, <1>5, <1>6, <1>7
<1> QED BY <1>8 DEF Travels, run, one, away

-----------------------------------------------------------------------------
(* The loop of interleave(), as GpsrSchedule models it. *)

LoopIInv ==
  /\ plans \in PlansOfAnyLength /\ ends \in PlansOfAnyLength
  /\ Sound(plans, s) /\ Frugal(plans, s)

LEMMA LoopInitOK == LoopInit => LoopIInv
<1> SUFFICES ASSUME LoopInit PROVE LoopIInv
  OBVIOUS
<1>1. plans \in [Commands -> UNION {[1..n -> Regions] : n \in 0..MaxSteps}] /\ s = Unscheduled
  BY DEF LoopInit
<1>2. \A c \in Commands : plans[c] \in Seq(Regions)
  BY <1>1
<1>3. plans \in PlansOfAnyLength
  BY <1>1, <1>2 DEF PlansOfAnyLength
<1>4. ends \in PlansOfAnyLength
  <2>1. PICK away \in SUBSET StepsOf(plans) : \E to \in [away -> Rooms] :
          ends = [c \in Commands |-> [i \in 1..Len(plans[c]) |->
                    IF <<c, i>> \in away THEN to[<<c, i>>] ELSE NoRoom]]
    BY DEF LoopInit
  <2>2. PICK to \in [away -> Rooms] :
          ends = [c \in Commands |-> [i \in 1..Len(plans[c]) |->
                    IF <<c, i>> \in away THEN to[<<c, i>>] ELSE NoRoom]]
    BY <2>1
  <2>3. ASSUME NEW c \in Commands PROVE ends[c] \in Seq(Regions)
    <3>1. Len(plans[c]) \in Nat
      BY <1>2
    <3>2. \A i \in 1..Len(plans[c]) :
            (IF <<c, i>> \in away THEN to[<<c, i>>] ELSE NoRoom) \in Regions
      BY DEF Regions
    <3>3. ends[c] = [i \in 1..Len(plans[c]) |->
                       IF <<c, i>> \in away THEN to[<<c, i>>] ELSE NoRoom]
      BY <2>2
    <3> QED BY <3>1, <3>2, <3>3
  <2> QED BY <2>2, <2>3 DEF PlansOfAnyLength
<1> QED
  BY <1>1, <1>3, <1>4, SoundAtStart, FrugalAtStart DEF LoopIInv

LEMMA LoopStepOK == LoopIInv /\ [Iterate]_<<plans, ends, s>> => LoopIInv'
<1> SUFFICES ASSUME LoopIInv, [Iterate]_<<plans, ends, s>> PROVE LoopIInv'
  OBVIOUS
<1>1. CASE UNCHANGED <<plans, ends, s>>
  BY <1>1 DEF LoopIInv
<1>2. CASE Iterate
  BY <1>2, SoundAfterAdvance, FrugalAfterAdvance DEF LoopIInv, Iterate
<1> QED
  BY <1>1, <1>2

(* Type correctness of the scheduler's loop, for any commands and rooms. *)
THEOREM ScheduleTypeCorrect == LoopSpec => []LoopTypeOK
<1>1. LoopIInv => LoopTypeOK
  BY DEF LoopIInv, LoopTypeOK, Sound, LoopTyped, PlansOfAnyLength
<1> QED
  BY <1>1, LoopInitOK, LoopStepOK, PTL DEF LoopSpec

(* interleave() keeps the order of each command's steps. *)
THEOREM ScheduleKeepsOrder == LoopSpec => []StepOrderKept
<1>1. LoopIInv => StepOrderKept
  BY DEF LoopIInv, StepOrderKept, Sound, KeepsOrder
<1> QED
  BY <1>1, LoopInitOK, LoopStepOK, PTL DEF LoopSpec

(* interleave() schedules the steps of the plans and nothing else, and when its
   loop ends it has scheduled them all. *)
THEOREM ScheduleIsComplete == LoopSpec => []EveryStepScheduled
<1>1. LoopIInv => EveryStepScheduled
  <2> SUFFICES ASSUME LoopIInv PROVE EveryStepScheduled
    OBVIOUS
  <2>1. plans \in PlansOfAnyLength /\ Sound(plans, s)
    BY DEF LoopIInv
  <2>2. ASSUME NEW k \in 1..Len(s.order)
        PROVE  s.order[k][1] \in Commands /\ s.order[k][2] \in 1..Len(plans[s.order[k][1]])
    <3>1. s.order[k] \in StepsOf(plans)
      BY <2>1, OrderOfSteps
    <3> QED BY <3>1 DEF StepsOf
  <2>3. ASSUME Finished, NEW c \in Commands, NEW i \in 1..Len(plans[c])
        PROVE  \E k \in 1..Len(s.order) : s.order[k] = <<c, i>>
    <3>1. <<c, i>> \in {c} \X (1..Len(plans[c]))
      OBVIOUS
    <3>2. <<c, i>> \in StepsOf(plans)
      BY <3>1 DEF StepsOf
    <3> QED BY <2>1, <2>3, <3>2, OrderOfSteps DEF Finished
  <2> QED
    BY <2>2, <2>3 DEF EveryStepScheduled
<1> QED
  BY <1>1, LoopInitOK, LoopStepOK, PTL DEF LoopSpec

(* For any commands, rooms and plans: the interleaved run changes room at most
   as often as the serial run and twice for every step that ends elsewhere. *)
THEOREM DetoursAreBounded == LoopSpec => []DetoursBounded
<1>1. LoopIInv => DetoursBounded
  BY TravelsBounded DEF LoopIInv, DetoursBounded, Finished
<1> QED
  BY <1>1, LoopInitOK, LoopStepOK, PTL DEF LoopSpec

-----------------------------------------------------------------------------
(* The skills.  A draft is how a skill stands; an honest one claims no place but *)
(* the robot's, unless it went astray.                                          *)

Draft == [ok : BOOLEAN, where : Everywhere, at : Places \cup {NoPlace}, astray : BOOLEAN]
HonestIf(h, d) == h => (d.astray \/ d.at \in {NoPlace, d.where})
Drafts(h) == {d \in Draft : HonestIf(h, d)}

LEMMA DraftFields ==
  ASSUME NEW h, NEW d \in Drafts(h), NEW ok \in BOOLEAN
  PROVE  /\ [d EXCEPT !.ok = ok] \in Drafts(h)
         /\ d.where \in Everywhere /\ d.at \in Places \cup {NoPlace} /\ d.astray \in BOOLEAN
         /\ \A x \in Everywhere : [d EXCEPT !.where = x, !.astray = TRUE] \in Drafts(h)
         /\ \A x \in Everywhere : [d EXCEPT !.where = x, !.at = NoPlace] \in Drafts(h)
         /\ \A x \in Everywhere : \A a \in Places \cup {NoPlace} :
              [d EXCEPT !.ok = ok, !.where = x, !.at = a, !.astray = TRUE] \in Drafts(h)
         /\ \A x \in Places : [d EXCEPT !.ok = ok, !.where = x, !.at = x] \in Drafts(h)
BY DEF Drafts, Draft, HonestIf, Everywhere

LEMMA StandingDrafts ==
  ASSUME NEW w \in Everywhere, NEW a \in Places \cup {NoPlace}
  PROVE  Standing(w, a) \in Drafts(a \in {NoPlace, w})
BY DEF Standing, Drafts, Draft, HonestIf

LEMMA FailedDrafts ==
  ASSUME NEW h, NEW d \in Drafts(h)
  PROVE  Failed(d) \in Drafts(h) /\ Either(d) \subseteq Drafts(h)
BY DraftFields DEF Failed, Either

LEMMA Resolved ==
  ASSUME NEW name \in Places, NEW r \in Resolve(name)
  PROVE  r.kind \in {"pose", "point", "nothing"} /\ (r.kind = "pose" => r.place \in Places)
<1>1. Surveyed \subseteq Places
  BY SkillsAssumption
<1>2. \A k, p : Anchor(k, p).kind = k /\ Anchor(k, p).place = p
  BY DEF Anchor
<1>3. CASE name \in Surveyed
  BY <1>1, <1>2, <1>3 DEF Resolve
<1>4. CASE name \notin Surveyed /\ Alike[name] \cap Surveyed # {}
  <2>1. \E p \in Alike[name] \cap Surveyed : r = Anchor("pose", p)
    BY <1>4 DEF Resolve
  <2> QED BY <2>1, <1>1, <1>2
<1>5. CASE name \notin Surveyed /\ Alike[name] \cap Surveyed = {}
  <2>1. r \in SceneHits
    BY <1>5 DEF Resolve
  <2>2. \/ \E p \in Seeded \cap Surveyed : r = Anchor("pose", p)
        \/ r = Anchor("point", NoPlace) \/ r = Anchor("nothing", NoPlace)
    BY <2>1 DEF SceneHits
  <2> QED BY <2>2, <1>1, <1>2
<1> QED BY <1>3, <1>4, <1>5

LEMMA DroveDrafts ==
  ASSUME NEW h, NEW d \in Drafts(h), NEW name \in Places, NEW pose \in Places
  PROVE  DriveToPose(name, pose, d) \subseteq Drafts(h)
<1>1. [d EXCEPT !.ok = TRUE, !.where = pose, !.at = name, !.astray = @ \/ pose # name] \in Drafts(h)
  BY DEF Drafts, Draft, HonestIf, Everywhere
<1>2. Failed(d) \in Drafts(h)
  BY FailedDrafts
<1>3. [d EXCEPT !.ok = FALSE, !.where = Between, !.astray = TRUE] \in Drafts(h)
  BY DraftFields DEF Everywhere
<1> QED BY <1>1, <1>2, <1>3 DEF DriveToPose

LEMMA WentDrafts ==
  ASSUME NEW h, NEW d \in Drafts(h), NEW name \in Places
  PROVE  GoToNamed(name, d) \subseteq Drafts(h)
<1>1. CASE d.at = name
  BY <1>1, DraftFields DEF GoToNamed
<1>2. CASE d.at # name
  <2> DEFINE Got(r) == CASE r.kind = "pose"    -> DriveToPose(name, r.place, d)
                         [] r.kind = "point"   -> {[d EXCEPT !.ok = TRUE, !.where = x, !.at = name,
                                                             !.astray = TRUE] : x \in {d.where, Between}}
                         [] r.kind = "nothing" -> {Failed(d)}
  <2>1. GoToNamed(name, d) = UNION {Got(r) : r \in Resolve(name)}
    BY <1>2 DEF GoToNamed
  <2>2. ASSUME NEW r \in Resolve(name) PROVE Got(r) \subseteq Drafts(h)
    <3>1. CASE r.kind = "pose"
      <4>1. DriveToPose(name, r.place, d) \subseteq Drafts(h)
        BY <3>1, Resolved, DroveDrafts
      <4> QED BY <3>1, <4>1
    <3>2. CASE r.kind = "point"
      <4>1. d.where \in Everywhere /\ Between \in Everywhere
        BY DraftFields DEF Everywhere
      <4>2. \A x \in Everywhere : [d EXCEPT !.ok = TRUE, !.where = x, !.at = name, !.astray = TRUE] \in Drafts(h)
        BY DraftFields
      <4> QED BY <3>2, <4>1, <4>2
    <3>3. CASE r.kind = "nothing"
      BY <3>3, FailedDrafts
    <3> QED BY <3>1, <3>2, <3>3, Resolved
  <2> HIDE DEF Got
  <2> QED BY <2>1, <2>2
<1> QED BY <1>1, <1>2

LEMMA WentIfDrafts ==
  ASSUME NEW h, NEW d \in Drafts(h), NEW name \in Places \cup {NoPlace}
  PROVE  GoIfNamed(name, d) \subseteq Drafts(h)
BY WentDrafts DEF GoIfNamed

LEMMA RememberedDrafts ==
  ASSUME NEW h, NEW d \in Drafts(h)
  PROVE  FindViaMemory(d) \subseteq Drafts(h)
<1>1. d.where \in Everywhere /\ Between \in Everywhere
  BY DraftFields DEF Everywhere
<1>2. \A x \in Everywhere : [d EXCEPT !.where = x, !.at = NoPlace] \in Drafts(h)
  BY DraftFields
<1>3. \A x \in {d.where, Between} : Either([d EXCEPT !.where = x, !.at = NoPlace]) \subseteq Drafts(h)
  BY <1>1, <1>2, FailedDrafts
<1> QED BY <1>3 DEF FindViaMemory

LEMMA LedDrafts ==
  ASSUME NEW h, NEW d \in Drafts(h), NEW name \in Places
  PROVE  LeadTo(name, d) \subseteq Drafts(h)
<1>1. Between \in Everywhere
  BY DEF Everywhere
<1>2. LeadWithReacquire(name, d) \subseteq Drafts(h)
  <2>1. Failed(d) \in Drafts(h)
    BY FailedDrafts
  <2>2. [d EXCEPT !.ok = FALSE, !.where = Between, !.astray = TRUE] \in Drafts(h)
    BY <1>1, DraftFields
  <2>3. [d EXCEPT !.ok = TRUE, !.where = name, !.at = name] \in Drafts(h)
    BY DraftFields
  <2>4. [d EXCEPT !.ok = TRUE, !.where = Between, !.at = name, !.astray = TRUE] \in Drafts(h)
    BY <1>1, DraftFields
  <2> QED BY <2>1, <2>2, <2>3, <2>4 DEF LeadWithReacquire
<1>3. [d EXCEPT !.ok = TRUE] \in Drafts(h) /\ Failed(d) \in Drafts(h)
  BY DraftFields, FailedDrafts
<1> QED BY <1>2, <1>3, WentDrafts DEF LeadTo

LEMMA FoundDrafts ==
  ASSUME NEW h, NEW d \in Drafts(h), NEW step \in Step
  PROVE  FindObject(step, d) \subseteq Drafts(h)
<1> DEFINE Saw(x, e) == CASE x = "no_frame" -> {Failed(e)}
                          [] x = "found"    -> Either(e)
                          [] x = "none"     -> {Failed(e)} \cup FindViaMemory([e EXCEPT !.ok = TRUE])
           Looked(e) == UNION {Saw(x, e) : x \in DetectHere}
<1>1. FindObject(step, d) = UNION {Looked(e) : e \in GoIfNamed(step.place, d)}
  BY DEF FindObject
<1>2. DetectHere = {"no_frame", "none", "found"}
  BY DEF DetectHere, Seen
<1>3. ASSUME NEW e \in GoIfNamed(step.place, d), NEW x \in DetectHere
      PROVE  Saw(x, e) \subseteq Drafts(h)
  <2>1. e \in Drafts(h)
    BY WentIfDrafts DEF Step
  <2>2. Failed(e) \in Drafts(h) /\ Either(e) \subseteq Drafts(h)
    BY <2>1, FailedDrafts
  <2>3. FindViaMemory([e EXCEPT !.ok = TRUE]) \subseteq Drafts(h)
    BY <2>1, DraftFields, RememberedDrafts
  <2> QED BY <2>2, <2>3, <1>2
<1> HIDE DEF Saw
<1>4. ASSUME NEW e \in GoIfNamed(step.place, d)
      PROVE  Looked(e) \subseteq Drafts(h)
  BY <1>3
<1> HIDE DEF Looked
<1> QED BY <1>1, <1>4

LEMMA GuidedDrafts ==
  ASSUME NEW h, NEW d \in Drafts(h), NEW step \in Step
  PROVE  Guide(step, d) \subseteq Drafts(h)
<1> DEFINE Lead(e) == {Failed(e)} \cup (IF step.to = NoPlace THEN {} ELSE LeadTo(step.to, e))
<1>1. Guide(step, d) = UNION {Lead(e) : e \in GoIfNamed(step.place, d)}
  BY DEF Guide
<1>2. ASSUME NEW e \in GoIfNamed(step.place, d)
      PROVE  Lead(e) \subseteq Drafts(h)
  <2>1. e \in Drafts(h)
    BY WentIfDrafts DEF Step
  <2>2. step.to # NoPlace => LeadTo(step.to, e) \subseteq Drafts(h)
    BY <2>1, LedDrafts DEF Step
  <2> QED BY <2>1, <2>2, FailedDrafts
<1> HIDE DEF Lead
<1> QED BY <1>1, <1>2

LEMMA FollowedDrafts ==
  ASSUME NEW h, NEW d \in Drafts(h), NEW step
  PROVE  Follow(step, d) \subseteq Drafts(h)
<1>1. \A x \in Everywhere : [d EXCEPT !.where = x, !.astray = TRUE] \in Drafts(h)
  BY DraftFields
<1>2. \A x \in Everywhere : Either([d EXCEPT !.where = x, !.astray = TRUE]) \subseteq Drafts(h)
  BY <1>1, FailedDrafts
<1> QED BY <1>2, FailedDrafts DEF Follow

LEMMA AnsweredDrafts ==
  ASSUME NEW h, NEW D \in SUBSET Drafts(h), NEW sights
  PROVE  UNION {Answered(e, sights) : e \in D} \subseteq Drafts(h)
<1>1. ASSUME NEW e \in D PROVE Answered(e, sights) \subseteq Drafts(h)
  <2>1. \A ok \in BOOLEAN : [e EXCEPT !.ok = ok] \in Drafts(h)
    BY DraftFields
  <2> QED BY <2>1 DEF Answered
<1> QED BY <1>1

(* A skill leaves the robot at a place, and one that saw an honest claim leaves
   an honest claim. *)
LEMMA SkillDrafts ==
  ASSUME NEW step \in Step, step.prim \in HasSkill,
         NEW w \in Everywhere, NEW a \in Places \cup {NoPlace}
  PROVE  SkillResults(step, w, a) \subseteq Drafts(a \in {NoPlace, w})
<1> DEFINE d == Standing(w, a)
           h == (a \in {NoPlace, w})
<1>1. d \in Drafts(h)
  BY StandingDrafts
<1> HIDE DEF d, h
<1>2. GoIfNamed(step.place, d) \subseteq Drafts(h)
  BY <1>1, WentIfDrafts DEF Step
<1>3. Either(d) \subseteq Drafts(h)
  BY <1>1, FailedDrafts
<1>4. UNION {Either(e) : e \in GoIfNamed(step.place, d)} \subseteq Drafts(h)
  <2>1. \A e \in GoIfNamed(step.place, d) : Either(e) \subseteq Drafts(h)
    BY <1>2, FailedDrafts
  <2> QED BY <2>1
<1>5. CASE step.prim = "navigate"
  <2>1. Navigate(step, d) \subseteq Drafts(h)
    BY <1>1, WentDrafts, FailedDrafts DEF Navigate, Step
  <2> QED BY <1>5, <2>1 DEF SkillResults, d, h
<1>6. CASE step.prim = "find_object"
  <2>1. FindObject(step, d) \subseteq Drafts(h)
    BY <1>1, FoundDrafts
  <2> QED BY <1>6, <2>1 DEF SkillResults, d, h
<1>7. CASE step.prim = "find_person"
  <2>1. FindPerson(step, d) \subseteq Drafts(h)
    BY <1>2, AnsweredDrafts DEF FindPerson
  <2> QED BY <1>7, <2>1 DEF SkillResults, d, h
<1>8. CASE step.prim = "follow"
  <2>1. Follow(step, d) \subseteq Drafts(h)
    BY <1>1, FollowedDrafts
  <2> QED BY <1>8, <2>1 DEF SkillResults, d, h
<1>9. CASE step.prim = "guide"
  <2>1. Guide(step, d) \subseteq Drafts(h)
    BY <1>1, GuidedDrafts
  <2> QED BY <1>9, <2>1 DEF SkillResults, d, h
<1>10. CASE step.prim = "count"
  <2>1. Count(step, d) \subseteq Drafts(h)
    BY <1>2, AnsweredDrafts DEF Count
  <2> QED BY <1>10, <2>1 DEF SkillResults, d, h
<1>11. CASE step.prim \in {"say", "get_person_info", "get_object_property"}
  BY <1>11, <1>3 DEF SkillResults, Say, GetPersonInfo, GetObjectProperty, d, h
<1>12. CASE step.prim \in {"greet", "pick", "place"}
  BY <1>12, <1>4 DEF SkillResults, Greet, Pick, Place, d, h
<1> QED
  BY <1>5, <1>6, <1>7, <1>8, <1>9, <1>10, <1>11, <1>12 DEF HasSkill, h

LEMMA FallbackDrafts ==
  ASSUME NEW step, NEW w \in Everywhere, NEW a \in Places \cup {NoPlace}
  PROVE  FallbackResults(step, w, a) \subseteq Drafts(a \in {NoPlace, w})
<1> DEFINE d == Standing(w, a)
           h == (a \in {NoPlace, w})
<1>1. d \in Drafts(h) /\ Failed(d) \in Drafts(h)
  BY StandingDrafts, FailedDrafts
<1>2. \A x \in Everywhere : [d EXCEPT !.where = x, !.at = NoPlace] \in Drafts(h)
  BY DEF Drafts, Draft, HonestIf, Standing
<1>3. \A x \in Everywhere : [d EXCEPT !.ok = FALSE, !.where = x, !.astray = TRUE] \in Drafts(h)
  BY <1>1, DraftFields
<1> HIDE DEF h
<1> QED BY <1>1, <1>2, <1>3 DEF FallbackResults, h

-----------------------------------------------------------------------------
(* The executor's invariant. *)

Running == phase \in {"step", "try", "fallback"}

(* What each phase of the task says about the rest of the state. *)
Phased ==
  /\ phase \in {"point", "ask", "begin"} =>
       mode = "none" /\ queue = <<>> /\ order = <<>> /\ shared = NoPlace
  /\ phase \in {"point", "ask"} => heard = <<>>
  /\ phase = "point" => tries \in {0, 1}
  /\ phase = "serve" => mode = "serial"
  /\ Running => mode # "none" /\ (mode = "serial" => queue # <<>>)
  /\ phase \in {"score", "return"} => mode # "none" /\ queue = <<>>
  /\ phase = "over" => queue = <<>> /\ (mode = "none" => heard = <<>>)
  /\ mode = "interleaved" => queue = <<>>
  /\ phase \in {"try", "fallback"} => order # <<>>
  /\ phase = "try" => tries < Attempts /\ StepNow.prim \in HasSkill

(* Only commands that were heard are planned, and only a plan is declined. *)
Planned ==
  /\ \A c \in Commands : c \notin DOMAIN heard => plan[c] = <<>>
  /\ \A c \in Commands : plan[c] = <<>> => confirmed[c]

(* The serial executor has served the commands before those in its queue. *)
Queued ==
  mode = "serial" =>
    /\ Len(queue) <= Len(heard)
    /\ \A i \in 1..Len(queue) : queue[i] = Len(heard) - Len(queue) + i

(* The history variable and the outcomes agree. *)
OutcomesRecorded ==
  /\ \A c \in Commands : Len(oks[c]) <= Len(plan[c])
  /\ \A c \in Commands : \A i \in 1..Len(oks[c]) : oks[c][i] <=> <<c, i>> \in worked
  /\ \A e \in worked : e[2] \in 1..Len(oks[e[1]])

Unbegun(c) ==
  oks[c] = <<>> /\ status[c] = IF plan[c] = <<>> THEN "RECEIVED" ELSE "PLANNED"

Settled(c) ==
  IF SkipDeclined(c) THEN oks[c] = <<>> /\ status[c] = "PLANNED"
  ELSE Len(oks[c]) = Len(plan[c]) /\ status[c] = Summarize(oks[c])

(* The commands whose steps are being run. *)
Active == IF mode = "serial" THEN {Head(queue)} ELSE Runnable

(* Which commands are done with and which have not been touched. *)
Progress ==
  /\ \A c \in Commands : c \notin DOMAIN heard => Unbegun(c)
  /\ mode = "none" => \A c \in DOMAIN heard : Unbegun(c)
  /\ mode = "serial" => \A c \in DOMAIN heard :
       /\ c <= Len(heard) - Len(queue) => Settled(c)
       /\ c > Len(heard) - Len(queue) => Unbegun(c) \/ (Running /\ c = Head(queue))
  /\ mode = "interleaved" => \A c \in DOMAIN heard :
       Settled(c) \/ (Running /\ c \in Runnable)
  /\ Running => Active \subseteq Runnable

(* The steps left to run are those of the active commands that have no outcome
   yet, each command's in its order. *)
OrderLeft ==
  Running =>
    /\ \A k \in 1..Len(order) :
         /\ order[k][1] \in Active
         /\ order[k][2] \in (Len(oks[order[k][1]]) + 1)..Len(plan[order[k][1]])
    /\ \A c \in Active : \A i \in (Len(oks[c]) + 1)..Len(plan[c]) :
         \E k \in 1..Len(order) : order[k] = <<c, i>>
    /\ \A j, k \in 1..Len(order) :
         j < k /\ order[j][1] = order[k][1] => order[j][2] < order[k][2]

MadeProgress == {c \in Commands : status[c] \in {"DONE", "PARTIAL"}}

Scored ==
  /\ phase \notin {"return", "over"} \/ mode = "none" => solved = 0
  /\ phase \in {"return", "over"} /\ mode # "none" =>
       solved = Min({Cardinality(MadeProgress), MaxSolve})

(* Where the robot is according to the scratch dict that the next skill sees. *)
Believed ==
  IF phase \in {"try", "fallback"} THEN at[Command]
  ELSE IF mode = "serial" THEN at[Head(queue)] ELSE shared

Honest == Running /\ ~strayed => Believed \in {NoPlace, where}

ExecIInv ==
  /\ TypeOK /\ Phased /\ Planned /\ Queued /\ OutcomesRecorded
  /\ Progress /\ OrderLeft /\ Scored /\ Honest

-----------------------------------------------------------------------------
(* What the operator says becomes typed plans. *)

LEMMA PlanStepTyped ==
  ASSUME NEW raw \in RawStep
  PROVE  PlanStep(raw) \in Step
<1> USE SkillsAssumption DEF RawStep, Words
<1>1. \A w : /\ Location(w) \in Places \cup {NoPlace} /\ Room(w) \in Places \cup {NoPlace}
             /\ Anywhere(w) \in Places \cup {NoPlace}
  BY DEF Location, Room, Anywhere
<1>2. \A x, y \in Places \cup {NoPlace} : Or(x, y) \in Places \cup {NoPlace}
  BY DEF Or
<1>3. \A x, y, gaps : Grounded(x, y, gaps).place = x /\ Grounded(x, y, gaps).to = y
  BY DEF Grounded
<1>4. Ground(raw).place \in Places \cup {NoPlace} /\ Ground(raw).to \in Places \cup {NoPlace}
  <2>1. raw.prim \in HasSkill \cup {"deliver", "other"}
    OBVIOUS
  <2> USE DEF Ground
  <2>2. CASE raw.prim = "navigate"
    BY <2>2, <1>1, <1>3 DEF GroundNavigate
  <2>3. CASE raw.prim = "find_object"
    BY <2>3, <1>1, <1>2, <1>3 DEF GroundFindObject
  <2>4. CASE raw.prim = "pick"
    BY <2>4, <1>1, <1>3 DEF GroundPick
  <2>5. CASE raw.prim = "place"
    BY <2>5, <1>1, <1>3 DEF GroundPlace
  <2>6. CASE raw.prim = "deliver"
    BY <2>6, <1>1, <1>3 DEF GroundDeliver
  <2>7. CASE raw.prim = "follow"
    BY <2>7, <1>1, <1>3 DEF GroundFollow
  <2>8. CASE raw.prim = "guide"
    BY <2>8, <1>1, <1>3 DEF GroundGuide
  <2>9. CASE raw.prim = "count"
    BY <2>9, <1>1, <1>2, <1>3 DEF GroundCount, PersonWhere
  <2>10. CASE raw.prim \in {"find_person", "greet"}
    BY <2>10, <1>1, <1>3 DEF PersonWhere
  <2>11. CASE raw.prim = "get_person_info"
    BY <2>11, <1>3
  <2>12. CASE raw.prim = "get_object_property"
    BY <2>12, <1>3
  <2>13. CASE raw.prim = "say"
    BY <2>13, <1>3
  <2>14. CASE raw.prim = "other"
    BY <2>14, <1>3
  <2> QED
    BY <2>1, <2>2, <2>3, <2>4, <2>5, <2>6, <2>7, <2>8, <2>9, <2>10, <2>11, <2>12, <2>13, <2>14 DEF HasSkill
<1>5. (IF raw.prim = "other" THEN "say" ELSE raw.prim) \in HasSkill \cup {"deliver"}
  BY DEF HasSkill
<1> QED BY <1>4, <1>5 DEF PlanStep, Step

LEMMA PlanTyped ==
  ASSUME NEW raws \in Seq(RawStep)
  PROVE  GroundPlan(raws) \in Seq(Step)
<1>1. \A i \in 1..Len(raws) : PlanStep(raws[i]) \in Step
  BY PlanStepTyped
<1> QED BY <1>1 DEF GroundPlan

LEMMA RegionTyped ==
  ASSUME NEW step \in Step
  PROVE  Region(step) \in Regions
BY ExecutionAssumption DEF Region, StepLocation, Step, Regions

(* What the steps of the proof keep needing of the types. *)
HeardFacts ==
  /\ Len(heard) \in Nat /\ DOMAIN heard = 1..Len(heard)
  /\ DOMAIN heard \subseteq Commands /\ Commands \subseteq Nat
  /\ \A c \in Commands : Len(plan[c]) \in Nat /\ Len(oks[c]) \in Nat

LEMMA HeardCommands == TypeOK => HeardFacts
<1> SUFFICES ASSUME TypeOK PROVE HeardFacts
  OBVIOUS
<1>1. heard \in Seq(Seq(RawStep)) /\ DOMAIN heard \subseteq Commands
  <2>1. CASE heard \in Batches
    BY <2>1, ExecutionAssumption
  <2>2. CASE heard = <<>>
    BY <2>2
  <2> QED BY <2>1, <2>2 DEF TypeOK
<1>2. \A c \in Commands : Len(plan[c]) \in Nat /\ Len(oks[c]) \in Nat
  BY DEF TypeOK
<1>3. Len(heard) \in Nat /\ DOMAIN heard = 1..Len(heard)
  BY <1>1
<1> QED
  BY <1>1, <1>2, <1>3, PlanAssumption DEF HeardFacts

LEMMA MinOfTwo ==
  ASSUME NEW a \in Nat, NEW b \in Nat
  PROVE  Min({a, b}) \in 0..b /\ Min({a, b}) = IF a <= b THEN a ELSE b
<1>1. Min({a, b}) \in {a, b} /\ \A y \in {a, b} : Min({a, b}) <= y
  BY MinIsLeast
<1> QED BY <1>1

LEMMA NothingFails == Summarize(<<>>) = "FAILED"
BY DEF Summarize

(* The head of the queue is the first command not served yet. *)
LEMMA NextServed ==
  ASSUME TypeOK, Queued, mode = "serial", queue # <<>>
  PROVE  /\ Head(queue) \in DOMAIN heard /\ Head(queue) \in Commands
         /\ Head(queue) > Len(heard) - Len(queue)
         /\ Tail(queue) \in Seq(Commands)
         /\ Len(Tail(queue)) <= Len(heard)
         /\ \A i \in 1..Len(Tail(queue)) : Tail(queue)[i] = Len(heard) - Len(Tail(queue)) + i
         /\ \A c \in DOMAIN heard : c <= Len(heard) - Len(Tail(queue)) <=>
                 c <= Len(heard) - Len(queue) \/ c = Head(queue)
         /\ \A c \in DOMAIN heard : c > Len(heard) - Len(Tail(queue)) =>
                 c > Len(heard) - Len(queue) /\ c # Head(queue)
<1> DEFINE n == Len(heard)
           m == Len(queue)
<1>1. HeardFacts
  BY HeardCommands
<1>2. queue \in Seq(Commands) /\ m \in Nat /\ m >= 1 /\ n \in Nat /\ m <= n
  BY <1>1 DEF TypeOK, Queued, HeardFacts
<1>3. Head(queue) = n - m + 1
  <2>1. Head(queue) = queue[1] /\ 1 \in 1..m
    BY <1>2
  <2> QED BY <2>1 DEF Queued
<1>4. Tail(queue) \in Seq(Commands) /\ Len(Tail(queue)) = m - 1
  BY <1>2
<1>5. \A i \in 1..(m - 1) : Tail(queue)[i] = queue[i + 1]
  BY <1>2
<1>6. \A i \in 1..(m - 1) : queue[i + 1] = n - m + (i + 1)
  BY <1>2 DEF Queued
<1>7. \A c \in DOMAIN heard : c \in Nat /\ c \in Commands
  BY <1>1 DEF HeardFacts
<1>8. Head(queue) \in DOMAIN heard
  BY <1>1, <1>2, <1>3 DEF HeardFacts
<1> QED
  BY <1>2, <1>3, <1>4, <1>5, <1>6, <1>7, <1>8

LEMMA ReachPointOK == ExecIInv /\ ReachPoint => ExecIInv'
<1> SUFFICES ASSUME ExecIInv, ReachPoint PROVE ExecIInv'
  OBVIOUS
<1> USE DEF ExecIInv, ReachPoint, batch, done, score
<1>1. HeardFacts
  BY HeardCommands
<1>2. TypeOK'
  BY <1>1, ExecutionAssumption DEF HeardFacts, TypeOK, Phased, Everywhere
<1>3. Phased'
  BY DEF Phased, StepNow, Current, Command, TypeOK, Running
<1>4. Planned'
  BY DEF Planned
<1>5. Queued'
  BY <1>1 DEF HeardFacts, Queued, Phased, Running, TypeOK
<1>6. OutcomesRecorded'
  BY DEF OutcomesRecorded
<1>7. Progress'
  BY <1>1 DEF HeardFacts, Progress, Phased, Queued, Unbegun, Settled, SkipDeclined, Active, Runnable, Running
<1>8. OrderLeft'
  BY DEF OrderLeft, Active, Runnable, Running, Phased
<1>9. Scored'
  BY DEF Scored, Phased, MadeProgress
<1>10. Honest'
  BY DEF Honest, Believed, Running, Command, Current, Phased
<1> QED
  BY <1>2, <1>3, <1>4, <1>5, <1>6, <1>7, <1>8, <1>9, <1>10

LEMMA MissPointOK == ExecIInv /\ MissPoint => ExecIInv'
<1> SUFFICES ASSUME ExecIInv, MissPoint PROVE ExecIInv'
  OBVIOUS
<1> USE DEF ExecIInv, MissPoint, batch, done, score
<1>1. HeardFacts
  BY HeardCommands
<1>2. TypeOK'
  BY <1>1, ExecutionAssumption DEF HeardFacts, TypeOK, Phased, Everywhere
<1>3. Phased'
  BY DEF Phased, StepNow, Current, Command, TypeOK, Running
<1>4. Planned'
  BY DEF Planned
<1>5. Queued'
  BY <1>1 DEF HeardFacts, Queued, Phased, Running, TypeOK
<1>6. OutcomesRecorded'
  BY DEF OutcomesRecorded
<1>7. Progress'
  BY <1>1 DEF HeardFacts, Progress, Phased, Queued, Unbegun, Settled, SkipDeclined, Active, Runnable, Running
<1>8. OrderLeft'
  BY DEF OrderLeft, Active, Runnable, Running, Phased
<1>9. Scored'
  BY DEF Scored, Phased, MadeProgress
<1>10. Honest'
  BY DEF Honest, Believed, Running, Command, Current, Phased
<1> QED
  BY <1>2, <1>3, <1>4, <1>5, <1>6, <1>7, <1>8, <1>9, <1>10

LEMMA HearNothingOK == ExecIInv /\ HearNothing => ExecIInv'
<1> SUFFICES ASSUME ExecIInv, HearNothing PROVE ExecIInv'
  OBVIOUS
<1> USE DEF ExecIInv, HearNothing, batch, done, score
<1>1. HeardFacts
  BY HeardCommands
<1>2. TypeOK'
  BY <1>1, ExecutionAssumption DEF HeardFacts, TypeOK, Phased, Everywhere
<1>3. Phased'
  BY DEF Phased, StepNow, Current, Command, TypeOK, Running
<1>4. Planned'
  BY DEF Planned
<1>5. Queued'
  BY <1>1 DEF HeardFacts, Queued, Phased, Running, TypeOK
<1>6. OutcomesRecorded'
  BY DEF OutcomesRecorded
<1>7. Progress'
  BY <1>1 DEF HeardFacts, Progress, Phased, Queued, Unbegun, Settled, SkipDeclined, Active, Runnable, Running
<1>8. OrderLeft'
  BY DEF OrderLeft, Active, Runnable, Running, Phased
<1>9. Scored'
  BY DEF Scored, Phased, MadeProgress
<1>10. Honest'
  BY DEF Honest, Believed, Running, Command, Current, Phased
<1> QED
  BY <1>2, <1>3, <1>4, <1>5, <1>6, <1>7, <1>8, <1>9, <1>10

LEMMA ReceiveOK == ExecIInv /\ Receive => ExecIInv'
<1> SUFFICES ASSUME ExecIInv, Receive PROVE ExecIInv'
  OBVIOUS
<1> USE DEF ExecIInv, Receive, batch, done, score
<1>1. HeardFacts
  BY HeardCommands
<1>2. Len(heard') \in Nat /\ DOMAIN heard' = 1..Len(heard') /\ DOMAIN heard' \subseteq Commands /\ heard' \in Seq(Seq(RawStep))
  BY ExecutionAssumption
<1>3. \A c \in Commands : plan'[c] = IF c \in DOMAIN heard' THEN GroundPlan(heard'[c]) ELSE <<>>
  OBVIOUS
<1>4. plan' \in [Commands -> Seq(Step)]
  <2>1. ASSUME NEW c \in Commands PROVE plan'[c] \in Seq(Step)
    <3>1. CASE c \in DOMAIN heard'
      <4>1. heard'[c] \in Seq(RawStep)
        BY <3>1, <1>2
      <4> QED BY <3>1, <4>1, <1>3, PlanTyped
    <3>2. CASE c \notin DOMAIN heard'
      BY <3>2, <1>3
    <3> QED BY <3>1, <3>2
  <2> QED BY <2>1
<1>5. confirmed' \in [Commands -> BOOLEAN] /\ \A c \in Commands : plan'[c] = <<>> => confirmed'[c]
  BY DEF Decisions
<1>6. \A c \in Commands : Unbegun(c)
  BY <1>1 DEF HeardFacts, Progress, Phased
<1>7. \A c \in Commands : oks[c] = <<>> /\ status'[c] = IF plan'[c] = <<>> THEN "RECEIVED" ELSE "PLANNED"
  BY <1>6 DEF Unbegun
<1>8. TypeOK'
  BY <1>4, <1>5 DEF TypeOK, Statuses
<1>9. Phased'
  BY DEF Phased, StepNow, Current, Command, TypeOK, Running
<1>10. Planned'
  BY <1>3, <1>5 DEF Planned
<1>11. Queued'
  BY <1>1 DEF HeardFacts, Queued, Phased, Running, TypeOK
<1>12. OutcomesRecorded'
  <2>1. \A c \in Commands : Len(plan'[c]) \in Nat
    BY <1>4
  <2> QED BY <2>1, <1>7 DEF OutcomesRecorded
<1>13. Progress'
  <2>1. mode' = "none" /\ phase' = "begin"
    BY DEF Phased
  <2> QED BY <2>1, <1>7, <1>2 DEF Progress, Unbegun, Running
<1>14. OrderLeft'
  BY DEF OrderLeft, Active, Runnable, Running, Phased
<1>15. Scored'
  BY DEF Scored, Phased, MadeProgress
<1>16. Honest'
  BY DEF Honest, Believed, Running, Command, Current, Phased
<1> QED
  BY <1>8, <1>9, <1>10, <1>11, <1>12, <1>13, <1>14, <1>15, <1>16

LEMMA BeginSerialOK == ExecIInv /\ BeginSerial => ExecIInv'
<1> SUFFICES ASSUME ExecIInv, BeginSerial PROVE ExecIInv'
  OBVIOUS
<1> USE DEF ExecIInv, BeginSerial, batch, done, score
<1>1. HeardFacts
  BY HeardCommands
<1>2. Ids \in Seq(Commands) /\ Len(Ids) = Len(heard) /\ \A i \in 1..Len(heard) : Ids[i] = i
  BY <1>1 DEF HeardFacts, Ids
<1>3. TypeOK'
  BY <1>2 DEF TypeOK
<1>4. Phased'
  BY DEF Phased, StepNow, Current, Command, TypeOK, Running
<1>5. Planned'
  BY DEF Planned
<1>6. Queued'
  BY <1>1, <1>2 DEF HeardFacts, Queued
<1>7. OutcomesRecorded'
  BY DEF OutcomesRecorded
<1>8. Progress'
  <2>1. \A c \in Commands : Unbegun(c)
    BY <1>1 DEF HeardFacts, Progress, Phased
  <2>2. \A c \in DOMAIN heard : ~(c <= Len(heard) - Len(queue'))
    BY <1>1, <1>2 DEF HeardFacts
  <2> QED BY <2>1, <2>2, <1>1 DEF HeardFacts, Progress, Unbegun, Running
<1>9. OrderLeft'
  BY DEF OrderLeft, Active, Runnable, Running, Phased
<1>10. Scored'
  BY DEF Scored, Phased, MadeProgress
<1>11. Honest'
  BY DEF Honest, Believed, Running, Command, Current, Phased
<1> QED
  BY <1>3, <1>4, <1>5, <1>6, <1>7, <1>8, <1>9, <1>10, <1>11

LEMMA ServeSkipsOK == ExecIInv /\ ServeSkips => ExecIInv'
<1> SUFFICES ASSUME ExecIInv, ServeSkips PROVE ExecIInv'
  OBVIOUS
<1> USE DEF ExecIInv, ServeSkips, batch, done, score
<1>1. HeardFacts
  BY HeardCommands
<1>2. mode = "serial" /\ phase = "serve"
  BY DEF Phased
<1>3. /\ Head(queue) \in DOMAIN heard /\ Head(queue) \in Commands
      /\ Head(queue) > Len(heard) - Len(queue)
      /\ queue' \in Seq(Commands) /\ Len(queue') <= Len(heard)
      /\ \A i \in 1..Len(queue') : queue'[i] = Len(heard) - Len(queue') + i
      /\ \A c \in DOMAIN heard : c <= Len(heard) - Len(queue') =>
           c <= Len(heard) - Len(queue) \/ c = Head(queue)
      /\ \A c \in DOMAIN heard : c > Len(heard) - Len(queue') =>
           c > Len(heard) - Len(queue) /\ c # Head(queue)
  BY <1>2, NextServed
<1>4. \A c \in DOMAIN heard : c > Len(heard) - Len(queue) => Unbegun(c)
  BY <1>2 DEF Progress, Running
<1>5. \A c \in DOMAIN heard : c <= Len(heard) - Len(queue) => Settled(c)
  BY <1>2 DEF Progress
<1>6. \A c \in Commands : c \notin DOMAIN heard => Unbegun(c)
  BY DEF Progress
<1>7. TypeOK'
  BY <1>3 DEF TypeOK
<1>8. Phased'
  BY DEF Phased, StepNow, Current, Command, TypeOK, Running
<1>9. Planned'
  BY DEF Planned
<1>10. Queued'
  BY <1>3 DEF Queued
<1>11. OutcomesRecorded'
  BY DEF OutcomesRecorded
<1>12. Progress'
  <2>1. \A c \in DOMAIN heard : c <= Len(heard) - Len(queue') => Settled(c)'
    <3> SUFFICES ASSUME NEW c \in DOMAIN heard, c <= Len(heard) - Len(queue') PROVE Settled(c)'
      OBVIOUS
    <3>1. CASE c = Head(queue)
      BY <3>1, <1>3, <1>4 DEF Unbegun, Settled, SkipDeclined
    <3>2. CASE c # Head(queue)
      <4>1. Settled(c)
        BY <3>2, <1>3, <1>5
      <4> QED BY <4>1, <3>2, <1>1, <1>3 DEF Settled, SkipDeclined, HeardFacts, TypeOK
    <3> QED BY <3>1, <3>2
  <2>2. \A c \in DOMAIN heard : c > Len(heard) - Len(queue') => Unbegun(c)'
    BY <1>1, <1>3, <1>4 DEF Unbegun, TypeOK, HeardFacts
  <2>3. \A c \in Commands : c \notin DOMAIN heard => Unbegun(c)'
    BY <1>3, <1>6 DEF Unbegun, TypeOK
  <2>4. phase' = "serve" /\ mode' = "serial" /\ heard' = heard
    BY <1>2
  <2> HIDE DEF ServeSkips
  <2> QED BY <2>1, <2>2, <2>3, <2>4 DEF Progress, Running
<1>13. OrderLeft'
  BY DEF OrderLeft, Active, Runnable, Running, Phased
<1>14. Scored'
  BY DEF Scored, Phased, MadeProgress
<1>15. Honest'
  BY DEF Honest, Believed, Running, Command, Current, Phased
<1> QED
  BY <1>7, <1>8, <1>9, <1>10, <1>11, <1>12, <1>13, <1>14, <1>15

LEMMA ServeUnplannedOK == ExecIInv /\ ServeUnplanned => ExecIInv'
<1> SUFFICES ASSUME ExecIInv, ServeUnplanned PROVE ExecIInv'
  OBVIOUS
<1> USE DEF ExecIInv, ServeUnplanned, batch, done, score
<1>1. HeardFacts
  BY HeardCommands
<1>2. mode = "serial" /\ phase = "serve"
  BY DEF Phased
<1>3. /\ Head(queue) \in DOMAIN heard /\ Head(queue) \in Commands
      /\ Head(queue) > Len(heard) - Len(queue)
      /\ queue' \in Seq(Commands) /\ Len(queue') <= Len(heard)
      /\ \A i \in 1..Len(queue') : queue'[i] = Len(heard) - Len(queue') + i
      /\ \A c \in DOMAIN heard : c <= Len(heard) - Len(queue') =>
           c <= Len(heard) - Len(queue) \/ c = Head(queue)
      /\ \A c \in DOMAIN heard : c > Len(heard) - Len(queue') =>
           c > Len(heard) - Len(queue) /\ c # Head(queue)
  BY <1>2, NextServed
<1>4. \A c \in DOMAIN heard : c > Len(heard) - Len(queue) => Unbegun(c)
  BY <1>2 DEF Progress, Running
<1>5. \A c \in DOMAIN heard : c <= Len(heard) - Len(queue) => Settled(c)
  BY <1>2 DEF Progress
<1>6. \A c \in Commands : c \notin DOMAIN heard => Unbegun(c)
  BY DEF Progress
<1>7. where' \in Everywhere
  BY ExecutionAssumption DEF WhereNext, Everywhere, TypeOK
<1>8. TypeOK'
  BY <1>3, <1>7 DEF TypeOK, Statuses
<1>9. Phased'
  BY DEF Phased, StepNow, Current, Command, TypeOK, Running
<1>10. Planned'
  BY DEF Planned
<1>11. Queued'
  BY <1>3 DEF Queued
<1>12. OutcomesRecorded'
  BY DEF OutcomesRecorded
<1>13. Progress'
  <2>1. \A c \in DOMAIN heard : c <= Len(heard) - Len(queue') => Settled(c)'
    <3> SUFFICES ASSUME NEW c \in DOMAIN heard, c <= Len(heard) - Len(queue') PROVE Settled(c)'
      OBVIOUS
    <3>1. CASE c = Head(queue)
      <4>1. oks[c] = <<>> /\ plan[c] = <<>> /\ status'[c] = "FAILED"
        BY <3>1, <1>3, <1>4 DEF Unbegun, TypeOK
      <4> QED BY <4>1, NothingFails DEF Settled, SkipDeclined
    <3>2. CASE c # Head(queue)
      <4>1. Settled(c)
        BY <3>2, <1>3, <1>5
      <4> QED BY <4>1, <3>2, <1>1, <1>3 DEF Settled, SkipDeclined, HeardFacts, TypeOK
    <3> QED BY <3>1, <3>2
  <2>2. \A c \in DOMAIN heard : c > Len(heard) - Len(queue') => Unbegun(c)'
    BY <1>1, <1>3, <1>4 DEF Unbegun, TypeOK, HeardFacts
  <2>3. \A c \in Commands : c \notin DOMAIN heard => Unbegun(c)'
    BY <1>3, <1>6 DEF Unbegun, TypeOK
  <2>4. phase' = "serve" /\ mode' = "serial" /\ heard' = heard
    BY <1>2
  <2> HIDE DEF ServeUnplanned
  <2> QED BY <2>1, <2>2, <2>3, <2>4 DEF Progress, Running
<1>14. OrderLeft'
  BY DEF OrderLeft, Active, Runnable, Running, Phased
<1>15. Scored'
  BY DEF Scored, Phased, MadeProgress
<1>16. Honest'
  BY DEF Honest, Believed, Running, Command, Current, Phased
<1> QED
  BY <1>8, <1>9, <1>10, <1>11, <1>12, <1>13, <1>14, <1>15, <1>16

LEMMA ServePlanOK == ExecIInv /\ ServePlan => ExecIInv'
<1> SUFFICES ASSUME ExecIInv, ServePlan PROVE ExecIInv'
  OBVIOUS
<1> USE DEF ExecIInv, ServePlan, batch, done, score
<1>1. HeardFacts
  BY HeardCommands
<1>2. mode = "serial" /\ phase = "serve"
  BY DEF Phased
<1>3. /\ Head(queue) \in DOMAIN heard /\ Head(queue) \in Commands
      /\ Head(queue) > Len(heard) - Len(queue)
  BY <1>2, NextServed
<1>4. \A c \in DOMAIN heard : c > Len(heard) - Len(queue) => Unbegun(c)
  BY <1>2 DEF Progress, Running
<1>5. oks[Head(queue)] = <<>> /\ Head(queue) \in Runnable
  BY <1>3, <1>4 DEF Unbegun, Runnable, SkipDeclined
<1>6. LET h == Head(queue) IN
      /\ Len(plan[h]) \in Nat /\ Len(order') = Len(plan[h])
      /\ \A i \in 1..Len(plan[h]) : order'[i] = <<h, i>>
      /\ order' \in Seq(Commands \X Nat)
  BY <1>1, <1>3 DEF HeardFacts
<1>7. TypeOK'
  BY <1>3, <1>6 DEF TypeOK, Statuses
<1>8. Phased'
  BY DEF Phased, StepNow, Current, Command, TypeOK, Running
<1>9. Planned'
  BY DEF Planned
<1>10. Queued'
  BY <1>1 DEF HeardFacts, Queued, Phased, Running, TypeOK
<1>11. OutcomesRecorded'
  BY DEF OutcomesRecorded
<1>12. Progress'
  <2>1. \A c \in DOMAIN heard : c <= Len(heard) - Len(queue) => Settled(c)'
    <3> SUFFICES ASSUME NEW c \in DOMAIN heard, c <= Len(heard) - Len(queue) PROVE Settled(c)'
      OBVIOUS
    <3>1. c # Head(queue) /\ c \in Commands
      BY <1>1, <1>3 DEF HeardFacts
    <3>2. Settled(c)
      BY <1>2 DEF Progress
    <3> QED BY <3>1, <3>2 DEF Settled, SkipDeclined, TypeOK
  <2>2. \A c \in DOMAIN heard : c > Len(heard) - Len(queue) => Unbegun(c)' \/ c = Head(queue)
    BY <1>1, <1>4 DEF Unbegun, TypeOK, HeardFacts
  <2>3. \A c \in Commands : c \notin DOMAIN heard => Unbegun(c)'
    BY <1>3 DEF Progress, Unbegun, TypeOK
  <2>4. Active' = {Head(queue)} /\ Runnable' = Runnable
    BY <1>2 DEF Active, Runnable
  <2>5. phase' = "step" /\ mode' = "serial" /\ heard' = heard /\ queue' = queue
    BY <1>2
  <2> HIDE DEF ServePlan
  <2> QED BY <2>1, <2>2, <2>3, <2>4, <2>5, <1>5 DEF Progress, Running
<1>13. OrderLeft'
  <2>1. Active' = {Head(queue)} /\ plan' = plan /\ oks' = oks /\ Len(<<>>) = 0
    BY <1>2 DEF Active
  <2> HIDE DEF ServePlan
  <2> QED BY <2>1, <1>5, <1>6 DEF OrderLeft
<1>14. Scored'
  BY DEF Scored, Phased, MadeProgress
<1>15. Honest'
  BY <1>2, <1>3 DEF Honest, Believed, TypeOK
<1> QED
  BY <1>7, <1>8, <1>9, <1>10, <1>11, <1>12, <1>13, <1>14, <1>15

LEMMA BeginStepOK == ExecIInv /\ BeginStep => ExecIInv'
<1> SUFFICES ASSUME ExecIInv, BeginStep PROVE ExecIInv'
  OBVIOUS
<1> USE DEF ExecIInv, BeginStep, batch, done, score
<1>1. HeardFacts
  BY HeardCommands
<1>2. mode \in {"serial", "interleaved"} /\ Command \in Active /\ Command \in Commands /\ Current = order[1]
      /\ (mode = "serial" => Command = Head(queue)) /\ StepNow \in Step
  <2>1. order # <<>> /\ 1 \in 1..Len(order) /\ Current = order[1] /\ order \in Seq(Commands \X Nat)
    BY DEF Phased, Current, TypeOK
  <2>2. order[1][1] \in Active /\ order[1][2] \in (Len(oks[order[1][1]]) + 1)..Len(plan[order[1][1]])
        /\ order[1] \in Commands \X Nat
    BY <2>1 DEF OrderLeft, Running
  <2>3. Command \in Active /\ Command \in Commands /\ Current[2] \in (Len(oks[Command]) + 1)..Len(plan[Command])
    BY <2>1, <2>2 DEF Command
  <2>4. plan[Command] \in Seq(Step) /\ Current[2] \in 1..Len(plan[Command])
    BY <2>3, <1>1 DEF HeardFacts, TypeOK
  <2>5. StepNow \in Step
    BY <2>4 DEF StepNow
  <2> QED BY <2>1, <2>3, <2>5 DEF Active, Phased, Running, TypeOK
<1>3. TypeOK'
  <2>1. at' \in [Commands -> Places \cup {NoPlace}] /\ 0 \in 0..Attempts
    BY <1>2, ExecutionAssumption DEF TypeOK
  <2> QED BY <2>1 DEF TypeOK
<1>4. Phased'
  <2>1. StepNow' = StepNow
    BY DEF StepNow, Current, Command
  <2> QED BY <2>1, ExecutionAssumption DEF Phased, Running
<1>5. Planned'
  BY DEF Planned
<1>6. Queued'
  BY <1>1 DEF HeardFacts, Queued, Phased, Running, TypeOK
<1>7. OutcomesRecorded'
  BY DEF OutcomesRecorded
<1>8. Progress'
  BY <1>1 DEF HeardFacts, Progress, Phased, Queued, Unbegun, Settled, SkipDeclined, Active, Runnable, Running
<1>9. OrderLeft'
  BY DEF OrderLeft, Active, Runnable, Running, Phased
<1>10. Scored'
  BY DEF Scored, Phased, MadeProgress
<1>11. Honest'
  <2>1. Command' = Command /\ phase' \in {"try", "fallback"} /\ strayed' = strayed /\ where' = where
    BY DEF Command, Current
  <2>2. Believed' = at'[Command]
    BY <2>1 DEF Believed
  <2>3. at'[Command] = Believed
    BY <1>2 DEF Believed, TypeOK
  <2> QED BY <2>1, <2>2, <2>3 DEF Honest, Running
<1> QED
  BY <1>3, <1>4, <1>5, <1>6, <1>7, <1>8, <1>9, <1>10, <1>11

LEMMA FinishSerialOK == ExecIInv /\ FinishSerial => ExecIInv'
<1> SUFFICES ASSUME ExecIInv, FinishSerial PROVE ExecIInv'
  OBVIOUS
<1> USE DEF ExecIInv, FinishSerial, batch, done, score
<1>1. HeardFacts
  BY HeardCommands
<1>2. /\ Head(queue) \in DOMAIN heard /\ Head(queue) \in Commands /\ queue # <<>>
      /\ Head(queue) > Len(heard) - Len(queue)
      /\ queue' \in Seq(Commands) /\ Len(queue') <= Len(heard)
      /\ \A i \in 1..Len(queue') : queue'[i] = Len(heard) - Len(queue') + i
      /\ \A c \in DOMAIN heard : c <= Len(heard) - Len(queue') =>
           c <= Len(heard) - Len(queue) \/ c = Head(queue)
      /\ \A c \in DOMAIN heard : c > Len(heard) - Len(queue') =>
           c > Len(heard) - Len(queue) /\ c # Head(queue)
  BY NextServed DEF Phased, Running
<1>3. Active = {Head(queue)} /\ Head(queue) \in Runnable
  BY DEF Active, Progress, Running
<1>4. Len(oks[Head(queue)]) = Len(plan[Head(queue)])
  <2> DEFINE h == Head(queue)
  <2>1. Len(oks[h]) <= Len(plan[h]) /\ Len(oks[h]) \in Nat /\ Len(plan[h]) \in Nat
    BY <1>1, <1>2 DEF OutcomesRecorded, HeardFacts
  <2>2. \A i \in (Len(oks[h]) + 1)..Len(plan[h]) : FALSE
    BY <1>3 DEF OrderLeft, Running
  <2>3. CASE Len(oks[h]) < Len(plan[h])
    <3>1. Len(plan[h]) \in (Len(oks[h]) + 1)..Len(plan[h])
      BY <2>1, <2>3
    <3> QED BY <3>1, <2>2
  <2> QED BY <2>1, <2>3
<1>5. where' \in Everywhere /\ Summarize(oks[Head(queue)]) \in Statuses
  BY ExecutionAssumption DEF WhereNext, Everywhere, TypeOK, Summarize, Statuses
<1>6. TypeOK'
  BY <1>2, <1>5 DEF TypeOK
<1>7. Phased'
  BY DEF Phased, StepNow, Current, Command, TypeOK, Running
<1>8. Planned'
  BY DEF Planned
<1>9. Queued'
  BY <1>2 DEF Queued
<1>10. OutcomesRecorded'
  BY DEF OutcomesRecorded
<1>11. Progress'
  <2>1. \A c \in DOMAIN heard : c <= Len(heard) - Len(queue') => Settled(c)'
    <3> SUFFICES ASSUME NEW c \in DOMAIN heard, c <= Len(heard) - Len(queue') PROVE Settled(c)'
      OBVIOUS
    <3>1. CASE c = Head(queue)
      <4>1. ~SkipDeclined(c) /\ status'[c] = Summarize(oks[c])
        BY <3>1, <1>2, <1>3 DEF Runnable, SkipDeclined, TypeOK
      <4> QED BY <4>1, <3>1, <1>4 DEF Settled, SkipDeclined
    <3>2. CASE c # Head(queue)
      <4>1. Settled(c)
        BY <3>2, <1>2 DEF Progress
      <4> QED BY <4>1, <3>2, <1>1, <1>2 DEF Settled, SkipDeclined, HeardFacts, TypeOK
    <3> QED BY <3>1, <3>2
  <2>2. ASSUME NEW c \in DOMAIN heard, c > Len(heard) - Len(queue') PROVE Unbegun(c)'
    <3>1. Unbegun(c) /\ c # Head(queue) /\ c \in Commands
      BY <2>2, <1>1, <1>2 DEF Progress, HeardFacts
    <3> QED BY <3>1 DEF Unbegun, TypeOK
  <2>3. \A c \in Commands : c \notin DOMAIN heard => Unbegun(c)'
    BY <1>2 DEF Progress, Unbegun, TypeOK
  <2>4. phase' = "serve" /\ mode' = "serial" /\ heard' = heard
    OBVIOUS
  <2> HIDE DEF FinishSerial
  <2> QED BY <2>1, <2>2, <2>3, <2>4 DEF Progress, Running
<1>12. OrderLeft'
  BY DEF OrderLeft, Active, Runnable, Running, Phased
<1>13. Scored'
  BY DEF Scored, Phased, MadeProgress
<1>14. Honest'
  BY DEF Honest, Believed, Running, Command, Current, Phased
<1> QED
  BY <1>6, <1>7, <1>8, <1>9, <1>10, <1>11, <1>12, <1>13, <1>14

LEMMA FinishInterleavedOK == ExecIInv /\ FinishInterleaved => ExecIInv'
<1> SUFFICES ASSUME ExecIInv, FinishInterleaved PROVE ExecIInv'
  OBVIOUS
<1> USE DEF ExecIInv, FinishInterleaved, batch, done, score
<1>1. HeardFacts
  BY HeardCommands
<1>2. \A x : Summarize(x) \in Statuses
  BY DEF Summarize, Statuses
<1>3. Active = Runnable
  BY DEF Active
<1>4. \A c \in Runnable : Len(oks[c]) = Len(plan[c])
  <2> SUFFICES ASSUME NEW h \in Runnable PROVE Len(oks[h]) = Len(plan[h])
    OBVIOUS
  <2>1. Len(oks[h]) <= Len(plan[h]) /\ Len(oks[h]) \in Nat /\ Len(plan[h]) \in Nat
    BY <1>1 DEF OutcomesRecorded, HeardFacts, Runnable
  <2>2. \A i \in (Len(oks[h]) + 1)..Len(plan[h]) : FALSE
    BY <1>3 DEF OrderLeft, Running
  <2>3. CASE Len(oks[h]) < Len(plan[h])
    <3>1. Len(plan[h]) \in (Len(oks[h]) + 1)..Len(plan[h])
      BY <2>1, <2>3
    <3> QED BY <3>1, <2>2
  <2> QED BY <2>1, <2>3
<1>5. queue = <<>>
  BY DEF Phased
<1>6. TypeOK'
  BY <1>2 DEF TypeOK
<1>7. Phased'
  BY DEF Phased, StepNow, Current, Command, TypeOK, Running
<1>8. Planned'
  BY DEF Planned
<1>9. Queued'
  BY <1>1 DEF HeardFacts, Queued, Phased, Running, TypeOK
<1>10. OutcomesRecorded'
  BY DEF OutcomesRecorded
<1>11. Progress'
  <2>1. \A c \in DOMAIN heard : Settled(c)'
    <3> SUFFICES ASSUME NEW c \in DOMAIN heard PROVE Settled(c)'
      OBVIOUS
    <3>1. c \in Commands
      BY <1>1 DEF HeardFacts
    <3>2. CASE c \in Runnable
      BY <3>1, <3>2, <1>4 DEF Settled, SkipDeclined, Runnable
    <3>3. CASE c \notin Runnable
      <4>1. Settled(c) /\ status'[c] = status[c]
        BY <3>1, <3>3 DEF Progress
      <4> QED BY <4>1 DEF Settled, SkipDeclined
    <3> QED BY <3>2, <3>3
  <2>2. \A c \in Commands : c \notin DOMAIN heard => Unbegun(c)'
    <3> SUFFICES ASSUME NEW c \in Commands, c \notin DOMAIN heard PROVE Unbegun(c)'
      OBVIOUS
    <3>1. Unbegun(c) /\ c \notin Runnable
      BY DEF Progress, Planned, Runnable
    <3> QED BY <3>1 DEF Unbegun
  <2>3. phase' = "score" /\ mode' = "interleaved" /\ heard' = heard
    OBVIOUS
  <2> HIDE DEF FinishInterleaved
  <2> QED BY <2>1, <2>2, <2>3 DEF Progress, Running
<1>12. OrderLeft'
  BY DEF OrderLeft, Active, Runnable, Running, Phased
<1>13. Scored'
  BY DEF Scored, Phased, MadeProgress
<1>14. Honest'
  BY DEF Honest, Believed, Running, Command, Current, Phased
<1> QED
  BY <1>6, <1>7, <1>8, <1>9, <1>10, <1>11, <1>12, <1>13, <1>14

LEMMA AllServedOK == ExecIInv /\ AllServed => ExecIInv'
<1> SUFFICES ASSUME ExecIInv, AllServed PROVE ExecIInv'
  OBVIOUS
<1> USE DEF ExecIInv, AllServed, batch, done, score
<1>1. HeardFacts
  BY HeardCommands
<1>2. TypeOK'
  BY <1>1, ExecutionAssumption DEF HeardFacts, TypeOK, Phased, Everywhere
<1>3. Phased'
  BY DEF Phased, StepNow, Current, Command, TypeOK, Running
<1>4. Planned'
  BY DEF Planned
<1>5. Queued'
  BY <1>1 DEF HeardFacts, Queued, Phased, Running, TypeOK
<1>6. OutcomesRecorded'
  BY DEF OutcomesRecorded
<1>7. Progress'
  BY <1>1 DEF HeardFacts, Progress, Phased, Queued, Unbegun, Settled, SkipDeclined, Active, Runnable, Running
<1>8. OrderLeft'
  BY DEF OrderLeft, Active, Runnable, Running, Phased
<1>9. Scored'
  BY DEF Scored, Phased, MadeProgress
<1>10. Honest'
  BY DEF Honest, Believed, Running, Command, Current, Phased
<1> QED
  BY <1>2, <1>3, <1>4, <1>5, <1>6, <1>7, <1>8, <1>9, <1>10

LEMMA ScoreOK == ExecIInv /\ Score => ExecIInv'
<1> SUFFICES ASSUME ExecIInv, Score PROVE ExecIInv'
  OBVIOUS
<1> USE DEF ExecIInv, Score, batch, done, score
<1>1. HeardFacts
  BY HeardCommands
<1>2. TypeOK'
  <2>1. IsFiniteSet(Commands)
    BY PlanAssumption
  <2>2. Cardinality({c \in Commands : status[c] \in {"DONE", "PARTIAL"}}) \in Nat
    BY <2>1, FS_Subset, FS_CardinalityType
  <2>3. solved' \in 0..MaxSolve
    BY <2>2, MinOfTwo, ExecutionAssumption
  <2> QED BY <2>3 DEF TypeOK
<1>3. Phased'
  BY DEF Phased, StepNow, Current, Command, TypeOK, Running
<1>4. Planned'
  BY DEF Planned
<1>5. Queued'
  BY <1>1 DEF HeardFacts, Queued, Phased, Running, TypeOK
<1>6. OutcomesRecorded'
  BY DEF OutcomesRecorded
<1>7. Progress'
  BY <1>1 DEF HeardFacts, Progress, Phased, Queued, Unbegun, Settled, SkipDeclined, Active, Runnable, Running
<1>8. OrderLeft'
  BY DEF OrderLeft, Active, Runnable, Running, Phased
<1>9. Scored'
  BY DEF Scored, Phased, MadeProgress
<1>10. Honest'
  BY DEF Honest, Believed, Running, Command, Current, Phased
<1> QED
  BY <1>2, <1>3, <1>4, <1>5, <1>6, <1>7, <1>8, <1>9, <1>10

LEMMA ReturnOK == ExecIInv /\ Return => ExecIInv'
<1> SUFFICES ASSUME ExecIInv, Return PROVE ExecIInv'
  OBVIOUS
<1> USE DEF ExecIInv, Return, batch, done, score
<1>1. HeardFacts
  BY HeardCommands
<1>2. TypeOK'
  BY <1>1, ExecutionAssumption DEF HeardFacts, TypeOK, Phased, Everywhere
<1>3. Phased'
  BY DEF Phased, StepNow, Current, Command, TypeOK, Running
<1>4. Planned'
  BY DEF Planned
<1>5. Queued'
  BY <1>1 DEF HeardFacts, Queued, Phased, Running, TypeOK
<1>6. OutcomesRecorded'
  BY DEF OutcomesRecorded
<1>7. Progress'
  BY <1>1 DEF HeardFacts, Progress, Phased, Queued, Unbegun, Settled, SkipDeclined, Active, Runnable, Running
<1>8. OrderLeft'
  BY DEF OrderLeft, Active, Runnable, Running, Phased
<1>9. Scored'
  BY DEF Scored, Phased, MadeProgress
<1>10. Honest'
  BY DEF Honest, Believed, Running, Command, Current, Phased
<1> QED
  BY <1>2, <1>3, <1>4, <1>5, <1>6, <1>7, <1>8, <1>9, <1>10

LEMMA BeginInterleavedOK == ExecIInv /\ BeginInterleaved => ExecIInv'
<1> SUFFICES ASSUME ExecIInv, BeginInterleaved PROVE ExecIInv'
  OBVIOUS
<1> USE DEF ExecIInv, BeginInterleaved, batch, done, score
<1>1. HeardFacts
  BY HeardCommands
<1>2. Indexed \in PlansOfAnyLength
  <2>1. ASSUME NEW c \in Commands PROVE Indexed[c] \in Seq(Regions)
    <3>1. CASE c \in Runnable
      <4>1. \A i \in 1..Len(plan[c]) : plan[c][i] \in Step
        BY DEF TypeOK
      <4>2. \A i \in 1..Len(plan[c]) : Region(plan[c][i]) \in Regions
        BY <4>1, RegionTyped
      <4>3. Indexed[c] = [i \in 1..Len(plan[c]) |-> Region(plan[c][i])]
        BY <3>1 DEF Indexed
      <4>4. Len(plan[c]) \in Nat
        BY <1>1 DEF HeardFacts
      <4> HIDE DEF BeginInterleaved
      <4> QED BY <4>2, <4>3, <4>4
    <3>2. CASE c \notin Runnable
      BY <3>2 DEF Indexed
    <3> QED BY <3>1, <3>2
  <2> QED BY <2>1 DEF Indexed, PlansOfAnyLength
<1>3. \A c \in Commands : Len(Indexed[c]) = IF c \in Runnable THEN Len(plan[c]) ELSE 0
  BY <1>1 DEF HeardFacts, Indexed
<1>4. PICK t : Sound(Indexed, t) /\ Pending(Indexed, t) = {} /\ order' = t.order
  BY <1>2, InterleavedRuns
<1>5. order' \in Seq(Commands \X Nat) /\ KeepsOrder(order')
  BY <1>4 DEF Sound, LoopTyped
<1>6. \A k \in 1..Len(order') :
        order'[k][1] \in Runnable /\ order'[k][2] \in 1..Len(plan[order'[k][1]])
  <2> SUFFICES ASSUME NEW k \in 1..Len(order')
               PROVE  order'[k][1] \in Runnable /\ order'[k][2] \in 1..Len(plan[order'[k][1]])
    OBVIOUS
  <2>1. order'[k] \in StepsOf(Indexed)
    BY <1>2, <1>4, OrderOfSteps
  <2>2. order'[k][1] \in Commands /\ order'[k][2] \in 1..Len(Indexed[order'[k][1]])
    BY <2>1, StepsByName
  <2> QED BY <2>2, <1>3
<1>7. \A c \in Runnable : \A i \in 1..Len(plan[c]) : \E k \in 1..Len(order') : order'[k] = <<c, i>>
  <2> SUFFICES ASSUME NEW c \in Runnable, NEW i \in 1..Len(plan[c])
               PROVE  \E k \in 1..Len(order') : order'[k] = <<c, i>>
    OBVIOUS
  <2>1. c \in Commands /\ i \in 1..Len(Indexed[c])
    BY <1>3 DEF Runnable
  <2>2. <<c, i>> \in StepsOf(Indexed)
    BY <2>1, StepsByName
  <2> QED BY <1>2, <1>4, <2>2, OrderOfSteps
<1>8. \A c \in Commands : Unbegun(c)
  BY <1>1 DEF HeardFacts, Progress, Phased
<1>9. Runnable' = Runnable /\ Active' = Runnable
  BY DEF Runnable, Active
<1>10. mode' = "interleaved" /\ phase' = "step" /\ heard' = heard
  OBVIOUS
<1>11. TypeOK'
  BY <1>5 DEF TypeOK, Statuses
<1>12. Phased'
  BY DEF Phased, Running
<1>13. Planned' /\ Queued' /\ OutcomesRecorded'
  BY DEF Planned, Queued, OutcomesRecorded
<1>14. Progress'
  <2>1. ASSUME NEW c \in DOMAIN heard, c \notin Runnable PROVE Settled(c)'
    <3>1. c \in Commands /\ oks'[c] = <<>>
      BY <1>1, <1>8 DEF HeardFacts, Unbegun
    <3>2. CASE plan[c] = <<>>
      <4>1. confirmed[c] /\ status'[c] = "FAILED"
        BY <3>1, <3>2, <2>1 DEF Planned
      <4> QED BY <3>1, <3>2, <4>1, NothingFails DEF Settled, SkipDeclined
    <3>3. CASE plan[c] # <<>>
      <4>1. ~confirmed[c] /\ status'[c] = "PLANNED"
        BY <3>1, <3>3, <2>1, <1>8 DEF Runnable, Unbegun, TypeOK
      <4> QED BY <3>1, <3>3, <4>1 DEF Settled, SkipDeclined
    <3> QED BY <3>2, <3>3
  <2>2. \A c \in Commands : c \notin DOMAIN heard => Unbegun(c)'
    <3> SUFFICES ASSUME NEW c \in Commands, c \notin DOMAIN heard PROVE Unbegun(c)'
      OBVIOUS
    <3>1. Unbegun(c) /\ c \notin Runnable
      BY <1>8 DEF Planned, Runnable
    <3> QED BY <3>1 DEF Unbegun
  <2> HIDE DEF BeginInterleaved
  <2> QED BY <2>1, <2>2, <1>9, <1>10 DEF Progress, Running
<1>15. OrderLeft'
  <2>1. \A c \in Runnable : oks'[c] = <<>> /\ plan' = plan /\ Len(<<>>) = 0
    BY <1>8 DEF Unbegun, Runnable
  <2>2. \A c \in Runnable : Len(plan[c]) \in Nat /\ (Len(oks'[c]) + 1)..Len(plan'[c]) = 1..Len(plan[c])
    BY <2>1, <1>1 DEF HeardFacts, Runnable
  <2> HIDE DEF BeginInterleaved, ExecIInv
  <2>3. \A k \in 1..Len(order') :
          /\ order'[k][1] \in Active'
          /\ order'[k][2] \in (Len(oks'[order'[k][1]]) + 1)..Len(plan'[order'[k][1]])
    BY <2>2, <1>6, <1>9
  <2>4. \A c \in Active' : \A i \in (Len(oks'[c]) + 1)..Len(plan'[c]) :
          \E k \in 1..Len(order') : order'[k] = <<c, i>>
    BY <2>2, <1>7, <1>9
  <2>5. \A j, k \in 1..Len(order') : j < k /\ order'[j][1] = order'[k][1] => order'[j][2] < order'[k][2]
    BY <1>5 DEF KeepsOrder
  <2> QED BY <2>3, <2>4, <2>5 DEF OrderLeft
<1>16. Scored'
  BY DEF Scored
<1>17. Honest'
  BY DEF Honest, Believed, Phased
<1> QED
  BY <1>11, <1>12, <1>13, <1>14, <1>15, <1>16, <1>17

(* The step that is run is the first of its command without an outcome. *)
LEMMA CurrentStep ==
  ASSUME ExecIInv, phase \in {"try", "fallback"}
  PROVE  /\ order # <<>> /\ order \in Seq(Commands \X Nat) /\ Current = order[1]
         /\ Current = <<Command, Current[2]>>
         /\ mode \in {"serial", "interleaved"}
         /\ Command \in Active /\ Command \in Commands
         /\ (mode = "serial" => Command = Head(queue) /\ queue # <<>>)
         /\ Current[2] = Len(oks[Command]) + 1 /\ Current[2] <= Len(plan[Command])
         /\ StepNow \in Step
<1> USE DEF ExecIInv
<1>1. HeardFacts
  BY HeardCommands
<1>2. order # <<>> /\ 1 \in 1..Len(order) /\ Current = order[1] /\ order \in Seq(Commands \X Nat)
  BY DEF Phased, Current, TypeOK
<1>3. order[1][1] \in Active /\ order[1][2] \in (Len(oks[order[1][1]]) + 1)..Len(plan[order[1][1]])
      /\ order[1] \in Commands \X Nat
  BY <1>2 DEF OrderLeft, Running
<1>4. /\ Command \in Active /\ Command \in Commands
      /\ Current[2] \in (Len(oks[Command]) + 1)..Len(plan[Command]) /\ Current[2] \in Nat
      /\ Len(oks[Command]) \in Nat /\ Len(plan[Command]) \in Nat
  BY <1>1, <1>2, <1>3 DEF Command, HeardFacts
<1>5. Current[2] = Len(oks[Command]) + 1
  <2>1. Len(oks[Command]) + 1 \in (Len(oks[Command]) + 1)..Len(plan[Command])
    BY <1>4
  <2>2. PICK k \in 1..Len(order) : order[k] = <<Command, Len(oks[Command]) + 1>>
    BY <2>1, <1>4 DEF OrderLeft, Running
  <2>3. 1 < k => order[1][2] < order[k][2]
    BY <1>2, <2>2 DEF OrderLeft, Running, Command
  <2>4. k = 1
    BY <1>2, <1>4, <2>2, <2>3
  <2> QED BY <1>2, <2>2, <2>4
<1>6. plan[Command] \in Seq(Step) /\ Current[2] \in 1..Len(plan[Command])
  BY <1>4 DEF TypeOK
<1>7. StepNow \in Step
  BY <1>6 DEF StepNow
<1>8. mode \in {"serial", "interleaved"}
  BY DEF Phased, Running, TypeOK
<1>9. Current = <<Command, Current[2]>>
  BY <1>2, <1>3 DEF Command
<1>10. mode = "serial" => Command = Head(queue) /\ queue # <<>>
  BY <1>4 DEF Active, Phased, Running
<1> QED BY <1>2, <1>4, <1>5, <1>7, <1>8, <1>9, <1>10

(* The claim the step left is honest if the one it saw was and nothing went
   astray. *)
LEMMA LeftHonest ==
  ASSUME ExecIInv, phase \in {"try", "fallback"},
         NEW r \in Drafts(at[Command] \in {NoPlace, where}), Left(r), batch' = batch
  PROVE  /\ r.ok \in BOOLEAN /\ r.at \in Places \cup {NoPlace}
         /\ where' \in Everywhere /\ at' \in [Commands -> Places \cup {NoPlace}] /\ strayed' \in BOOLEAN
         /\ at'[Command] = r.at
         /\ ~strayed' => r.at \in {NoPlace, where'}
<1>1. Command \in Commands
  BY CurrentStep
<1>2. at \in [Commands -> Places \cup {NoPlace}] /\ strayed \in BOOLEAN
  BY DEF ExecIInv, TypeOK
<1>3. r \in Draft /\ (at[Command] \in {NoPlace, where} => (r.astray \/ r.at \in {NoPlace, r.where}))
  BY DEF Drafts, HonestIf
<1>4. ~strayed => at[Command] \in {NoPlace, where}
  BY DEF ExecIInv, Honest, Believed, Running
<1>5. /\ r.ok \in BOOLEAN /\ r.at \in Places \cup {NoPlace} /\ r.where \in Everywhere /\ r.astray \in BOOLEAN
  BY <1>3 DEF Draft
<1>6. where' = r.where /\ at' = [at EXCEPT ![Command] = r.at] /\ strayed' = (strayed \/ r.astray)
  BY DEF Left
<1> QED BY <1>1, <1>2, <1>3, <1>4, <1>5, <1>6

(* A step is over: its outcome is recorded and the order goes on. *)
LEMMA EndStepOK ==
  ASSUME ExecIInv, phase \in {"try", "fallback"},
         NEW r \in Drafts(at[Command] \in {NoPlace, where}), Left(r), EndStep(r),
         tries' \in 0..Attempts \cup {1, 2},
         UNCHANGED <<batch, status, mode, queue, score>>
  PROVE  ExecIInv'
<1> DEFINE c == Command
           i == Current[2]
<1> USE DEF ExecIInv, batch, score
<1>1. HeardFacts
  BY HeardCommands
<1>2. /\ order # <<>> /\ order \in Seq(Commands \X Nat) /\ order[1] = <<c, i>>
      /\ Current = <<c, i>>
      /\ mode \in {"serial", "interleaved"} /\ c \in Active /\ c \in Commands
      /\ (mode = "serial" => c = Head(queue) /\ queue # <<>>)
      /\ i = Len(oks[c]) + 1 /\ i <= Len(plan[c]) /\ i \in Nat
  BY <1>1, CurrentStep DEF HeardFacts
<1>3. /\ r.ok \in BOOLEAN /\ r.at \in Places \cup {NoPlace}
      /\ where' \in Everywhere /\ at' \in [Commands -> Places \cup {NoPlace}] /\ strayed' \in BOOLEAN
      /\ at'[c] = r.at /\ (~strayed' => r.at \in {NoPlace, where'})
  BY LeftHonest
<1>4. /\ oks' = [oks EXCEPT ![c] = Append(@, r.ok)]
      /\ worked' = IF r.ok THEN worked \cup {<<c, i>>} ELSE worked
      /\ shared' = IF mode = "interleaved" THEN r.at ELSE shared
      /\ order' = Tail(order) /\ phase' = "step"
  BY <1>2 DEF EndStep
<1> HIDE DEF c, i
<1>5. /\ oks' \in [Commands -> Seq(BOOLEAN)]
      /\ Len(oks[c]) \in Nat /\ Len(oks'[c]) = i
      /\ \A k \in 1..Len(oks[c]) : oks'[c][k] = oks[c][k]
      /\ oks'[c][i] = r.ok
      /\ \A d \in Commands : d # c => oks'[d] = oks[d]
  <2>1. oks \in [Commands -> Seq(BOOLEAN)] /\ oks[c] \in Seq(BOOLEAN)
    BY <1>2 DEF TypeOK
  <2>2. oks'[c] = Append(oks[c], r.ok)
    BY <1>2, <1>4, <2>1
  <2>3. Append(oks[c], r.ok) \in Seq(BOOLEAN)
    BY <1>3, <2>1
  <2>4. oks' = [oks EXCEPT ![c] = Append(oks[c], r.ok)]
    BY <1>4
  <2>5. oks' \in [Commands -> Seq(BOOLEAN)] /\ \A d \in Commands : d # c => oks'[d] = oks[d]
    BY <1>2, <2>1, <2>3, <2>4
  <2> QED BY <1>2, <1>3, <2>1, <2>2, <2>5
<1>6. /\ Len(order) \in Nat /\ order' \in Seq(Commands \X Nat) /\ Len(order') = Len(order) - 1
      /\ \A k \in 1..Len(order') : k + 1 \in 1..Len(order) /\ order'[k] = order[k + 1]
  BY <1>2, <1>4
<1>7. TypeOK'
  <2>1. worked' \subseteq Commands \X Nat
    <3>1. <<c, i>> \in Commands \X Nat /\ worked \subseteq Commands \X Nat
      BY <1>2 DEF TypeOK
    <3> HIDE DEF ExecIInv
    <3> QED BY <3>1, <1>4
  <2>2. tries' \in 0..Attempts \cup {1, 2}
    OBVIOUS
  <2>3. shared' \in Places \cup {NoPlace}
    BY <1>3, <1>4 DEF TypeOK
  <2> QED BY <1>3, <1>4, <1>5, <1>6, <2>1, <2>2, <2>3 DEF TypeOK
<1>8. Phased'
  BY <1>2, <1>4 DEF Phased, Running
<1>9. Planned' /\ Queued' /\ Scored'
  BY <1>4 DEF Planned, Queued, Scored
<1>10. OutcomesRecorded'
  <2>1. \A d \in Commands : Len(oks'[d]) <= Len(plan[d])
    BY <1>2, <1>5 DEF OutcomesRecorded
  <2>2. <<c, i>> \notin worked
    <3>1. \A e \in worked : e[2] \in 1..Len(oks[e[1]])
      BY DEF OutcomesRecorded
    <3>2. ~(i \in 1..Len(oks[c]))
      BY <1>2, <1>5
    <3> QED BY <3>1, <3>2
  <2>3. ASSUME NEW d \in Commands, NEW k \in 1..Len(oks'[d])
        PROVE  oks'[d][k] <=> <<d, k>> \in worked'
    <3>1. CASE d = c /\ k = i
      <4>1. oks'[d][k] = r.ok
        BY <3>1, <1>5
      <4>2. <<d, k>> \in worked' <=> r.ok
        BY <3>1, <2>2, <1>4
      <4> QED BY <4>1, <4>2
    <3>2. CASE ~(d = c /\ k = i)
      <4>1. k \in 1..Len(oks[d]) /\ oks'[d][k] = oks[d][k]
        <5>1. CASE d = c
          BY <5>1, <3>2, <1>2, <1>5
        <5>2. CASE d # c
          BY <5>2, <1>5
        <5> QED BY <5>1, <5>2
      <4>2. oks[d][k] <=> <<d, k>> \in worked
        BY <4>1 DEF OutcomesRecorded
      <4>3. <<d, k>> \in worked' <=> <<d, k>> \in worked
        BY <3>2, <1>4
      <4> QED BY <4>1, <4>2, <4>3
    <3> QED BY <3>1, <3>2
  <2>4. ASSUME NEW e \in worked' PROVE e[2] \in 1..Len(oks'[e[1]])
    <3>1. CASE e = <<c, i>>
      BY <3>1, <1>2, <1>5
    <3>2. CASE e # <<c, i>>
      <4>1. e \in worked /\ e[1] \in Commands /\ e[2] \in 1..Len(oks[e[1]])
        BY <3>2, <1>4 DEF OutcomesRecorded, TypeOK
      <4>2. CASE e[1] = c
        <5>1. e[2] \in 1..Len(oks[c]) /\ Len(oks'[c]) = Len(oks[c]) + 1
          BY <4>1, <4>2, <1>2, <1>5
        <5> QED BY <5>1, <4>2, <1>5
      <4>3. CASE e[1] # c
        <5>1. oks'[e[1]] = oks[e[1]]
          BY <4>1, <4>3, <1>5
        <5> QED BY <5>1, <4>1
      <4> QED BY <4>2, <4>3
    <3> QED BY <3>1, <3>2
  <2> HIDE DEF ExecIInv
  <2> QED BY <2>1, <2>3, <2>4 DEF OutcomesRecorded
<1>11. Progress'
  <2>1. Runnable' = Runnable /\ Active' = Active /\ heard' = heard /\ Running' /\ Running /\ mode' = mode
        /\ queue' = queue
    BY <1>4 DEF Runnable, Active, Running
  <2>2. c \in Runnable /\ Active \subseteq Runnable
    BY <1>2, <2>1 DEF Progress
  <2>3. \A d \in Commands : d # c =>
          /\ Settled(d) => Settled(d)'
          /\ Unbegun(d) => Unbegun(d)'
    BY <1>5 DEF Settled, Unbegun, SkipDeclined
  <2>4. ASSUME NEW d \in Commands, d \notin DOMAIN heard PROVE Unbegun(d)'
    <3>1. d # c
      BY <2>2, <2>4 DEF Planned, Runnable
    <3> QED BY <3>1, <2>3, <2>4 DEF Progress
  <2>5. ASSUME mode = "serial", NEW d \in DOMAIN heard
        PROVE  /\ d <= Len(heard) - Len(queue) => Settled(d)'
               /\ d > Len(heard) - Len(queue) => Unbegun(d)' \/ (Running /\ d = Head(queue))
    <3>1. d \in Commands
      BY <1>1 DEF HeardFacts
    <3>2. d <= Len(heard) - Len(queue) => d # c
      BY <1>1, <1>2, <2>5, <3>1, NextServed DEF HeardFacts
    <3>3. CASE d = c
      BY <3>2, <3>3, <2>1, <2>5, <1>2
    <3>4. CASE d # c
      BY <3>1, <3>4, <2>3, <2>5 DEF Progress
    <3> QED BY <3>3, <3>4
  <2>6. ASSUME mode = "interleaved", NEW d \in DOMAIN heard
        PROVE  Settled(d)' \/ (Running /\ d \in Runnable)
    <3>1. d \in Commands
      BY <1>1 DEF HeardFacts
    <3>2. CASE d = c
      BY <3>2, <2>1, <2>2
    <3>3. CASE d # c
      BY <3>1, <3>3, <2>3, <2>6 DEF Progress
    <3> QED BY <3>2, <3>3
  <2> QED BY <2>1, <2>2, <2>4, <2>5, <2>6, <1>2 DEF Progress
<1>12. OrderLeft'
  <2>1. Active' = Active /\ plan' = plan
    BY DEF Active, Runnable
  <2>2. ASSUME NEW k \in 1..Len(order')
        PROVE  /\ order'[k][1] \in Active
               /\ order'[k][2] \in (Len(oks'[order'[k][1]]) + 1)..Len(plan[order'[k][1]])
    <3> DEFINE e == order[k + 1]
    <3>1. order'[k] = e /\ e \in Commands \X Nat /\ k + 1 \in 1..Len(order) /\ 1 \in 1..Len(order) /\ 1 < k + 1
      BY <1>2, <1>6
    <3>2. e[1] \in Active /\ e[2] \in (Len(oks[e[1]]) + 1)..Len(plan[e[1]])
      BY <3>1, <1>4 DEF OrderLeft, Running
    <3>3. e[1] = c => i < e[2]
      BY <3>1, <1>2 DEF OrderLeft, Running
    <3> HIDE DEF e
    <3>4. CASE e[1] = c
      <4>1. Len(oks'[c]) = i /\ Len(plan[c]) \in Nat /\ i \in Nat /\ e[2] \in Nat
        BY <3>1, <1>1, <1>2, <1>5 DEF HeardFacts
      <4>2. e[2] <= Len(plan[c]) /\ i < e[2]
        BY <3>2, <3>3, <3>4, <4>1, <1>5
      <4>3. e[2] \in (Len(oks'[c]) + 1)..Len(plan[c])
        BY <4>1, <4>2
      <4> HIDE DEF ExecIInv
      <4> QED BY <4>3, <3>1, <3>2, <3>4
    <3>5. CASE e[1] # c
      <4>1. oks'[e[1]] = oks[e[1]]
        BY <3>1, <3>5, <1>5
      <4> QED BY <4>1, <3>1, <3>2
    <3> QED BY <3>4, <3>5
  <2>3. ASSUME NEW d \in Active, NEW j \in (Len(oks'[d]) + 1)..Len(plan[d])
        PROVE  \E k \in 1..Len(order') : order'[k] = <<d, j>>
    <3>1. d \in Commands
      BY DEF Progress, Running, Runnable
    <3>2. j \in (Len(oks[d]) + 1)..Len(plan[d]) /\ <<d, j>> # <<c, i>>
      <4>1. CASE d = c
        BY <4>1, <1>1, <1>2, <1>5 DEF HeardFacts
      <4>2. CASE d # c
        BY <4>2, <3>1, <1>5
      <4> QED BY <4>1, <4>2
    <3>3. PICK k \in 1..Len(order) : order[k] = <<d, j>>
      BY <3>2 DEF OrderLeft, Running
    <3>4. k # 1
      BY <3>2, <3>3, <1>2
    <3>5. k - 1 \in 1..Len(order') /\ order'[k - 1] = order[k]
      BY <3>4, <1>6
    <3> QED BY <3>3, <3>5
  <2>4. ASSUME NEW j \in 1..Len(order'), NEW k \in 1..Len(order'), j < k, order'[j][1] = order'[k][1]
        PROVE  order'[j][2] < order'[k][2]
    <3>1. j + 1 \in 1..Len(order) /\ order'[j] = order[j + 1]
      BY <1>6
    <3>2. k + 1 \in 1..Len(order) /\ order'[k] = order[k + 1]
      BY <1>6
    <3>3. j + 1 < k + 1
      BY <1>6, <2>4
    <3> QED BY <3>1, <3>2, <3>3, <2>4 DEF OrderLeft, Running
  <2> HIDE DEF ExecIInv
  <2> QED BY <2>1, <2>2, <2>3, <2>4 DEF OrderLeft
<1>13. Honest'
  <2>1. Believed' = r.at
    BY <1>2, <1>3, <1>4 DEF Believed
  <2> QED BY <2>1, <1>3 DEF Honest
<1> QED
  BY <1>7, <1>8, <1>9, <1>10, <1>11, <1>12, <1>13

LEMMA TryTier1OK == ExecIInv /\ TryTier1 => ExecIInv'
<1> SUFFICES ASSUME ExecIInv, TryTier1 PROVE ExecIInv'
  OBVIOUS
<1>1. phase = "try" /\ UNCHANGED <<batch, status, mode, queue, score>>
  BY DEF TryTier1
<1>2. PICK r \in SkillResults(StepNow, where, at[Command]) :
        /\ Left(r)
        /\ tries' = tries + 1
        /\ \/ r.ok /\ EndStep(r)
           \/ ~r.ok /\ phase' = (IF tries' < Attempts THEN "try" ELSE "fallback")
                    /\ UNCHANGED <<shared, order, oks, worked>>
  BY DEF TryTier1
<1>3. StepNow \in Step /\ StepNow.prim \in HasSkill /\ Command \in Commands
  BY <1>1, CurrentStep DEF ExecIInv, Phased
<1>4. r \in Drafts(at[Command] \in {NoPlace, where})
  BY <1>2, <1>3, SkillDrafts DEF ExecIInv, TypeOK
<1>5. tries' \in 0..Attempts
  BY <1>1, <1>2, ExecutionAssumption DEF ExecIInv, Phased, TypeOK
<1>6. CASE r.ok /\ EndStep(r)
  BY <1>1, <1>2, <1>4, <1>5, <1>6, EndStepOK
<1>7. CASE ~r.ok /\ phase' = (IF tries' < Attempts THEN "try" ELSE "fallback")
                 /\ UNCHANGED <<shared, order, oks, worked>>
  <2> USE <1>1, <1>7 DEF ExecIInv, batch, score
  <2>1. /\ where' \in Everywhere /\ at' \in [Commands -> Places \cup {NoPlace}] /\ strayed' \in BOOLEAN
        /\ at'[Command] = r.at /\ (~strayed' => r.at \in {NoPlace, where'})
    BY <1>2, <1>4, LeftHonest
  <2>2. Current' = Current /\ Command' = Command /\ StepNow' = StepNow
    BY DEF Current, Command, StepNow
  <2>3. TypeOK'
    BY <1>5, <2>1 DEF TypeOK
  <2>4. Phased'
    BY <1>3, <2>2 DEF Phased, Running
  <2>5. Planned' /\ Queued' /\ OutcomesRecorded' /\ Scored'
    BY DEF Planned, Queued, OutcomesRecorded, Scored
  <2>6. Progress' /\ OrderLeft'
    BY DEF Progress, OrderLeft, Unbegun, Settled, SkipDeclined, Active, Runnable, Running
  <2>7. Honest'
    BY <2>1, <2>2 DEF Honest, Believed
  <2> QED BY <2>3, <2>4, <2>5, <2>6, <2>7
<1> QED BY <1>2, <1>6, <1>7

LEMMA FallBackOK == ExecIInv /\ FallBack => ExecIInv'
<1> SUFFICES ASSUME ExecIInv, FallBack PROVE ExecIInv'
  OBVIOUS
<1>1. phase = "fallback" /\ UNCHANGED <<batch, status, mode, queue, tries, score>>
  BY DEF FallBack
<1>2. PICK r \in FallbackResults(StepNow, where, at[Command]) : Left(r) /\ EndStep(r)
  BY DEF FallBack
<1>3. Command \in Commands
  BY <1>1, CurrentStep
<1>4. r \in Drafts(at[Command] \in {NoPlace, where})
  BY <1>2, <1>3, FallbackDrafts DEF ExecIInv, TypeOK
<1>5. tries' \in 0..Attempts \cup {1, 2}
  BY <1>1 DEF ExecIInv, TypeOK
<1> QED
  BY <1>1, <1>2, <1>4, <1>5, EndStepOK

-----------------------------------------------------------------------------
(* The invariant holds of the first state and of every step. *)

LEMMA InitOK == Init => ExecIInv
<1> SUFFICES ASSUME Init PROVE ExecIInv
  OBVIOUS
<1> USE DEF Init
<1>1. TypeOK
  <2>1. /\ plan \in [Commands -> Seq(Step)] /\ confirmed \in [Commands -> BOOLEAN]
        /\ status \in [Commands -> Statuses] /\ at \in [Commands -> Places \cup {NoPlace}]
        /\ oks \in [Commands -> Seq(BOOLEAN)]
    BY DEF Statuses
  <2>2. queue \in Seq(Commands) /\ order \in Seq(Commands \X Nat)
    OBVIOUS
  <2>3. /\ asked \in 0..(MaxRephrasings + MaxCustom) /\ tries \in 0..Attempts \cup {1, 2}
        /\ solved \in 0..MaxSolve /\ bonus \in 0..1
    BY ExecutionAssumption
  <2>4. {oneByOne, manip} \subseteq BOOLEAN
    BY ExecutionAssumption
  <2>5. /\ heard \in Batches \cup {<<>>} /\ mode = "none" /\ phase = "point" /\ shared = NoPlace
        /\ where \in Everywhere /\ strayed \in BOOLEAN /\ worked \subseteq Commands \X Nat
    BY DEF Everywhere
  <2> HIDE DEF Init
  <2> QED BY <2>1, <2>2, <2>3, <2>4, <2>5 DEF TypeOK
<1>2. Phased /\ Planned /\ Queued /\ Scored
  BY DEF Phased, Planned, Queued, Scored, Running
<1>3. OutcomesRecorded
  <2>1. \A c \in Commands : Len(oks[c]) = 0 /\ Len(plan[c]) = 0
    OBVIOUS
  <2> QED BY <2>1 DEF OutcomesRecorded
<1>4. Progress
  <2>1. \A c \in Commands : Unbegun(c)
    BY DEF Unbegun
  <2> QED BY <2>1 DEF Progress, Running
<1>5. OrderLeft /\ Honest
  BY DEF OrderLeft, Honest, Running
<1> QED
  BY <1>1, <1>2, <1>3, <1>4, <1>5 DEF ExecIInv

LEMMA StutterOK == ExecIInv /\ UNCHANGED vars => ExecIInv'
<1> SUFFICES ASSUME ExecIInv, UNCHANGED vars PROVE ExecIInv'
  OBVIOUS
<1> USE DEF ExecIInv, vars, batch, done, score
<1>1. TypeOK'
  BY DEF TypeOK
<1>2. Current' = Current /\ Command' = Command /\ StepNow' = StepNow /\ Running' = Running
  BY DEF Current, Command, StepNow, Running
<1>3. Phased' /\ Planned' /\ Queued' /\ OutcomesRecorded' /\ Scored'
  BY <1>2 DEF Phased, Planned, Queued, OutcomesRecorded, Scored, MadeProgress
<1>4. Progress' /\ OrderLeft'
  BY <1>2 DEF Progress, OrderLeft, Unbegun, Settled, SkipDeclined, Active, Runnable
<1>5. Honest'
  BY <1>2 DEF Honest, Believed
<1> QED
  BY <1>1, <1>3, <1>4, <1>5

LEMMA NextOK == ExecIInv /\ [Next]_vars => ExecIInv'
<1> SUFFICES ASSUME ExecIInv, [Next]_vars PROVE ExecIInv'
  OBVIOUS
<1>1. ASSUME Onward PROVE ExecIInv'
  BY <1>1, ReachPointOK, MissPointOK, HearNothingOK, ReceiveOK, BeginSerialOK, ServeSkipsOK,
     ServeUnplannedOK, ServePlanOK, BeginStepOK, TryTier1OK, FallBackOK, FinishSerialOK,
     FinishInterleavedOK, AllServedOK, ScoreOK, ReturnOK DEF Onward
<1> QED
  BY <1>1, BeginInterleavedOK, StutterOK DEF Next

THEOREM ExecutionInvariant == Spec => []ExecIInv
BY InitOK, NextOK, PTL DEF Spec

(* The task's variables keep their types. *)
THEOREM ExecutionTypeCorrect == Spec => []TypeOK
<1>1. ExecIInv => TypeOK
  BY DEF ExecIInv
<1> QED
  BY <1>1, ExecutionInvariant, PTL

(* The steps still to run are those of each command after the last outcome
   recorded for it, in its order: none is run twice, early or not at all. *)
THEOREM StepsRunInOrder == Spec => []StepsInOrder
<1>1. ASSUME ExecIInv PROVE StepsInOrder
  <2> SUFFICES ASSUME phase \in {"step", "try", "fallback"}
               PROVE  /\ \A j, k \in 1..Len(order) :
                           j < k /\ order[j][1] = order[k][1] => order[j][2] < order[k][2]
                      /\ \A c \in Commands :
                           StepsLeft(c) # {} => StepsLeft(c) = (Len(oks[c]) + 1)..Len(plan[c])
    BY DEF StepsInOrder
  <2>1. OrderLeft /\ Running
    BY <1>1 DEF ExecIInv, Running
  <2>2. ASSUME NEW c \in Commands, StepsLeft(c) # {}
        PROVE  StepsLeft(c) = (Len(oks[c]) + 1)..Len(plan[c])
    <3>1. c \in Active
      BY <2>1, <2>2 DEF StepsLeft, OrderLeft
    <3>2. \A i \in StepsLeft(c) : i \in (Len(oks[c]) + 1)..Len(plan[c])
      BY <2>1 DEF StepsLeft, OrderLeft
    <3>3. ASSUME NEW i \in (Len(oks[c]) + 1)..Len(plan[c]) PROVE i \in StepsLeft(c)
      <4>1. PICK k \in 1..Len(order) : order[k] = <<c, i>>
        BY <2>1, <3>1 DEF OrderLeft
      <4> QED BY <4>1 DEF StepsLeft
    <3> QED BY <3>2, <3>3
  <2> QED BY <2>1, <2>2 DEF OrderLeft
<1> QED
  BY <1>1, ExecutionInvariant, PTL

-----------------------------------------------------------------------------
(* What is claimed of the commands when the run is over. *)

Good(c) == {i \in 1..Len(plan[c]) : <<c, i>> \in worked}

LEMMA OverIsSettled ==
  ASSUME ExecIInv, phase = "over", NEW c \in DOMAIN heard
  PROVE  mode # "none" /\ Settled(c)
<1>1. HeardFacts
  BY HeardCommands DEF ExecIInv
<1>2. mode # "none" /\ queue = <<>> /\ ~Running
  BY DEF ExecIInv, Phased, Running
<1>3. mode \in {"serial", "interleaved"}
  BY <1>2 DEF ExecIInv, TypeOK
<1>4. CASE mode = "serial"
  <2>1. c <= Len(heard) - Len(queue)
    BY <1>1, <1>2 DEF HeardFacts
  <2> QED BY <1>2, <1>4, <2>1 DEF ExecIInv, Progress
<1>5. CASE mode = "interleaved"
  BY <1>2, <1>5 DEF ExecIInv, Progress
<1> QED BY <1>2, <1>3, <1>4, <1>5

(* The summary of a command that was run is the truth about its steps. *)
LEMMA SummaryIsTrue ==
  ASSUME ExecIInv, NEW c \in Commands, Settled(c), ~SkipDeclined(c)
  PROVE  status[c] = IF Good(c) = {} THEN "FAILED"
                     ELSE IF Good(c) = 1..Len(plan[c]) THEN "DONE" ELSE "PARTIAL"
<1>1. Len(oks[c]) = Len(plan[c]) /\ status[c] = Summarize(oks[c])
  BY DEF Settled
<1>2. \A i \in 1..Len(oks[c]) : oks[c][i] <=> i \in Good(c)
  BY <1>1 DEF ExecIInv, OutcomesRecorded, Good
<1>3. Good(c) \subseteq 1..Len(oks[c])
  BY <1>1 DEF Good
<1>4. (\A i \in 1..Len(oks[c]) : ~oks[c][i]) <=> Good(c) = {}
  BY <1>2, <1>3
<1>5. (\A i \in 1..Len(oks[c]) : oks[c][i]) <=> Good(c) = 1..Len(plan[c])
  BY <1>1, <1>2, <1>3
<1> QED BY <1>1, <1>4, <1>5 DEF Summarize

(* When the run is over, each command's status says what its own steps did. *)
THEOREM StatusIsTrue == Spec => []StatusTellsTruth
<1>1. ASSUME ExecIInv PROVE StatusTellsTruth
  <2> SUFFICES ASSUME phase = "over", NEW c \in DOMAIN heard
               PROVE  IF plan[c] # <<>> /\ ~confirmed[c]
                      THEN status[c] = "PLANNED" /\ oks[c] = <<>>
                      ELSE status[c] = IF Good(c) = {} THEN "FAILED"
                                       ELSE IF Good(c) = 1..Len(plan[c]) THEN "DONE" ELSE "PARTIAL"
    BY DEF StatusTellsTruth, Good
  <2>1. c \in Commands
    BY <1>1, HeardCommands DEF ExecIInv, HeardFacts
  <2>2. Settled(c)
    BY <1>1, OverIsSettled
  <2>3. CASE SkipDeclined(c)
    BY <2>2, <2>3 DEF Settled, SkipDeclined
  <2>4. CASE ~SkipDeclined(c)
    BY <1>1, <2>1, <2>2, <2>4, SummaryIsTrue DEF SkipDeclined
  <2> QED BY <2>3, <2>4
<1> QED
  BY <1>1, ExecutionInvariant, PTL

(* The commands that made progress are those of which a step succeeded. *)
LEMMA ProgressIsWork ==
  ASSUME ExecIInv, phase = "over", mode # "none"
  PROVE  MadeProgress = {e[1] : e \in worked}
<1>1. HeardFacts /\ worked \subseteq Commands \X Nat
  BY HeardCommands DEF ExecIInv, TypeOK
<1>2. \A c \in Commands : c \notin DOMAIN heard => Unbegun(c)
  BY DEF ExecIInv, Progress
<1>3. ASSUME NEW c \in MadeProgress PROVE c \in {e[1] : e \in worked}
  <2>1. c \in Commands /\ status[c] \in {"DONE", "PARTIAL"}
    BY DEF MadeProgress
  <2>2. c \in DOMAIN heard
    BY <1>2, <2>1 DEF Unbegun
  <2>3. Settled(c) /\ ~SkipDeclined(c)
    BY <2>1, <2>2, OverIsSettled DEF Settled
  <2>4. Good(c) # {}
    BY <2>1, <2>3, SummaryIsTrue
  <2>5. PICK i : <<c, i>> \in worked
    BY <2>4 DEF Good
  <2>6. <<c, i>>[1] = c
    OBVIOUS
  <2> QED BY <2>5, <2>6
<1>4. ASSUME NEW e \in worked PROVE e[1] \in MadeProgress
  <2>1. e[1] \in Commands /\ e = <<e[1], e[2]>>
    BY <1>1
  <2>2. e[2] \in 1..Len(oks[e[1]]) /\ Len(oks[e[1]]) <= Len(plan[e[1]])
    BY <2>1 DEF ExecIInv, OutcomesRecorded
  <2>3. e[2] \in 1..Len(plan[e[1]]) /\ oks[e[1]] # <<>>
    BY <1>1, <2>1, <2>2 DEF HeardFacts
  <2>4. e[1] \in DOMAIN heard
    BY <1>2, <2>1, <2>3 DEF Unbegun
  <2>5. Settled(e[1]) /\ ~SkipDeclined(e[1])
    BY <2>3, <2>4, OverIsSettled DEF Settled
  <2>6. Good(e[1]) # {}
    BY <2>1, <2>3 DEF Good
  <2> QED BY <2>1, <2>5, <2>6, SummaryIsTrue DEF MadeProgress
<1> QED BY <1>3, <1>4

(* The claimed score counts the commands that made progress, each once. *)
THEOREM ScoreIsTrue == Spec => []ScoreIsEarned
<1>1. ASSUME ExecIInv PROVE ScoreIsEarned
  <2> SUFFICES ASSUME phase = "over"
               PROVE  solved = Min({MaxSolve, Cardinality({e[1] : e \in worked})})
    BY DEF ScoreIsEarned
  <2>1. CASE mode = "none"
    <3>1. solved = 0 /\ heard = <<>>
      BY <1>1, <2>1 DEF ExecIInv, Scored, Phased
    <3>2. \A c \in Commands : Len(oks[c]) = 0
      BY <1>1, <3>1 DEF ExecIInv, Progress, Unbegun
    <3>3. worked = {}
      <4>1. \A e \in worked : e[1] \in Commands /\ e[2] \in 1..Len(oks[e[1]])
        BY <1>1 DEF ExecIInv, TypeOK, OutcomesRecorded
      <4> QED BY <3>2, <4>1
    <3>4. {e[1] : e \in worked} = {}
      BY <3>3
    <3>5. Cardinality({e[1] : e \in worked}) = 0
      BY <3>4, FS_EmptySet
    <3>6. Min({MaxSolve, 0}) = 0
      BY MinOfTwo, ExecutionAssumption
    <3> QED BY <3>1, <3>5, <3>6
  <2>2. CASE mode # "none"
    <3>1. solved = Min({Cardinality(MadeProgress), MaxSolve})
      BY <1>1, <2>2 DEF ExecIInv, Scored
    <3>2. {Cardinality(MadeProgress), MaxSolve} = {MaxSolve, Cardinality(MadeProgress)}
      OBVIOUS
    <3> QED BY <1>1, <2>2, <3>1, <3>2, ProgressIsWork
  <2> QED BY <2>1, <2>2
<1> QED
  BY <1>1, ExecutionInvariant, PTL

(* When a skill may skip a drive because of state["at"], the robot is there. *)
THEOREM CacheIsHonest == Spec => []CacheHonestUnlessAstray
<1>1. ExecIInv => CacheHonestUnlessAstray
  BY DEF ExecIInv, Honest, Believed, Running, CacheHonestUnlessAstray
<1> QED
  BY <1>1, ExecutionInvariant, PTL
=============================================================================

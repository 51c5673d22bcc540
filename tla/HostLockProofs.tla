--------------------------- MODULE HostLockProofs ---------------------------
(* What the lock of FollowLock guarantees, for every box, every number of      *)
(* confirming ticks and every tolerance; and whom the selector of HostLock can *)
(* follow, for every frame, crowd and setting.  Then where a guest is sent:    *)
(* the seats of Seating, for all furniture, views, slips and moves.            *)
EXTENDS HostLock, Seating, FiniteSetTheorems, SequenceTheorems, WellFoundedInduction, TLAPS

-----------------------------------------------------------------------------
(* The lock: module FollowLock. *)

(* The counters the code keeps measure what happened: without a lock every     *)
(* confirming tick was a matching one, with a lock every tick since the last   *)
(* match was counted as a miss, and a first lock needs no confirming.          *)
Counted ==
  /\ ~locked => confirm <= hits /\ confirm < ConfirmTicks
  /\ locked => /\ everLocked /\ lastBox # NoBox
               /\ miss <= MissTolerance /\ gaps <= miss
  /\ hits <= ConfirmTicks
  /\ ~everLocked => confirm = 0

LockInv == TypeOK /\ Counted

LEMMA LockInit == Init => LockInv
<1> SUFFICES ASSUME Init PROVE LockInv
  OBVIOUS
<1>1. locked \in BOOLEAN /\ everLocked \in BOOLEAN /\ ~locked /\ ~everLocked
  BY Zenon DEF Init
<1>2. TypeOK
  BY <1>1, FollowLockAssumption DEF Init, TypeOK
<1>3. Counted
  BY <1>1, FollowLockAssumption DEF Init, Counted
<1> QED BY <1>2, <1>3 DEF LockInv

(* One tick, whatever the frame matched. *)
LEMMA LockStep == LockInv /\ [Next]_vars => LockInv'
<1> SUFFICES ASSUME LockInv, [Next]_vars PROVE LockInv'
  OBVIOUS
<1> USE FollowLockAssumption DEF LockInv, TypeOK, Counted
<1>1. CASE UNCHANGED vars
  BY <1>1 DEF vars, lock
<1>2. ASSUME NEW box \in Boxes \cup {NoBox}, Tick(box) PROVE LockInv'
  <2> DEFINE Count == /\ tick' = (tick + 1) % FaceEvery
                      /\ hits' = IF box = NoBox THEN 0
                                 ELSE IF hits < ConfirmTicks THEN hits + 1 ELSE hits
                      /\ gaps' = IF box # NoBox THEN 0
                                 ELSE IF gaps <= MissTolerance THEN gaps + 1 ELSE gaps
  <2>1. Count
    BY <1>2 DEF Tick
  <2>2. tick' \in 0..(FaceEvery - 1)
    BY <2>1
  <2>3. CASE NothingFound(box)
    BY <2>1, <2>2, <2>3 DEF NothingFound
  <2>4. CASE Confirming(box)
    BY <2>1, <2>2, <2>4 DEF Confirming, Needed
  <2>5. CASE Commit(box)
    BY <2>1, <2>2, <2>5 DEF Commit
  <2>6. CASE Hold(box)
    BY <2>1, <2>2, <2>6 DEF Hold
  <2>7. CASE Coast(box)
    BY <2>1, <2>2, <2>7 DEF Coast
  <2>8. CASE Lose(box)
    <3>1. everLocked' /\ ~locked' /\ locked' \in BOOLEAN /\ everLocked' \in BOOLEAN
      BY <2>8, Zenon DEF Lose
    <3>2. /\ confirm' = 0 /\ miss' = miss + 1
          /\ lastBox' = NoBox /\ answer' = NoBox
      BY <2>8 DEF Lose
    <3> QED BY <2>1, <2>2, <3>1, <3>2
  <2> QED BY <1>2, <2>3, <2>4, <2>5, <2>6, <2>7, <2>8 DEF Tick
<1> QED BY <1>1, <1>2 DEF Next

(* The counters of the selector keep their types and mean what they count.     *)
THEOREM LockCounts == Spec => []LockInv
  BY LockInit, LockStep, PTL DEF Spec

(* A lock stands on recent evidence, for every tolerance.                      *)
THEOREM FreshTheorem == Spec => []LockIsFresh
<1>1. LockInv => LockIsFresh
  BY FollowLockAssumption DEF LockInv, TypeOK, Counted, LockIsFresh
<1> QED BY <1>1, LockCounts, PTL

(* A lost lock is re-taken only when it was confirmed, for every ConfirmTicks. *)
THEOREM RelockTheorem == Spec => RelockIsEarned
<1>1. LockInv /\ [Next]_vars => [Reacquiring /\ locked' => hits' >= ConfirmTicks]_vars
  <2> SUFFICES ASSUME LockInv, NEW box \in Boxes \cup {NoBox}, Tick(box),
                      Reacquiring, locked'
               PROVE hits' >= ConfirmTicks
    BY DEF Next
  <2> USE FollowLockAssumption DEF LockInv, TypeOK, Counted, Reacquiring
  <2>1. Commit(box)
    BY DEF Tick, NothingFound, Confirming, Hold, Coast, Lose
  <2>2. confirm + 1 >= ConfirmTicks /\ box # NoBox
    BY <2>1 DEF Commit, Needed
  <2> QED BY <2>2 DEF Tick
<1> QED BY <1>1, LockCounts, PTL DEF Spec, RelockIsEarned

-----------------------------------------------------------------------------
(* The selector: module HostLock. *)

LEMMA ClosestBoxes ==
  ASSUME NEW view \in Views, NEW sims, NEW people \in SUBSET DOMAIN view,
         NEW box \in Closest(view, sims, people)
  PROVE  box = NoBox \/ \E p \in people : box = Box(view, p)
BY DEF Closest

(* Every box the selector can pick is nobody's, or somebody's in view whom the *)
(* face or the attire vectors say is the host.                                 *)
LEMMA SelectBoxes ==
  ASSUME NEW view \in Views, NEW box \in Select(view), box # NoBox
  PROVE  \E p \in DOMAIN view :
           /\ box = Box(view, p)
           /\ IsHost(Face, p, MatchFloor) \/ IsHost(Attire, p, MatchFloor)
<1> DEFINE Good(b) == \E p \in DOMAIN view :
                        /\ b = Box(view, p)
                        /\ IsHost(Face, p, MatchFloor) \/ IsHost(Attire, p, MatchFloor)
<1>1. ASSUME NEW b \in ByFace(view), b # NoBox PROVE Good(b)
  <2> DEFINE people == {p \in {q \in DOMAIN view : view[q].facing /\ (Reacquiring => view[q].near)}
                          : IsHost(Face, p, MatchFloor)}
  <2>1. b \in Closest(view, Face, people) /\ people \in SUBSET DOMAIN view
    BY <1>1 DEF ByFace
  <2>2. PICK p \in people : b = Box(view, p)
    BY <1>1, <2>1, ClosestBoxes
  <2> QED BY <2>2
<1>2. ASSUME NEW cands \in SUBSET DOMAIN view, NEW b \in ByAttire(view, cands), b # NoBox
      PROVE Good(b)
  <2> DEFINE people == {p \in cands : IsHost(Attire, p, MatchFloor)}
  <2>1. b \in Closest(view, Attire, people) /\ people \in SUBSET DOMAIN view
    BY <1>2 DEF ByAttire
  <2>2. PICK p \in people : b = Box(view, p)
    BY <1>2, <2>1, ClosestBoxes
  <2> QED BY <2>2
<1>3. ASSUME NEW cands \in SUBSET DOMAIN view, NEW b \in AttirePass(view, cands), b # NoBox
      PROVE Good(b)
  <2>1. Gated(view, cands) \in SUBSET DOMAIN view
    BY DEF Gated
  <2>2. b \in ByAttire(view, Gated(view, cands)) \/ b \in ByAttire(view, cands)
    BY <1>3 DEF AttirePass
  <2> QED BY <1>2, <1>3, <2>1, <2>2
<1>4. Candidates(view) \in SUBSET DOMAIN view
  BY DEF Candidates, NotFaced
<1>5. box \in ByFace(view) \/ box \in AttirePass(view, Candidates(view))
  BY DEF Select
<1> QED BY <1>1, <1>3, <1>4, <1>5

LEMMA SelectInBoxes ==
  ASSUME NEW view \in Views, NEW box \in Select(view)
  PROVE  box \in Boxes \cup {NoBox}
<1> SUFFICES ASSUME box # NoBox PROVE box \in Boxes
  OBVIOUS
<1>1. PICK p \in DOMAIN view : box = Box(view, p)
  BY SelectBoxes
<1>2. PICK shown \in SUBSET People : view \in [shown -> Sights]
  BY DEF Views
<1>3. p \in People /\ view[p].at \in Places
  BY <1>2 DEF Sights
<1> QED BY <1>1, <1>3, HostLockAssumption DEF Box

(* An enrolled person is never taken for the host, by face or by attire.       *)
LEMMA EnrolledIsNotHost ==
  ASSUME NEW p \in (DOMAIN Face \cap DOMAIN Attire) \ {Host}, NEW floor
  PROVE  ~IsHost(Face, p, floor) /\ ~IsHost(Attire, p, floor)
<1>1. ASSUME NEW sims \in {Face, Attire} PROVE ~IsHost(sims, p, floor)
  <2> SUFFICES ASSUME IsHost(sims, p, floor) PROVE FALSE
    OBVIOUS
  <2>1. p \in DOMAIN sims \ {Host} /\ Host \in DOMAIN sims /\ p \in People
    BY HostLockAssumption DEF IsHost
  <2>2. sims[Host][p] \in Int /\ sims[p][p] \in Int /\ IdMargin \in Int
    BY <2>1, HostLockAssumption
  <2>3. sims[Host][p] - sims[p][p] < IdMargin
    BY <2>1, HostLockAssumption DEF Told
  <2>4. sims[Host][p] - sims[p][p] >= IdMargin
    BY <2>1 DEF IsHost
  <2> QED BY <2>2, <2>3, <2>4
<1> QED BY <1>1

(* The selector with all its passes is a FollowLock: whatever is shown of that *)
(* holds of it.                                                                *)
THEOREM HostLockImplements == HostSpec => Spec
<1>1. HostInit => Init
  BY DEF HostInit
<1>2. [HostNext]_allVars => [Next]_vars
  BY SelectInBoxes DEF HostNext, Look, Next, allVars
<1> QED BY <1>1, <1>2, PTL DEF HostSpec, Spec

(* Another enrolled person is never driven to.                                 *)
THEOREM EnrolledTheorem == HostSpec => []EnrolledNotFollowed
<1>1. HostInit => EnrolledNotFollowed
  BY DEF HostInit, Init, EnrolledNotFollowed
<1>2. EnrolledNotFollowed /\ [HostNext]_allVars => EnrolledNotFollowed'
  <2> SUFFICES ASSUME EnrolledNotFollowed, [HostNext]_allVars PROVE EnrolledNotFollowed'
    OBVIOUS
  <2>1. CASE UNCHANGED allVars
    BY <2>1 DEF allVars, vars, lock, EnrolledNotFollowed
  <2>2. ASSUME NEW view \in Views, NEW box \in Select(view), Tick(box)
        PROVE EnrolledNotFollowed'
    <3>1. answer' = NoBox \/ (answer' = box /\ box # NoBox)
      BY <2>2 DEF Tick, NothingFound, Confirming, Commit, Hold, Coast, Lose
    <3>2. ASSUME box # NoBox
          PROVE box.who \notin (DOMAIN Face \cap DOMAIN Attire) \ {Host}
      <4>1. PICK p \in DOMAIN view :
              /\ box = Box(view, p)
              /\ IsHost(Face, p, MatchFloor) \/ IsHost(Attire, p, MatchFloor)
        BY <3>2, SelectBoxes
      <4>2. box.who = p
        BY <4>1 DEF Box
      <4> QED BY <4>1, <4>2, EnrolledIsNotHost
    <3> QED BY <3>1, <3>2 DEF EnrolledNotFollowed
  <2> QED BY <2>1, <2>2 DEF HostNext, Look
<1> QED BY <1>1, <1>2, PTL DEF HostSpec

(* The attire passes match only people among the candidates they are given.    *)
LEMMA AttireBoxes ==
  ASSUME NEW view \in Views, NEW cands \in SUBSET DOMAIN view,
         NEW box \in AttirePass(view, cands), box # NoBox
  PROVE  \E p \in cands : box = Box(view, p)
<1>1. Gated(view, cands) \in SUBSET cands
  BY DEF Gated
<1>2. box \in ByAttire(view, Gated(view, cands)) \/ box \in ByAttire(view, cands)
  BY DEF AttirePass
<1>3. ASSUME NEW near \in SUBSET cands, box \in ByAttire(view, near)
      PROVE \E p \in cands : box = Box(view, p)
  <2> DEFINE people == {p \in near : IsHost(Attire, p, MatchFloor)}
  <2>1. box \in Closest(view, Attire, people) /\ people \in SUBSET DOMAIN view
    BY <1>3 DEF ByAttire
  <2>2. \E p \in people : box = Box(view, p)
    BY <2>1, ClosestBoxes
  <2> QED BY <2>2
<1> QED BY <1>1, <1>2, <1>3

(* Whoever is clearly another by the face is no match for the host's face,     *)
(* whether a lock is held or sought.                                           *)
LEMMA AnotherIsNotHost ==
  ASSUME NonHostBelow <= Floor, NEW view \in Views, NEW p \in DOMAIN view,
         ShowsAnother(view, p)
  PROVE  ~IsHost(Face, p, MatchFloor)
<1>1. PICK shown \in SUBSET People : view \in [shown -> Sights]
  BY DEF Views
<1>2. Host \in DOMAIN Face /\ Face[Host][p] \in Int /\ Face[Host][p] < NonHostBelow
  BY <1>1, HostLockAssumption DEF ShowsAnother
<1>3. Floor \in Nat /\ ReacquireFloor \in Nat /\ NonHostBelow \in Nat
  BY HostLockAssumption
<1>4. MatchFloor \in Nat /\ Floor <= MatchFloor
  BY <1>3 DEF MatchFloor
<1>5. Face[Host][p] < MatchFloor
  BY <1>2, <1>3, <1>4
<1> QED BY <1>2, <1>4, <1>5 DEF IsHost

(* Nobody who showed another's face is matched in the tick that looked at it,  *)
(* if what counts as another's face is no more similar than a match need be.   *)
THEOREM FacedTheorem ==
  ASSUME NonHostBelow <= Floor
  PROVE  HostSpec => []FacedNotMatched
<1>1. HostInit => FacedNotMatched
  BY DEF HostInit, FacedNotMatched
<1>2. FacedNotMatched /\ [HostNext]_allVars => FacedNotMatched'
  <2>1. ASSUME FacedNotMatched, UNCHANGED allVars PROVE FacedNotMatched'
    BY <2>1 DEF allVars, FacedNotMatched
  <2>2. ASSUME NEW view \in Views, Look(view) PROVE FacedNotMatched'
    <3> DEFINE faced == {p \in DOMAIN view : RunFace /\ ShowsAnother(view, p)}
    <3>1. matched' \in Select(view) /\ audit'.faced = faced
      BY <2>2 DEF Look
    <3>2. SUFFICES ASSUME matched' # NoBox, matched'.who \in faced PROVE FALSE
      BY <3>1 DEF FacedNotMatched
    <3>3. CASE matched' \in ByFace(view)
      <4> DEFINE people == {p \in {q \in DOMAIN view : view[q].facing /\ (Reacquiring => view[q].near)}
                              : IsHost(Face, p, MatchFloor)}
      <4>1. matched' \in Closest(view, Face, people) /\ people \in SUBSET DOMAIN view
        BY <3>3 DEF ByFace
      <4>2. PICK p \in people : matched' = Box(view, p)
        BY <3>2, <4>1, ClosestBoxes
      <4>3. p \in faced
        BY <3>2, <4>2 DEF Box
      <4> QED BY <4>2, <4>3, AnotherIsNotHost
    <3>4. CASE matched' \in AttirePass(view, Candidates(view))
      <4>1. Candidates(view) \in SUBSET DOMAIN view
        BY DEF Candidates, NotFaced
      <4>2. PICK p \in Candidates(view) : matched' = Box(view, p)
        BY <3>2, <3>4, <4>1, AttireBoxes
      <4>3. p \in faced
        BY <3>2, <4>2 DEF Box
      <4> QED BY <4>2, <4>3 DEF Candidates, NotFaced
    <3> QED BY <3>1, <3>2, <3>3, <3>4 DEF Select
  <2> QED BY <2>1, <2>2 DEF HostNext
<1> QED BY <1>1, <1>2, PTL DEF HostSpec

-----------------------------------------------------------------------------
(* Pieces, cushions and regions. *)

LEMMA LeastExists ==
  ASSUME NEW S \in SUBSET Nat, S # {}
  PROVE  \E x \in S : \A y \in S : x <= y
<1>1. PICK x \in S : \A y \in S : ~(<<y, x>> \in OpToRel(<, Nat))
  BY WFMin, NatLessThanWellFounded
<1>2. \A y \in S : ~(y < x)
  BY <1>1 DEF OpToRel
<1> QED BY <1>2

LEMMA MinIsLeast ==
  ASSUME NEW S \in SUBSET Nat, S # {}
  PROVE  Min(S) \in S /\ \A y \in S : Min(S) <= y
BY LeastExists DEF Min

LEMMA SizeIs ==
  ASSUME NEW f \in Furniture
  PROVE  /\ Size(f) \in {1, 2, 3}
         /\ f \in Sofas => Size(f) = Cushions
         /\ f \notin Sofas => Size(f) = 1
         /\ \A i \in 1 .. Size(f) : <<f, i>> \in Spots
         /\ \A i : <<f, i>> \in Spots => i \in 1 .. Size(f)
<1>1. Cushions \in {2, 3}
  BY SeatingAssumption
<1>2. /\ Size(f) \in {1, 2, 3} /\ Size(f) <= Cushions
      /\ f \in Sofas => Size(f) = Cushions
      /\ f \notin Sofas => Size(f) = 1
  BY <1>1 DEF Size
<1>3. ASSUME NEW i \in 1 .. Size(f) PROVE <<f, i>> \in Spots
  BY DEF Spots
<1>4. ASSUME NEW i, <<f, i>> \in Spots PROVE i \in 1 .. Size(f)
  <2>1. PICK g \in Furniture : <<f, i>> \in {g} \X (1 .. Size(g))
    BY <1>4 DEF Spots
  <2> QED BY <2>1
<1> QED BY <1>2, <1>3, <1>4

(* A view shows at most the cushions there are, from the first to the last. *)
LEMMA InViewIs ==
  ASSUME NEW h, NEW f \in Furniture, InView(h, f) # {}
  PROVE  LET first == Min(InView(h, f))
             shown == Cardinality(InView(h, f))
         IN  /\ first \in InView(h, f) /\ first \in 1 .. Size(f)
             /\ shown \in 1 .. Size(f)
             /\ first + shown - 1 <= Size(f)
<1> DEFINE V == InView(h, f)
           first == Min(V)
           shown == Cardinality(V)
<1>1. Size(f) \in {1, 2, 3}
  BY SizeIs
<1>2. V \subseteq 1 .. Size(f)
  BY DEF InView
<1>3. V \in SUBSET Nat
  BY <1>1, <1>2
<1>4. first \in V /\ \A i \in V : first <= i
  BY <1>3, MinIsLeast
<1>5. first \in 1 .. Size(f)
  BY <1>2, <1>4
<1>6. V \subseteq first .. Size(f)
  BY <1>1, <1>2, <1>4, <1>5
<1>7. /\ IsFiniteSet(first .. Size(f))
      /\ Cardinality(first .. Size(f)) = Size(f) - first + 1
  BY <1>1, <1>5, FS_Interval
<1>8. IsFiniteSet(V) /\ shown <= Cardinality(first .. Size(f))
  BY <1>6, <1>7, FS_Subset
<1>9. shown \in Nat /\ shown # 0
  BY <1>8, FS_CardinalityType, FS_EmptySet
<1> QED BY <1>1, <1>4, <1>5, <1>7, <1>8, <1>9

(* A view of the whole piece shows every cushion of it. *)
LEMMA WholeIs ==
  ASSUME NEW h, NEW f \in Furniture, Whole(h, f)
  PROVE  /\ InView(h, f) = 1 .. Size(f)
         /\ Min(InView(h, f)) = 1
         /\ Cardinality(InView(h, f)) = Size(f)
         /\ InView(h, f) # {}
<1>1. Size(f) \in {1, 2, 3}
  BY SizeIs
<1>2. IsFiniteSet(1 .. Size(f)) /\ Cardinality(1 .. Size(f)) = Size(f)
  BY <1>1, FS_Interval
<1>3. InView(h, f) \subseteq 1 .. Size(f)
  BY DEF InView
<1>4. InView(h, f) = 1 .. Size(f)
  BY <1>2, <1>3, FS_Subset DEF Whole
<1>5. 1 \in InView(h, f) /\ InView(h, f) \in SUBSET Nat
  BY <1>1, <1>4
<1>6. Min(InView(h, f)) \in 1 .. Size(f) /\ Min(InView(h, f)) <= 1
  BY <1>4, <1>5, MinIsLeast
<1> QED BY <1>1, <1>2, <1>4, <1>5, <1>6

(* In a view of the whole piece the regions are the cushions. *)
LEMMA RegionsAreCushions ==
  ASSUME NEW h, NEW f \in Furniture, Whole(h, f), NEW i \in 1 .. Size(f)
  PROVE  RegionOf(h, f, i) = i /\ CushionOf(h, f, i) = i
<1> DEFINE s == Size(f)
<1>1. s \in {1, 2, 3} /\ i \in 1 .. s
  BY SizeIs
<1>2. Min(InView(h, f)) = 1 /\ Cardinality(InView(h, f)) = s
  BY WholeIs
<1>3. RegionOf(h, f, i) = ((2 * (i - 1) + 1) * s + 2 * s - 1) \div (2 * s)
  BY <1>2 DEF RegionOf
<1>4. CushionOf(h, f, i) = 1 + ((2 * i - 1) * s) \div (2 * s)
  BY <1>2 DEF CushionOf
<1> HIDE DEF s
<1>5. CASE s = 1
  BY <1>1, <1>3, <1>4, <1>5
<1>6. CASE s = 2
  BY <1>1, <1>3, <1>4, <1>6
<1>7. CASE s = 3
  BY <1>1, <1>3, <1>4, <1>7
<1> QED BY <1>1, <1>5, <1>6, <1>7

(* The middle of any region is on a cushion of the piece. *)
LEMMA CushionIn ==
  ASSUME NEW h, NEW f \in Furniture, InView(h, f) # {}, NEW r \in 1 .. Size(f)
  PROVE  CushionOf(h, f, r) \in 1 .. Size(f)
<1> DEFINE s == Size(f)
           first == Min(InView(h, f))
           n == Cardinality(InView(h, f))
<1>1. s \in {1, 2, 3} /\ r \in 1 .. s
  BY SizeIs
<1>2. first \in 1 .. s /\ n \in 1 .. s /\ first + n - 1 <= s
  BY InViewIs
<1>3. CushionOf(h, f, r) = first + ((2 * r - 1) * n) \div (2 * s)
  BY DEF CushionOf
<1> HIDE DEF s, first, n
<1> SUFFICES CushionOf(h, f, r) \in 1 .. s
  BY DEF s
<1>4. CASE s = 1 /\ n = 1
  <2>1. ASSUME r = 1 PROVE CushionOf(h, f, r) = first + 0
    BY <1>3, <1>4, <2>1
  <2> QED BY <1>1, <1>2, <1>4, <2>1
<1>5. CASE s = 2 /\ n = 1
  <2>1. ASSUME r = 1 PROVE CushionOf(h, f, r) = first + 0
    BY <1>3, <1>5, <2>1
  <2>2. ASSUME r = 2 PROVE CushionOf(h, f, r) = first + 0
    BY <1>3, <1>5, <2>2
  <2> QED BY <1>1, <1>2, <1>5, <2>1, <2>2
<1>6. CASE s = 2 /\ n = 2
  <2>1. ASSUME r = 1 PROVE CushionOf(h, f, r) = first + 0
    BY <1>3, <1>6, <2>1
  <2>2. ASSUME r = 2 PROVE CushionOf(h, f, r) = first + 1
    BY <1>3, <1>6, <2>2
  <2> QED BY <1>1, <1>2, <1>6, <2>1, <2>2
<1>7. CASE s = 3 /\ n = 1
  <2>1. ASSUME r = 1 PROVE CushionOf(h, f, r) = first + 0
    BY <1>3, <1>7, <2>1
  <2>2. ASSUME r = 2 PROVE CushionOf(h, f, r) = first + 0
    BY <1>3, <1>7, <2>2
  <2>3. ASSUME r = 3 PROVE CushionOf(h, f, r) = first + 0
    BY <1>3, <1>7, <2>3
  <2> QED BY <1>1, <1>2, <1>7, <2>1, <2>2, <2>3
<1>8. CASE s = 3 /\ n = 2
  <2>1. ASSUME r = 1 PROVE CushionOf(h, f, r) = first + 0
    BY <1>3, <1>8, <2>1
  <2>2. ASSUME r = 2 PROVE CushionOf(h, f, r) = first + 1
    BY <1>3, <1>8, <2>2
  <2>3. ASSUME r = 3 PROVE CushionOf(h, f, r) = first + 1
    BY <1>3, <1>8, <2>3
  <2> QED BY <1>1, <1>2, <1>8, <2>1, <2>2, <2>3
<1>9. CASE s = 3 /\ n = 3
  <2>1. ASSUME r = 1 PROVE CushionOf(h, f, r) = first + 0
    BY <1>3, <1>9, <2>1
  <2>2. ASSUME r = 2 PROVE CushionOf(h, f, r) = first + 1
    BY <1>3, <1>9, <2>2
  <2>3. ASSUME r = 3 PROVE CushionOf(h, f, r) = first + 2
    BY <1>3, <1>9, <2>3
  <2> QED BY <1>1, <1>2, <1>9, <2>1, <2>2, <2>3
<1>10. (s = 1 /\ n = 1) \/ (s = 2 /\ n = 1) \/ (s = 2 /\ n = 2)
      \/ (s = 3 /\ n = 1) \/ (s = 3 /\ n = 2) \/ (s = 3 /\ n = 3)
  BY <1>1, <1>2
<1>11. CushionOf(h, f, r) \in 1 .. s
  BY <1>4, <1>5, <1>6, <1>7, <1>8, <1>9, <1>10
<1> QED BY <1>11 DEF s

-----------------------------------------------------------------------------
(* Which cushion is offered, and when a piece is taken. *)

LEMMA FreePartsIn ==
  ASSUME NEW k, NEW f \in Furniture, FreeParts(k, f) # {}
  PROVE  /\ FreeParts(k, f) \subseteq 1 .. Size(f)
         /\ Min(FreeParts(k, f)) \in FreeParts(k, f)
<1>1. FreeParts(k, f) \subseteq 1 .. Size(f)
  BY DEF FreeParts
<1>2. FreeParts(k, f) \in SUBSET Nat
  BY <1>1, SizeIs
<1> QED BY <1>1, <1>2, MinIsLeast

(* Whatever is asked for, a cushion of the piece is pointed at. *)
LEMMA TargetIn ==
  ASSUME NEW k, NEW f \in Furniture, InView(frames[k].at, f) # {}, NEW wish
  PROVE  Target(k, f, wish) \in 1 .. Size(f)
<1> DEFINE first == Min(InView(frames[k].at, f))
           n == Cardinality(InView(frames[k].at, f))
<1>1. CASE f \notin Sofas \/ FreeParts(k, f) = {}
  <2>1. Target(k, f, wish) = first + n \div 2
    BY <1>1 DEF Target
  <2>2. first \in 1 .. Size(f) /\ n \in 1 .. Size(f) /\ first + n - 1 <= Size(f)
    BY InViewIs
  <2>3. Size(f) \in {1, 2, 3}
    BY SizeIs
  <2> HIDE DEF first, n
  <2>4. n \in {1, 2, 3}
    BY <2>2, <2>3
  <2>5. n \div 2 <= n - 1 /\ n \div 2 \in Nat
    BY <2>4
  <2> QED BY <2>1, <2>2, <2>3, <2>5
<1>2. CASE ~(f \notin Sofas \/ FreeParts(k, f) = {})
  <2>1. Target(k, f, wish) = CushionOf(frames[k].at, f, IF wish \in FreeParts(k, f) THEN wish
                                                       ELSE Min(FreeParts(k, f)))
    BY <1>2 DEF Target
  <2>2. PICK r \in 1 .. Size(f) : Target(k, f, wish) = CushionOf(frames[k].at, f, r)
    BY <1>2, <2>1, FreePartsIn
  <2> QED BY <2>2, CushionIn
<1> QED BY <1>1, <1>2

(* Nobody was seen on the cushion offered of a piece that is whole in the view *)
(* and not taken.                                                              *)
LEMMA TargetIsFree ==
  ASSUME NEW k, NEW f \in Furniture, NEW wish, Whole(frames[k].at, f), ~Occupied(k, f)
  PROVE  <<f, Target(k, f, wish)>> \notin frames[k].poses
<1> DEFINE v == frames[k].at
           t == Target(k, f, wish)
<1>1. FreeParts(k, f) # {}
  BY DEF Occupied
<1>2. t \in FreeParts(k, f)
  <2>1. CASE f \notin Sofas
    <3>1. t = Min(InView(v, f)) + Cardinality(InView(v, f)) \div 2
      BY <2>1 DEF Target
    <3>2. Min(InView(v, f)) = 1 /\ Cardinality(InView(v, f)) = 1 /\ Size(f) = 1
      BY <2>1, WholeIs, SizeIs
    <3>3. t = 1
      BY <3>1, <3>2
    <3> QED BY <1>1, <3>2, <3>3, FreePartsIn
  <2>2. CASE f \in Sofas
    <3>1. t = CushionOf(v, f, IF wish \in FreeParts(k, f) THEN wish ELSE Min(FreeParts(k, f)))
      BY <1>1, <2>2 DEF Target
    <3>2. PICK r \in FreeParts(k, f) : t = CushionOf(v, f, r)
      BY <1>1, <3>1, FreePartsIn
    <3>3. r \in 1 .. Size(f)
      BY <3>2, FreePartsIn
    <3> QED BY <3>2, <3>3, RegionsAreCushions
  <2> QED BY <2>1, <2>2
<1>3. t \in 1 .. Size(f) /\ t \notin OccupiedRegions(k, f)
  BY <1>2 DEF FreeParts
<1>4. RegionOf(v, f, t) = t
  BY <1>3, RegionsAreCushions
<1>5. ASSUME <<f, t>> \in frames[k].poses PROVE FALSE
  <2>1. t \in {j \in 1 .. Size(f) : <<f, j>> \in frames[k].poses}
    BY <1>3, <1>5
  <2> HIDE DEF t
  <2>2. RegionOf(v, f, t) \in OccupiedRegions(k, f)
    BY <2>1 DEF OccupiedRegions
  <2> QED BY <1>3, <1>4, <2>2
<1> QED BY <1>5

(* A piece with a cushion nobody was seen on is not taken: there are fewer     *)
(* people seen than regions.                                                   *)
LEMMA NotTakenIfASeatIsFree ==
  ASSUME NEW k, NEW f \in Furniture, NEW i \in 1 .. Size(f), <<f, i>> \notin frames[k].poses
  PROVE  ~Occupied(k, f)
<1> DEFINE v == frames[k].at
           On(j) == <<f, j>> \in frames[k].poses
           r1 == RegionOf(v, f, 1)
           r2 == RegionOf(v, f, 2)
           r3 == RegionOf(v, f, 3)
<1>1. SUFFICES ASSUME 1 .. Size(f) \subseteq OccupiedRegions(k, f) PROVE FALSE
  BY DEF Occupied, FreeParts
<1>2. \A r \in OccupiedRegions(k, f) :
        \E j \in 1 .. Size(f) : On(j) /\ r = RegionOf(v, f, j)
  BY DEF OccupiedRegions
<1>3. Size(f) \in {1, 2, 3} /\ i \in 1 .. Size(f) /\ ~On(i)
  BY SizeIs
<1>4. \A r \in 1 .. Size(f) : \E j \in 1 .. Size(f) : On(j) /\ r = RegionOf(v, f, j)
  BY <1>1, <1>2
<1>6. \A r \in 1 .. Size(f) : \/ 1 <= Size(f) /\ On(1) /\ r = r1
                              \/ 2 <= Size(f) /\ On(2) /\ r = r2
                              \/ 3 <= Size(f) /\ On(3) /\ r = r3
  <2>1. SUFFICES ASSUME NEW r \in 1 .. Size(f)
                 PROVE  \/ 1 <= Size(f) /\ On(1) /\ r = r1
                        \/ 2 <= Size(f) /\ On(2) /\ r = r2
                        \/ 3 <= Size(f) /\ On(3) /\ r = r3
    OBVIOUS
  <2>2. PICK j \in 1 .. Size(f) : On(j) /\ r = RegionOf(v, f, j)
    BY <1>4
  <2> HIDE DEF On
  <2>3. CASE j = 1
    BY <1>3, <2>2, <2>3
  <2>4. CASE j = 2
    BY <1>3, <2>2, <2>4
  <2>5. CASE j = 3
    BY <1>3, <2>2, <2>5
  <2> QED BY <1>3, <2>2, <2>3, <2>4, <2>5
<1> HIDE DEF r1, r2, r3, On
<1>7. CASE Size(f) = 1
  BY <1>3, <1>6, <1>7
<1>8. CASE Size(f) = 2
  <2>1. 1 \in 1 .. Size(f) /\ 2 \in 1 .. Size(f) /\ (i = 1 \/ i = 2)
    BY <1>3, <1>8
  <2> QED BY <1>3, <1>6, <1>8, <2>1
<1>9. CASE Size(f) = 3
  <2>1. 1 \in 1 .. Size(f) /\ 2 \in 1 .. Size(f) /\ 3 \in 1 .. Size(f) /\ (i = 1 \/ i = 2 \/ i = 3)
    BY <1>3, <1>9
  <2> QED BY <1>3, <1>6, <1>9, <2>1
<1> QED BY <1>3, <1>7, <1>8, <1>9

(* A taken piece was seen whole: everyone sat in view. *)
LEMMA TakenIsWhole ==
  ASSUME NEW k, NEW f \in Furniture, Occupied(k, f),
         frames[k].poses \subseteq Shows[frames[k].at]
  PROVE  Whole(frames[k].at, f)
<1>1. \A i \in 1 .. Size(f) : <<f, i>> \in frames[k].poses
  BY NotTakenIfASeatIsFree
<1>2. InView(frames[k].at, f) = 1 .. Size(f)
  BY <1>1 DEF InView
<1>3. Size(f) \in {1, 2, 3}
  BY SizeIs
<1>4. Cardinality(1 .. Size(f)) = Size(f)
  BY <1>3, FS_Interval
<1> QED BY <1>2, <1>4 DEF Whole

-----------------------------------------------------------------------------
(* The seats kept of all the views.  Keeps is defined by what it says of the   *)
(* entries gone through before; that there is such a function is shown up to   *)
(* the n-th place of the order, for every n.                                   *)

Earlier(d, e) == CentralFirst(d, e) /\ SameSeat(d, e)

\* Where a view comes in the order they are gone through.
PlaceOf(e) == IF frames[e[1]].off = 0 THEN e[1] ELSE Len(frames) + e[1]

LEMMA PlaceIs ==
  ASSUME frames \in Seq(Picture)
  PROVE  /\ \A e \in Entries : PlaceOf(e) \in Nat /\ PlaceOf(e) < 2 * Len(frames) + 1
         /\ \A d, e \in Entries : CentralFirst(d, e) => PlaceOf(d) < PlaceOf(e)
<1>1. Len(frames) \in Nat /\ DOMAIN frames = 1 .. Len(frames)
  OBVIOUS
<1>2. \A k \in DOMAIN frames : frames[k].off \in {1, 0, -1}
  <2>1. \A k \in DOMAIN frames : frames[k] \in Picture
    BY <1>1, ElementOfSeq
  <2> QED BY <2>1 DEF Picture, Headings
<1>3. \A e \in Entries : e[1] \in DOMAIN frames
  BY DEF Entries
<1>4. ASSUME NEW e \in Entries
      PROVE  /\ PlaceOf(e) \in Nat /\ PlaceOf(e) < 2 * Len(frames) + 1
             /\ e[1] \in 1 .. Len(frames)
  <2>1. e[1] \in 1 .. Len(frames)
    BY <1>1, <1>3
  <2> QED BY <1>1, <2>1 DEF PlaceOf
<1>5. ASSUME NEW d \in Entries, NEW e \in Entries, CentralFirst(d, e)
      PROVE  PlaceOf(d) < PlaceOf(e)
  <2>1. frames[d[1]].off \in {1, 0, -1} /\ frames[e[1]].off \in {1, 0, -1}
    BY <1>2, <1>3
  <2>2. d[1] \in 1 .. Len(frames) /\ e[1] \in 1 .. Len(frames)
    BY <1>1, <1>3
  <2>3. \/ Abs(frames[d[1]].off) < Abs(frames[e[1]].off)
        \/ Abs(frames[d[1]].off) = Abs(frames[e[1]].off) /\ d[1] < e[1]
    BY <1>5 DEF CentralFirst
  <2> QED BY <1>1, <2>1, <2>2, <2>3 DEF PlaceOf, Abs
<1> QED BY <1>4, <1>5

LEMMA KeepsIs ==
  ASSUME frames \in Seq(Picture)
  PROVE  Keeps = [e \in Entries |-> \A d \in Entries :
                                       CentralFirst(d, e) /\ SameSeat(d, e) => ~Keeps[d]]
<1> DEFINE Upto(n) == {e \in Entries : PlaceOf(e) < n}
           Right(n, K) == /\ K \subseteq Upto(n)
                          /\ \A e \in Upto(n) : e \in K <=> \A d \in K : ~Earlier(d, e)
           Wrong == {n \in Nat : ~\E K : Right(n, K)}
<1>1. /\ \A e \in Entries : PlaceOf(e) \in Nat /\ PlaceOf(e) < 2 * Len(frames) + 1
      /\ \A d, e \in Entries : CentralFirst(d, e) => PlaceOf(d) < PlaceOf(e)
  BY PlaceIs
<1>2. \A d, e \in Entries : Earlier(d, e) => PlaceOf(d) < PlaceOf(e)
  BY <1>1 DEF Earlier
<1>3. Wrong = {}
  <2>1. SUFFICES ASSUME Wrong # {} PROVE FALSE
    OBVIOUS
  <2>2. PICK n \in Wrong : \A m \in Wrong : n <= m
    BY <2>1, LeastExists
  <2>3. n # 0
    <3>1. Right(0, {})
      BY <1>1
    <3> QED BY <2>2, <3>1
  <2>4. n - 1 \in Nat /\ n - 1 \notin Wrong
    BY <2>2, <2>3
  <2>5. PICK K : Right(n - 1, K)
    BY <2>4
  <2> DEFINE L == {e \in Upto(n) : \A d \in K : ~Earlier(d, e)}
  <2>6. \A e \in Upto(n) : e \in Upto(n - 1) \/ PlaceOf(e) = n - 1
    BY <1>1, <2>2, <2>4
  <2>7. Upto(n - 1) \subseteq Upto(n)
    BY <1>1, <2>2, <2>4
  <2>8. K \subseteq L
    BY <2>5, <2>7
  <2>9. \A d \in L : d \in K \/ PlaceOf(d) = n - 1
    BY <2>5, <2>6
  <2>10. ASSUME NEW d \in L, NEW e \in Upto(n), Earlier(d, e) PROVE d \in K
    <3>1. PlaceOf(d) < PlaceOf(e) /\ PlaceOf(e) < n /\ PlaceOf(e) \in Nat /\ PlaceOf(d) \in Nat
      BY <1>1, <1>2, <2>10
    <3> QED BY <2>2, <2>4, <2>9, <3>1
  <2>11. Right(n, L)
    <3>1. L \subseteq Upto(n)
      OBVIOUS
    <3>2. ASSUME NEW e \in Upto(n) PROVE e \in L <=> \A d \in L : ~Earlier(d, e)
      BY <2>8, <2>10
    <3> HIDE DEF L, Upto
    <3> QED BY <3>1, <3>2
  <2>12. ~\E M : Right(n, M)
    BY <2>2
  <2> HIDE DEF Right, L
  <2> QED BY <2>11, <2>12, Zenon
<1> DEFINE all == 2 * Len(frames) + 1
<1>4. all \in Nat
  OBVIOUS
<1>5. PICK K : Right(all, K)
  BY <1>3, <1>4
<1>6. Upto(all) = Entries
  BY <1>1
<1>7. \A e \in Entries : e \in K <=> \A d \in K : ~Earlier(d, e)
  BY <1>5, <1>6
<1>8. K \subseteq Entries
  BY <1>5, <1>6
<1> DEFINE g == [e \in Entries |-> e \in K]
<1> HIDE DEF Upto, Right, Wrong, all
<1>9. ASSUME NEW e \in Entries
      PROVE  (e \in K) = (\A d \in Entries : CentralFirst(d, e) /\ SameSeat(d, e) => ~(d \in K))
  <2>1. e \in K <=> (\A d \in Entries : CentralFirst(d, e) /\ SameSeat(d, e) => ~(d \in K))
    BY <1>7, <1>8, Zenon DEF Earlier
  <2> DEFINE free == \A d \in Entries : CentralFirst(d, e) /\ SameSeat(d, e) => ~(d \in K)
  <2>2. CASE e \in K
    <3>1. (e \in K) = TRUE
      BY <2>2
    <3>2. free = TRUE
      BY <2>1, <2>2
    <3> QED BY <3>1, <3>2
  <2>3. CASE e \notin K
    <3>1. (e \in K) = FALSE
      BY <2>3
    <3>2. free = FALSE
      BY <2>1, <2>3
    <3> QED BY <3>1, <3>2
  <2> QED BY <2>2, <2>3
<1>10. \A d \in Entries : g[d] = (d \in K)
  OBVIOUS
<1>11. \A e \in Entries : (e \in K) = (\A d \in Entries : CentralFirst(d, e) /\ SameSeat(d, e) => ~g[d])
  BY <1>9, <1>10, Zenon
<1>12. g = [e \in Entries |-> \A d \in Entries : CentralFirst(d, e) /\ SameSeat(d, e) => ~g[d]]
  BY <1>11, Zenon
<1> HIDE DEF g
<1>13. \E h : h = [e \in Entries |-> \A d \in Entries : CentralFirst(d, e) /\ SameSeat(d, e) => ~h[d]]
  BY <1>12, Zenon
<1> QED BY <1>13, Zenon DEF Keeps

(* What is kept is what no kept seat of an earlier view is the same as.        *)
LEMMA KeptIs ==
  ASSUME frames \in Seq(Picture)
  PROVE  /\ Kept \subseteq Entries
         /\ \A e \in Entries : e \in Kept <=> \A d \in Kept : ~Earlier(d, e)
<1>1. Keeps = [e \in Entries |-> \A d \in Entries :
                                    CentralFirst(d, e) /\ SameSeat(d, e) => ~Keeps[d]]
  BY KeepsIs
<1>2. \A e \in Entries : Keeps[e] = (\A d \in Entries : CentralFirst(d, e) /\ SameSeat(d, e) => ~Keeps[d])
  BY <1>1, Zenon
<1>3. \A e \in Entries : e \in Kept <=> Keeps[e]
  BY Zenon DEF Kept
<1>4. Kept \subseteq Entries
  BY Zenon DEF Kept
<1>5. ASSUME NEW e \in Entries PROVE e \in Kept <=> \A d \in Kept : ~Earlier(d, e)
  BY <1>2, <1>3, <1>4, Zenon DEF Earlier
<1> QED BY <1>4, <1>5

-----------------------------------------------------------------------------
(* What a sweep and a choice leave behind. *)

\* A picture shows furniture and people that were in view.
Shots ==
  \A k \in DOMAIN frames :
    /\ frames[k].seats \subseteq SeenAt(frames[k].at)
    /\ frames[k].lifted \subseteq frames[k].seats
    /\ frames[k].poses \subseteq frames[k].sat
    /\ frames[k].sat \subseteq Shows[frames[k].at]

\* Every heading is asked for once.
Turns ==
  /\ phase \in {"turn", "scan"} => todo # <<>>
  /\ \A i, j \in DOMAIN todo : todo[i] = todo[j] => i = j
  /\ \A k, l \in DOMAIN frames : frames[k].off = frames[l].off => k = l
  /\ \A k \in DOMAIN frames, i \in DOMAIN todo : frames[k].off # todo[i]

\* Why the seat offered was taken for free, on the picture alone.
LooksFree ==
  IsOffer => /\ offer.spot[1] \in Source.seats
             /\ offer.against \/ Clipped \/ offer.spot \notin Source.poses

\* Nothing is offered when everybody sits on something in some picture.
AllSeated ==
  offer.kind = "nothing" =>
    \A k \in DOMAIN frames : \A f \in frames[k].seats : \A i \in 1 .. Size(f) :
      \E l \in DOMAIN frames : <<f, i>> \in frames[l].sat

OfferInv ==
  /\ OfferTypeOK /\ Shots /\ Turns
  /\ offer # Unasked => phase = "offered"
  /\ LooksFree /\ HeadOnViewTrusted /\ AllSeated

LEMMA FrameIs ==
  ASSUME OfferTypeOK, NEW k \in DOMAIN frames
  PROVE  /\ frames[k] \in Picture
         /\ frames[k].off \in {1, 0, -1} /\ frames[k].at \in Headings
         /\ frames[k].seats \subseteq Furniture
<1>1. frames \in Seq(Picture)
  BY DEF OfferTypeOK
<1>2. frames[k] \in Picture
  BY <1>1, ElementOfSeq
<1> QED BY <1>2 DEF Picture, Headings

LEMMA EntryIs ==
  ASSUME OfferTypeOK, Shots, NEW e \in Entries
  PROVE  /\ e = <<e[1], e[2]>> /\ e[1] \in DOMAIN frames /\ e[2] \in Furniture
         /\ e[2] \in frames[e[1]].seats
         /\ InView(frames[e[1]].at, e[2]) # {}
<1>1. PICK k \in DOMAIN frames : e \in {<<k, f>> : f \in frames[k].seats}
  BY DEF Entries
<1>2. PICK f \in frames[k].seats : e = <<k, f>>
  BY <1>1
<1>3. f \in Furniture
  BY FrameIs
<1>4. f \in SeenAt(frames[k].at)
  BY <1>2 DEF Shots
<1> QED BY <1>2, <1>3, <1>4 DEF SeenAt

(* The middle of what is shown is over the piece.                              *)
LEMMA CentreIs ==
  ASSUME OfferTypeOK, Shots, NEW e \in Entries
  PROVE  LET c == Coord[e[2]]
             s == Size(e[2])
         IN  /\ c \in Int /\ Centre(e) \in Int
             /\ 2 * c <= Centre(e) /\ Centre(e) <= 2 * c + 2 * (s - 1)
             /\ Whole(frames[e[1]].at, e[2]) => Centre(e) = 2 * c + s - 1
<1> DEFINE V == InView(frames[e[1]].at, e[2])
           c == Coord[e[2]]
           s == Size(e[2])
           first == Min(V)
           n == Cardinality(V)
<1>1. e[2] \in Furniture /\ V # {}
  BY EntryIs
<1>2. c \in Int
  BY <1>1, SeatingAssumption
<1>3. s \in {1, 2, 3}
  BY <1>1, SizeIs
<1>4. first \in 1 .. s /\ n \in 1 .. s /\ first + n - 1 <= s
  BY <1>1, InViewIs
<1>5. Centre(e) = 2 * (c + first - 1) + n - 1
  BY DEF Centre
<1>6. Whole(frames[e[1]].at, e[2]) => first = 1 /\ n = s
  BY <1>1, WholeIs
<1> HIDE DEF V, c, s, first, n
<1>7. first \in Nat /\ n \in Nat /\ s \in Nat
  BY <1>3, <1>4
<1>8. /\ Centre(e) \in Int
      /\ 2 * c <= Centre(e) /\ Centre(e) <= 2 * c + 2 * (s - 1)
  BY <1>2, <1>4, <1>5, <1>7
<1>9. Whole(frames[e[1]].at, e[2]) => Centre(e) = 2 * c + s - 1
  BY <1>2, <1>5, <1>6, <1>7
<1> QED BY <1>2, <1>8, <1>9 DEF c, s

(* Two entries that count as the same seat show the same piece.                *)
LEMMA SamePiece ==
  ASSUME OfferTypeOK, Shots, NEW d \in Entries, NEW e \in Entries, SameSeat(d, e)
  PROVE  d[2] = e[2]
<1> DEFINE f == d[2]
           g == e[2]
           gap == IF f \in Sofas THEN Cushions + 1 ELSE 1
<1>1. f \in Furniture /\ g \in Furniture
  BY EntryIs
<1>2. (f \in Sofas) = (g \in Sofas)
  BY Zenon DEF SameSeat
<1>3. Abs(Centre(d) - Centre(e)) < IF g \in Sofas THEN 4 ELSE 2
  BY Zenon DEF SameSeat
<1>4. f \in Sofas <=> g \in Sofas
  BY <1>2
<1>5. ASSUME f # g PROVE FALSE
  <2>1. Coord[f] - Coord[g] >= gap \/ Coord[g] - Coord[f] >= gap
    BY <1>1, <1>2, <1>5, FurnitureApart, Zenon
  <2>2. /\ Coord[f] \in Int /\ Centre(d) \in Int
        /\ 2 * Coord[f] <= Centre(d) /\ Centre(d) <= 2 * Coord[f] + 2 * (Size(f) - 1)
    BY CentreIs
  <2>3. /\ Coord[g] \in Int /\ Centre(e) \in Int
        /\ 2 * Coord[g] <= Centre(e) /\ Centre(e) <= 2 * Coord[g] + 2 * (Size(g) - 1)
    BY CentreIs
  <2>4. Cushions \in {2, 3}
    BY SeatingAssumption
  <2>5. CASE f \in Sofas
    <3>1. Size(f) = Cushions /\ Size(g) = Cushions
      BY <1>1, <1>4, <2>5, SizeIs
    <3>2. Centre(d) - Centre(e) < 4 /\ Centre(e) - Centre(d) < 4
      BY <1>3, <1>4, <2>2, <2>3, <2>5 DEF Abs
    <3>3. Coord[f] - Coord[g] >= Cushions + 1 \/ Coord[g] - Coord[f] >= Cushions + 1
      BY <2>1, <2>5
    <3> HIDE DEF f, g
    <3> QED BY <2>2, <2>3, <2>4, <3>1, <3>2, <3>3
  <2>6. CASE f \notin Sofas
    <3>1. Size(f) = 1 /\ Size(g) = 1
      BY <1>1, <1>4, <2>6, SizeIs
    <3>2. Centre(d) - Centre(e) < 2 /\ Centre(e) - Centre(d) < 2
      BY <1>3, <1>4, <2>2, <2>3, <2>6 DEF Abs
    <3>3. Coord[f] - Coord[g] >= 1 \/ Coord[g] - Coord[f] >= 1
      BY <2>1, <2>6
    <3> HIDE DEF f, g
    <3> QED BY <2>2, <2>3, <3>1, <3>2, <3>3
  <2> QED BY <2>5, <2>6
<1> QED BY <1>5

-----------------------------------------------------------------------------
(* The choice. *)

(* What pick_free_seat and the model's answer come to.                         *)
LEMMA PickCases ==
  ASSUME Pick
  PROVE  \/ offer' = Nothing /\ \A e \in Kept : Occupied(e[1], e[2])
         \/ offer' = Declined
         \/ \E e \in Kept, wish \in {0} \cup (0 .. Cushions), against \in BOOLEAN :
              /\ offer' = Offered(e[1], e[2], wish, against)
              /\ against \/ ~Occupied(e[1], e[2])
<1>1. CASE Kept = {}
  BY <1>1 DEF Pick
<1>2. CASE Kept # {} /\ Heuristic
  <2>1. CASE \E e \in Kept : ~Occupied(e[1], e[2])
    <3>1. PICK e \in Kept : ~Occupied(e[1], e[2]) /\ offer' = Offered(e[1], e[2], 0, FALSE)
      BY <1>2, <2>1, Zenon DEF Heuristic
    <3> QED BY <3>1
  <2>2. CASE ~\E e \in Kept : ~Occupied(e[1], e[2])
    BY <1>2, <2>2, Zenon DEF Heuristic
  <2> QED BY <2>1, <2>2
<1>3. CASE Kept # {} /\ Chosen
  <2>1. CASE offer' = Declined
    BY <2>1
  <2>2. CASE offer' # Declined
    <3>1. PICK known \in SUBSET Recognisable, e \in Kept, wish \in 0 .. Cushions :
            offer' = Offered(e[1], e[2], wish, MarkedTaken(e[1], e[2], known))
      BY <1>3, <2>2, Zenon DEF Chosen
    <3> DEFINE against == MarkedTaken(e[1], e[2], known)
    <3>2. against \in BOOLEAN
      BY Zenon DEF MarkedTaken
    <3>3. against \/ ~Occupied(e[1], e[2])
      BY Zenon DEF MarkedTaken
    <3>4. offer' = Offered(e[1], e[2], wish, against)
      BY <3>1
    <3> HIDE DEF against
    <3> QED BY <3>2, <3>3, <3>4
  <2> QED BY <2>1, <2>2
<1> QED BY <1>1, <1>2, <1>3, Zenon DEF Pick

(* An offer points at a cushion of a piece that its picture shows.             *)
LEMMA OfferedIs ==
  ASSUME OfferTypeOK, Shots, NEW e \in Entries, NEW wish, NEW against \in BOOLEAN
  PROVE  LET o == Offered(e[1], e[2], wish, against)
         IN  /\ o \in [kind : {"seat"}, spot : Spots, from : DOMAIN frames, against : BOOLEAN]
             /\ o.kind = "seat" /\ o.from = e[1] /\ o.against = against
             /\ o.spot = <<e[2], Target(e[1], e[2], wish)>> /\ o.spot[1] = e[2]
<1>1. e[1] \in DOMAIN frames /\ e[2] \in Furniture /\ InView(frames[e[1]].at, e[2]) # {}
  BY EntryIs
<1>2. Target(e[1], e[2], wish) \in 1 .. Size(e[2])
  BY <1>1, TargetIn
<1>3. <<e[2], Target(e[1], e[2], wish)>> \in Spots
  BY <1>1, <1>2, SizeIs
<1> HIDE DEF Target
<1> QED BY <1>1, <1>3 DEF Offered

(* The sweep kept nothing but taken pieces: everyone has a seat.               *)
LEMMA KeptAllTaken ==
  ASSUME OfferTypeOK, Shots, \A e \in Kept : Occupied(e[1], e[2]),
         NEW k \in DOMAIN frames, NEW f \in frames[k].seats, NEW i \in 1 .. Size(f)
  PROVE  \E l \in DOMAIN frames : <<f, i>> \in frames[l].sat
<1> DEFINE e == <<k, f>>
<1>1. e \in Entries /\ e[1] = k /\ e[2] = f
  BY DEF Entries
<1>2. frames \in Seq(Picture)
  BY DEF OfferTypeOK
<1>3. ASSUME NEW d \in Kept, d[2] = f
      PROVE  d[1] \in DOMAIN frames /\ <<f, i>> \in frames[d[1]].sat
  <2>1. d \in Entries
    BY <1>2, KeptIs
  <2>2. d[1] \in DOMAIN frames /\ f \in Furniture
    BY <1>3, <2>1, EntryIs
  <2>3. Occupied(d[1], f)
    BY <1>3
  <2>4. <<f, i>> \in frames[d[1]].poses
    BY <2>2, <2>3, NotTakenIfASeatIsFree
  <2> QED BY <2>2, <2>4 DEF Shots
<1> HIDE DEF e
<1>4. CASE e \in Kept
  BY <1>1, <1>3, <1>4
<1>5. CASE e \notin Kept
  <2>1. PICK d \in Kept : Earlier(d, e)
    BY <1>1, <1>2, <1>5, KeptIs
  <2>2. d \in Entries /\ SameSeat(d, e)
    BY <1>2, <2>1, KeptIs DEF Earlier
  <2>3. d[2] = f
    BY <1>1, <2>2, SamePiece
  <2> QED BY <1>3, <2>3
<1> QED BY <1>4, <1>5

(* A view straight ahead of the whole piece comes first and is kept.           *)
LEMMA HeadOnFirst ==
  ASSUME OfferTypeOK, Shots, Turns, NEW e \in Kept, NEW k \in DOMAIN frames,
         ~Whole(frames[e[1]].at, e[2]), Whole(frames[k].at, e[2]), frames[k].off = 0,
         e[2] \in frames[k].lifted, e[2] \in frames[e[1]].lifted
  PROVE  FALSE
<1> DEFINE f == e[2]
           b == <<k, f>>
<1>1. frames \in Seq(Picture)
  BY DEF OfferTypeOK
<1>2. e \in Entries
  BY <1>1, KeptIs
<1>3. e[1] \in DOMAIN frames /\ f \in Furniture
  BY <1>2, EntryIs
<1>4. f \in frames[k].seats
  BY DEF Shots
<1>5. b \in Entries /\ b[1] = k /\ b[2] = f
  BY <1>4 DEF Entries
<1> HIDE DEF b
<1>6. frames[e[1]].off \in {1, 0, -1} /\ frames[e[1]].off # 0
  <2>1. frames[e[1]].off = 0 => e[1] = k
    BY <1>3 DEF Turns
  <2> QED BY <1>3, <2>1, FrameIs
<1>7. CentralFirst(b, e)
  <2>1. Abs(frames[b[1]].off) = 0
    BY <1>5 DEF Abs
  <2>2. Abs(frames[e[1]].off) = 1
    BY <1>6 DEF Abs
  <2> QED BY <2>1, <2>2 DEF CentralFirst
<1>8. SameSeat(b, e)
  <2>1. Lifted(b) /\ Lifted(e)
    BY <1>5 DEF Lifted
  <2>2. /\ Coord[f] \in Int /\ Centre(b) \in Int
        /\ Centre(b) = 2 * Coord[f] + Size(f) - 1
    BY <1>5, CentreIs
  <2>3. /\ Centre(e) \in Int
        /\ 2 * Coord[f] <= Centre(e) /\ Centre(e) <= 2 * Coord[f] + 2 * (Size(f) - 1)
    BY <1>2, CentreIs
  <2>4. Size(f) \in {1, 2, 3} /\ (f \notin Sofas => Size(f) = 1)
    BY <1>3, SizeIs
  <2>5. Abs(Centre(b) - Centre(e)) < IF f \in Sofas THEN 4 ELSE 2
    <3> HIDE DEF f
    <3>1. CASE f \in Sofas
      BY <2>2, <2>3, <2>4, <3>1 DEF Abs
    <3>2. CASE f \notin Sofas
      BY <2>2, <2>3, <2>4, <3>2 DEF Abs
    <3> QED BY <3>1, <3>2
  <2> QED BY <1>5, <2>1, <2>5 DEF SameSeat
<1>9. b \notin Kept
  BY <1>1, <1>2, <1>7, <1>8, KeptIs DEF Earlier
<1>10. PICK d \in Kept : Earlier(d, b)
  BY <1>1, <1>5, <1>9, KeptIs
<1>11. d \in Entries /\ CentralFirst(d, b)
  BY <1>1, <1>10, KeptIs DEF Earlier
<1>12. d[1] \in DOMAIN frames
  BY <1>11, EntryIs
<1>13. frames[d[1]].off \in {1, 0, -1}
  BY <1>12, FrameIs
<1>14. frames[d[1]].off = 0 /\ d[1] < k
  <2>1. Abs(frames[b[1]].off) = 0
    BY <1>5 DEF Abs
  <2>2. \/ Abs(frames[d[1]].off) < Abs(frames[b[1]].off)
        \/ Abs(frames[d[1]].off) = Abs(frames[b[1]].off) /\ d[1] < b[1]
    BY <1>11 DEF CentralFirst
  <2> QED BY <1>5, <1>13, <2>1, <2>2 DEF Abs
<1>15. d[1] = k
  BY <1>12, <1>14 DEF Turns
<1>16. k \in Nat
  BY <1>1
<1> QED BY <1>14, <1>15, <1>16

(* Whatever is chosen, the promises hold of it.                                *)
LEMMA PickStep == ASSUME OfferInv, Pick PROVE OfferInv'
<1>1. /\ OfferTypeOK /\ Shots /\ Turns /\ phase = "pick" /\ phase' = "offered"
      /\ UNCHANGED <<sits, slips, guest, todo, heading, frames>>
  BY DEF OfferInv, Pick
<1>2. frames \in Seq(Picture)
  BY <1>1 DEF OfferTypeOK
<1>3. Shots' /\ Turns'
  BY <1>1 DEF Shots, Turns
<1>4. SUFFICES /\ offer' \in {Unasked, Nothing, Declined} \cup
                             [kind : {"seat"}, spot : Spots, from : DOMAIN frames, against : BOOLEAN]
               /\ LooksFree' /\ HeadOnViewTrusted' /\ AllSeated'
  <2>1. OfferTypeOK'
    BY <1>1, <1>4 DEF OfferTypeOK
  <2> QED BY <1>1, <1>3, <1>4, <2>1 DEF OfferInv
<1>5. CASE offer' = Nothing /\ \A e \in Kept : Occupied(e[1], e[2])
  <2>1. ~IsOffer'
    BY <1>5 DEF IsOffer, Nothing
  <2>2. \A k \in DOMAIN frames : \A f \in frames[k].seats : \A i \in 1 .. Size(f) :
          \E l \in DOMAIN frames : <<f, i>> \in frames[l].sat
    BY <1>1, <1>5, KeptAllTaken
  <2>3. AllSeated'
    BY <1>1, <2>2 DEF AllSeated
  <2> QED BY <1>5, <2>1, <2>3 DEF LooksFree, HeadOnViewTrusted
<1>6. CASE offer' = Declined
  <2>1. ~IsOffer' /\ (offer.kind)' = "declined"
    BY <1>6 DEF IsOffer, Declined
  <2> QED BY <1>6, <2>1 DEF LooksFree, HeadOnViewTrusted, AllSeated
<1>7. ASSUME NEW e \in Kept, NEW wish, NEW against \in BOOLEAN,
             offer' = Offered(e[1], e[2], wish, against), against \/ ~Occupied(e[1], e[2])
      PROVE  /\ offer' \in {Unasked, Nothing, Declined} \cup
                             [kind : {"seat"}, spot : Spots, from : DOMAIN frames, against : BOOLEAN]
             /\ LooksFree' /\ HeadOnViewTrusted' /\ AllSeated'
  <2>1. e \in Entries
    BY <1>2, KeptIs
  <2>2. /\ offer' \in [kind : {"seat"}, spot : Spots, from : DOMAIN frames, against : BOOLEAN]
        /\ offer'.kind = "seat" /\ offer'.from = e[1] /\ offer'.against = against
        /\ offer'.spot = <<e[2], Target(e[1], e[2], wish)>> /\ offer'.spot[1] = e[2]
    BY <1>1, <1>7, <2>1, OfferedIs
  <2>3. /\ e[1] \in DOMAIN frames /\ e[2] \in Furniture /\ e[2] \in frames[e[1]].seats
    BY <1>1, <2>1, EntryIs
  <2>4. Source' = frames[e[1]]
    BY <1>1, <2>2 DEF Source
  <2>5. Clipped' <=> ~Whole(frames[e[1]].at, e[2])
    BY <1>1, <2>2 DEF Clipped, Source, Whole, InView
  <2>6. against \/ Clipped' \/ offer'.spot \notin frames[e[1]].poses
    <3>1. CASE ~against /\ Whole(frames[e[1]].at, e[2])
      <4>1. <<e[2], Target(e[1], e[2], wish)>> \notin frames[e[1]].poses
        BY <1>7, <2>3, <3>1, TargetIsFree
      <4> QED BY <2>2, <4>1
    <3> QED BY <2>5, <3>1
  <2>7. LooksFree'
    BY <2>2, <2>3, <2>4, <2>6 DEF LooksFree
  <2>8. HeadOnViewTrusted'
    <3>1. ASSUME Clipped', NEW k \in DOMAIN frames, frames[k].off = 0, Whole(frames[k].at, e[2]),
                 e[2] \in frames[k].lifted, e[2] \in frames[e[1]].lifted
          PROVE  FALSE
      BY <1>1, <2>5, <3>1, HeadOnFirst
    <3>2. \A h : Whole(h, e[2])' <=> Whole(h, e[2])
      BY DEF Whole, InView
    <3> QED BY <1>1, <2>2, <2>4, <3>1 DEF HeadOnViewTrusted, Whole, InView
  <2>9. AllSeated'
    BY <2>2 DEF AllSeated
  <2> QED BY <2>2, <2>7, <2>8, <2>9
<1> QED BY <1>5, <1>6, <1>7, PickCases

-----------------------------------------------------------------------------
(* The other steps. *)

LEMMA OfferStart == OfferInit => OfferInv
<1> SUFFICES ASSUME OfferInit PROVE OfferInv
  OBVIOUS
<1>1. sits \in [Party -> Spots \cup {Standing}]
  BY DEF OfferInit
<1>2. /\ slips = 0 /\ guest = 1 /\ phase = "arrive" /\ todo = <<>>
      /\ heading = 0 /\ frames = <<>> /\ offer = Unasked
  BY DEF OfferInit
<1>3. OfferTypeOK
  BY <1>1, <1>2, SeatingAssumption DEF OfferTypeOK, Guests, Headings
<1>4. Shots /\ Turns
  BY <1>2 DEF Shots, Turns
<1>5. offer.kind = "unasked" /\ ~IsOffer
  BY <1>2 DEF IsOffer, Unasked
<1> QED BY <1>2, <1>3, <1>4, <1>5 DEF OfferInv, LooksFree, HeadOnViewTrusted, AllSeated

(* The promises speak of the pictures and the offer alone.                     *)
LEMMA SamePromises ==
  ASSUME OfferInv, UNCHANGED <<frames, offer>>
  PROVE  Shots' /\ LooksFree' /\ HeadOnViewTrusted' /\ AllSeated'
<1>1. Shots /\ LooksFree /\ HeadOnViewTrusted /\ AllSeated
  BY DEF OfferInv
<1>2. Shots' /\ AllSeated'
  BY <1>1 DEF Shots, AllSeated
<1>3. LooksFree'
  BY <1>1 DEF LooksFree, IsOffer, Source, Clipped, Whole, InView
<1>4. HeadOnViewTrusted'
  BY <1>1 DEF HeadOnViewTrusted, IsOffer, Source, Clipped, Whole, InView
<1> QED BY <1>2, <1>3, <1>4

(* Without an offer there is nothing to keep.                                  *)
LEMMA NoPromises ==
  ASSUME offer' = Unasked
  PROVE  LooksFree' /\ HeadOnViewTrusted' /\ AllSeated'
<1>1. (offer.kind)' = "unasked" /\ ~IsOffer'
  BY DEF IsOffer, Unasked
<1> QED BY <1>1 DEF LooksFree, HeadOnViewTrusted, AllSeated

LEMMA SlipsIn ==
  ASSUME slips \in 0 .. MaxSlips, NEW n \in Nat, Slips(n)
  PROVE  slips' \in 0 .. MaxSlips
BY SeatingAssumption DEF Slips

LEMMA ChangeSeatStep == ASSUME OfferInv, ChangeSeat PROVE OfferInv'
<1>1. PICK p \in Party, s \in FreeSpots : sits' = [sits EXCEPT ![p] = s]
  BY DEF ChangeSeat
<1>2. /\ OfferTypeOK /\ Turns /\ (offer # Unasked => phase = "offered")
      /\ UNCHANGED <<guest, phase, todo, heading, frames, offer>> /\ Slips(1)
  BY DEF OfferInv, ChangeSeat
<1>3. s \in Spots
  BY DEF FreeSpots
<1>4. slips' \in 0 .. MaxSlips
  BY <1>2, SlipsIn DEF OfferTypeOK
<1>5. sits' \in [Party -> Spots \cup {Standing}]
  BY <1>1, <1>2, <1>3 DEF OfferTypeOK
<1>6. OfferTypeOK'
  BY <1>2, <1>4, <1>5 DEF OfferTypeOK
<1>7. Turns'
  BY <1>2 DEF Turns
<1> QED BY <1>2, <1>6, <1>7, SamePromises DEF OfferInv

LEMMA BeginStep == ASSUME OfferInv, Begin PROVE OfferInv'
<1>1. /\ OfferTypeOK /\ phase' = "turn" /\ heading' = 0 /\ frames' = <<>> /\ offer' = Unasked
      /\ todo' \in Sweeps /\ slips' = 0 /\ UNCHANGED <<sits, guest>>
  BY DEF OfferInv, Begin
<1>2. \/ todo' = <<1, 0, -1>>
      \/ todo' = <<0>>
  BY <1>1 DEF Sweeps
<1>3. todo' \in Seq(Headings)
  <2>1. 1 \in Headings /\ 0 \in Headings /\ -1 \in Headings
    BY DEF Headings
  <2>2. CASE todo' = <<1, 0, -1>>
    BY <2>1, <2>2
  <2>3. CASE todo' = <<0>>
    BY <2>1, <2>3
  <2> QED BY <1>2, <2>2, <2>3
<1>4. OfferTypeOK'
  BY <1>1, <1>3, SeatingAssumption DEF OfferTypeOK, Headings
<1>5. Shots'
  BY <1>1 DEF Shots
<1>6. Turns'
  <2>1. todo' # <<>> /\ \A i, j \in DOMAIN todo' : todo'[i] = todo'[j] => i = j
    <3>1. CASE todo' = <<1, 0, -1>>
      BY <3>1
    <3>2. CASE todo' = <<0>>
      BY <3>2
    <3> QED BY <1>2, <3>1, <3>2
  <2> QED BY <1>1, <2>1 DEF Turns
<1> QED BY <1>1, <1>4, <1>5, <1>6, NoPromises DEF OfferInv

LEMMA TurnStep == ASSUME OfferInv, Turn PROVE OfferInv'
<1>1. /\ OfferTypeOK /\ Turns /\ (offer # Unasked => phase = "offered")
      /\ phase = "turn" /\ phase' = "scan"
      /\ UNCHANGED <<sits, guest, todo, frames, offer>>
      /\ \/ heading' = Head(todo) /\ UNCHANGED slips
         \/ heading' = heading /\ Slips(1)
  BY DEF OfferInv, Turn
<1>2. todo # <<>> /\ todo \in Seq(Headings)
  BY <1>1 DEF Turns, OfferTypeOK
<1>3. Head(todo) \in Headings
  BY <1>2, HeadTailProperties
<1>4. slips' \in 0 .. MaxSlips /\ heading' \in Headings
  BY <1>1, <1>3, SlipsIn DEF OfferTypeOK
<1>5. OfferTypeOK'
  BY <1>1, <1>4 DEF OfferTypeOK
<1>6. Turns'
  BY <1>1, <1>2 DEF Turns
<1> QED BY <1>1, <1>5, <1>6, SamePromises DEF OfferInv

(* A picture is of furniture and people in view, and misses a finite number.   *)
LEMMA PicturesAre ==
  ASSUME OfferTypeOK, NEW off \in Headings, NEW h \in Headings, NEW p \in Pictures(off, h)
  PROVE  /\ p \in Picture /\ p.off = off /\ p.at = h
         /\ p.seats \subseteq SeenAt(h) /\ p.lifted \subseteq p.seats
         /\ p.poses \subseteq p.sat /\ p.sat \subseteq Shows[h]
         /\ Missed(p) \in Nat
<1> DEFINE seen == Taken \cap Shows[h]
<1>1. PICK s \in SUBSET SeenAt(h), l \in SUBSET SeenAt(h), q \in SUBSET seen :
        p = [off |-> off, at |-> h, seats |-> s, lifted |-> s \cap l, sat |-> seen, poses |-> q]
  <2> HIDE DEF seen
  <2>1. p \in {[off |-> off, at |-> h, seats |-> s, lifted |-> s \cap l, sat |-> seen, poses |-> q]
                : s \in SUBSET SeenAt(h), l \in SUBSET SeenAt(h), q \in SUBSET seen}
    BY DEF Pictures, seen
  <2> QED BY <2>1
<1>2. Taken \subseteq Spots
  BY DEF Taken, OfferTypeOK
<1>3. SeenAt(h) \subseteq Furniture
  BY DEF SeenAt
<1>4. /\ p.off = off /\ p.at = h /\ p.seats = s /\ p.lifted = s \cap l
      /\ p.sat = seen /\ p.poses = q
  BY <1>1
<1>5. /\ s \in SUBSET Furniture /\ s \cap l \in SUBSET Furniture
      /\ seen \in SUBSET Spots /\ q \in SUBSET Spots
  BY <1>2, <1>3
<1>6. p \in Picture
  <2> DEFINE m == s \cap l
  <2>1. p = [off |-> off, at |-> h, seats |-> s, lifted |-> m, sat |-> seen, poses |-> q]
    BY <1>1
  <2>2. m \in SUBSET Furniture
    BY <1>5
  <2> HIDE DEF m, seen
  <2> QED BY <1>5, <2>1, <2>2 DEF Picture
<1>7. IsFiniteSet(SeenAt(p.at) \ p.lifted)
  BY <1>3, <1>4, SeatingAssumption, FS_Subset
<1>8. IsFiniteSet(p.sat \ p.poses)
  <2>1. Party = {TheHost, Guests[1], Guests[2]}
    BY DEF Party, Guests, Range
  <2>2. \A x \in Taken : x = sits[TheHost] \/ x = sits[Guests[1]] \/ x = sits[Guests[2]]
    BY <2>1 DEF Taken
  <2> DEFINE places == {sits[TheHost], sits[Guests[1]], sits[Guests[2]]}
  <2>3. IsFiniteSet(places)
    <3>1. IsFiniteSet({sits[TheHost]}) /\ IsFiniteSet({sits[Guests[1]]}) /\ IsFiniteSet({sits[Guests[2]]})
      BY FS_Singleton
    <3>2. IsFiniteSet({sits[TheHost]} \cup {sits[Guests[1]]})
      BY <3>1, FS_Union
    <3>3. IsFiniteSet(({sits[TheHost]} \cup {sits[Guests[1]]}) \cup {sits[Guests[2]]})
      BY <3>1, <3>2, FS_Union
    <3>4. places = ({sits[TheHost]} \cup {sits[Guests[1]]}) \cup {sits[Guests[2]]}
      OBVIOUS
    <3> QED BY <3>3, <3>4
  <2>4. p.sat \ p.poses \subseteq places
    BY <1>4, <2>2
  <2> HIDE DEF places
  <2> QED BY <2>3, <2>4, FS_Subset
<1>9. Missed(p) \in Nat
  BY <1>7, <1>8, FS_CardinalityType DEF Missed
<1> QED BY <1>4, <1>6, <1>9

LEMMA ScanStep == ASSUME OfferInv, Scan PROVE OfferInv'
<1>1. /\ OfferTypeOK /\ Shots /\ Turns /\ phase = "scan" /\ offer = Unasked
      /\ todo' = Tail(todo)
      /\ phase' = IF todo' = <<>> THEN "pick" ELSE "turn"
      /\ UNCHANGED <<sits, guest, heading, offer>>
  BY DEF OfferInv, Scan
<1>2. todo # <<>> /\ todo \in Seq(Headings) /\ heading \in Headings /\ frames \in Seq(Picture)
  BY <1>1 DEF Turns, OfferTypeOK
<1>3. /\ Head(todo) \in Headings /\ Tail(todo) \in Seq(Headings)
      /\ Len(Tail(todo)) = Len(todo) - 1
      /\ \A i \in 1 .. Len(Tail(todo)) : Tail(todo)[i] = todo[i + 1]
  BY <1>2, HeadTailProperties
<1>4. DOMAIN todo = 1 .. Len(todo) /\ Len(todo) \in Nat /\ Len(todo) # 0 /\ Head(todo) = todo[1]
  BY <1>2
<1>5. DOMAIN Tail(todo) = 1 .. (Len(todo) - 1)
  BY <1>3
<1>6. \A i \in DOMAIN todo' : i + 1 \in DOMAIN todo /\ i \in Nat \ {0} /\ todo'[i] = todo[i + 1]
  BY <1>1, <1>3, <1>4, <1>5
<1>7. /\ phase' \in {"turn", "pick"} /\ (phase' \in {"turn", "scan"} => todo' # <<>>)
  BY <1>1
<1>8. \A i, j \in DOMAIN todo' : todo'[i] = todo'[j] => i = j
  BY <1>1, <1>6 DEF Turns
<1>9. CASE Slips(1) /\ UNCHANGED frames
  <2>1. slips' \in 0 .. MaxSlips
    BY <1>1, <1>9, SlipsIn DEF OfferTypeOK
  <2>2. OfferTypeOK'
    BY <1>1, <1>3, <1>7, <1>9, <2>1 DEF OfferTypeOK
  <2>3. Turns'
    BY <1>1, <1>6, <1>7, <1>8, <1>9 DEF Turns
  <2>4. Shots'
    BY <1>1, <1>9 DEF Shots
  <2> QED BY <1>1, <2>2, <2>3, <2>4, NoPromises DEF OfferInv
<1>10. ASSUME NEW p \in Pictures(Head(todo), heading), Slips(Missed(p)), frames' = Append(frames, p)
       PROVE  OfferInv'
  <2>1. /\ p \in Picture /\ p.off = Head(todo) /\ p.at = heading
        /\ p.seats \subseteq SeenAt(heading) /\ p.lifted \subseteq p.seats
        /\ p.poses \subseteq p.sat /\ p.sat \subseteq Shows[heading]
        /\ Missed(p) \in Nat
    BY <1>1, <1>2, <1>3, PicturesAre
  <2>2. slips' \in 0 .. MaxSlips
    BY <1>1, <1>10, <2>1, SlipsIn DEF OfferTypeOK
  <2>3. /\ frames' \in Seq(Picture) /\ Len(frames') = Len(frames) + 1
        /\ \A k \in 1 .. Len(frames) : frames'[k] = frames[k]
        /\ frames'[Len(frames) + 1] = p
    BY <1>2, <1>10, <2>1, AppendProperties
  <2>4. /\ DOMAIN frames = 1 .. Len(frames) /\ Len(frames) \in Nat
        /\ DOMAIN frames' = 1 .. (Len(frames) + 1)
    BY <1>2, <2>3
  <2>5. ASSUME NEW k \in DOMAIN frames'
        PROVE  \/ k \in DOMAIN frames /\ frames'[k] = frames[k]
               \/ k = Len(frames) + 1 /\ frames'[k] = p
    BY <2>3, <2>4
  <2>6. OfferTypeOK'
    <3>1. offer' \in {Unasked, Nothing, Declined} \cup
               [kind : {"seat"}, spot : Spots, from : DOMAIN frames', against : BOOLEAN]
      BY <1>1
    <3> QED BY <1>1, <1>3, <1>7, <2>2, <2>3, <3>1 DEF OfferTypeOK
  <2>7. Shots'
    <3>1. ASSUME NEW k \in DOMAIN frames'
          PROVE  /\ frames'[k].seats \subseteq SeenAt(frames'[k].at)
                 /\ frames'[k].lifted \subseteq frames'[k].seats
                 /\ frames'[k].poses \subseteq frames'[k].sat
                 /\ frames'[k].sat \subseteq Shows[frames'[k].at]
      <4>1. CASE k \in DOMAIN frames /\ frames'[k] = frames[k]
        BY <1>1, <4>1 DEF Shots
      <4>2. CASE frames'[k] = p
        BY <2>1, <4>2
      <4> QED BY <2>5, <4>1, <4>2
    <3>2. \A h : SeenAt(h)' = SeenAt(h)
      BY DEF SeenAt, InView
    <3> QED BY <3>1, <3>2 DEF Shots, SeenAt, InView
  <2>8. \A k \in DOMAIN frames : frames[k].off # todo[1]
    BY <1>1, <1>4 DEF Turns
  <2>9. \A k, l \in DOMAIN frames' : frames'[k].off = frames'[l].off => k = l
    <3>1. SUFFICES ASSUME NEW k \in DOMAIN frames', NEW l \in DOMAIN frames',
                          frames'[k].off = frames'[l].off
                   PROVE  k = l
      OBVIOUS
    <3>2. CASE k \in DOMAIN frames /\ frames'[k] = frames[k] /\ l \in DOMAIN frames /\ frames'[l] = frames[l]
      BY <1>1, <3>1, <3>2 DEF Turns
    <3>3. CASE k \in DOMAIN frames /\ frames'[k] = frames[k] /\ l = Len(frames) + 1 /\ frames'[l] = p
      BY <1>4, <2>1, <2>8, <3>1, <3>3
    <3>4. CASE l \in DOMAIN frames /\ frames'[l] = frames[l] /\ k = Len(frames) + 1 /\ frames'[k] = p
      BY <1>4, <2>1, <2>8, <3>1, <3>4
    <3>5. CASE k = Len(frames) + 1 /\ l = Len(frames) + 1
      BY <3>5
    <3> QED BY <2>5, <3>2, <3>3, <3>4, <3>5
  <2>10. \A k \in DOMAIN frames', i \in DOMAIN todo' : frames'[k].off # todo'[i]
    <3>1. SUFFICES ASSUME NEW k \in DOMAIN frames', NEW i \in DOMAIN todo'
                   PROVE  frames'[k].off # todo[i + 1]
      BY <1>6
    <3>2. i + 1 \in DOMAIN todo /\ i + 1 # 1 /\ 1 \in DOMAIN todo
      BY <1>4, <1>6
    <3>3. CASE k \in DOMAIN frames /\ frames'[k] = frames[k]
      BY <1>1, <3>2, <3>3 DEF Turns
    <3>4. CASE frames'[k] = p
      <4>1. frames'[k].off = todo[1]
        BY <1>4, <2>1, <3>4
      <4> QED BY <1>1, <3>2, <4>1 DEF Turns
    <3> QED BY <2>5, <3>3, <3>4
  <2>11. Turns'
    BY <1>7, <1>8, <2>9, <2>10 DEF Turns
  <2> QED BY <1>1, <2>6, <2>7, <2>11, NoPromises DEF OfferInv
<1> QED BY <1>9, <1>10 DEF Scan

(* The offer is over, or the step is run again: the sweep is forgotten.        *)
LEMMA LeaveStep ==
  ASSUME OfferInv, frames' = <<>>, offer' = Unasked, guest' \in DOMAIN Guests,
         phase' \in {"arrive", "over"}, UNCHANGED <<slips, todo, heading>>,
         sits' \in [Party -> Spots \cup {Standing}]
  PROVE  OfferInv'
<1>1. OfferTypeOK /\ Turns
  BY DEF OfferInv
<1>2. OfferTypeOK'
  BY <1>1 DEF OfferTypeOK
<1>3. Shots'
  BY DEF Shots
<1>4. Turns'
  BY <1>1 DEF Turns
<1> QED BY <1>2, <1>3, <1>4, NoPromises DEF OfferInv

LEMMA OfferStep == OfferInv /\ [OfferNext]_offerVars => OfferInv'
<1> SUFFICES ASSUME OfferInv, [OfferNext]_offerVars PROVE OfferInv'
  OBVIOUS
<1>1. ASSUME Leave PROVE /\ frames' = <<>> /\ offer' = Unasked /\ guest' \in DOMAIN Guests
                         /\ phase' \in {"arrive", "over"}
  <2>1. guest \in DOMAIN Guests /\ DOMAIN Guests = {1, 2}
    BY DEF OfferInv, OfferTypeOK, Guests
  <2> QED BY <1>1, <2>1 DEF Leave
<1>2. sits \in [Party -> Spots \cup {Standing}] /\ guest \in DOMAIN Guests
  BY DEF OfferInv, OfferTypeOK
<1>3. ASSUME Settle PROVE OfferInv'
  <2>1. sits' \in [Party -> Spots \cup {Standing}]
    <3>1. ASSUME NEW s \in FreeSpots, sits' = [sits EXCEPT ![Guests[guest]] = s]
          PROVE  sits' \in [Party -> Spots \cup {Standing}]
      BY <1>2, <3>1 DEF FreeSpots
    <3> QED BY <1>2, <1>3, <3>1 DEF Settle
  <2>2. Leave /\ UNCHANGED <<slips, todo, heading>>
    BY <1>3 DEF Settle
  <2> QED BY <1>1, <2>1, <2>2, LeaveStep
<1>4. ASSUME Raise PROVE OfferInv'
  <2>1. UNCHANGED <<sits, slips, todo, heading>>
    BY <1>4 DEF Raise
  <2>2. /\ frames' = <<>> /\ offer' = Unasked /\ guest' \in DOMAIN Guests
        /\ phase' \in {"arrive", "over"}
    BY <1>1, <1>2, <1>4 DEF Raise
  <2> QED BY <1>2, <2>1, <2>2, LeaveStep
<1>5. CASE UNCHANGED offerVars
  <2>1. UNCHANGED <<sits, slips, guest, phase, todo, heading, frames, offer>>
    BY <1>5 DEF offerVars
  <2>2. OfferTypeOK' /\ Turns'
    BY <2>1 DEF OfferInv, OfferTypeOK, Turns
  <2> QED BY <2>1, <2>2, SamePromises DEF OfferInv
<1> QED BY <1>3, <1>4, <1>5, ChangeSeatStep, BeginStep, TurnStep, ScanStep, PickStep DEF OfferNext

THEOREM OfferInvariant == OfferSpec => []OfferInv
BY OfferStart, OfferStep, PTL DEF OfferSpec

(* The types of the sweep and of the choice: in particular whatever is offered *)
(* is a place on a piece of furniture, however the view cuts it off.           *)
THEOREM SeatingTypeCorrect == OfferSpec => []OfferTypeOK
<1>1. OfferInv => OfferTypeOK
  BY DEF OfferInv
<1> QED BY <1>1, OfferInvariant, PTL

(* A guest is sent to a taken seat only if nobody was seen on it, the picture  *)
(* cuts the sofa off, or the model overruled what it was told.                 *)
THEOREM OfferedTheorem == OfferSpec => []OfferedSeatIsFree
<1>1. OfferInv => OfferedSeatIsFree
  BY DEF OfferInv, LooksFree, OfferedSeatIsFree
<1> QED BY <1>1, OfferInvariant, PTL

(* A view that cuts a sofa off never overrules one straight ahead that shows   *)
(* the whole of it.                                                            *)
THEOREM HeadOnTheorem == OfferSpec => []HeadOnViewTrusted
<1>1. OfferInv => HeadOnViewTrusted
  BY DEF OfferInv
<1> QED BY <1>1, OfferInvariant, PTL

(* A guest is told to find a seat alone only if no picture has a free seat     *)
(* that was detected, or somebody moved meanwhile.                             *)
THEOREM NoSeatTheorem == OfferSpec => []FreeSeatIsOffered
<1>1. ASSUME OfferInv PROVE FreeSeatIsOffered
  <2>1. SUFFICES ASSUME offer.kind = "nothing",
                        \A k \in DOMAIN frames : frames[k].sat = Taken \cap Shows[frames[k].at],
                        NEW k \in DOMAIN frames, NEW s \in FreeSpots,
                        s[1] \in frames[k].seats
                 PROVE  FALSE
    BY DEF FreeSeatIsOffered
  <2>2. PICK f \in Furniture : s \in {f} \X (1 .. Size(f))
    BY DEF FreeSpots, Spots
  <2>3. s = <<f, s[2]>> /\ s[1] = f /\ s[2] \in 1 .. Size(f)
    BY <2>2
  <2>4. PICK l \in DOMAIN frames : <<f, s[2]>> \in frames[l].sat
    BY <1>1, <2>1, <2>3 DEF OfferInv, AllSeated
  <2>5. s \in Taken
    BY <2>1, <2>3, <2>4
  <2> QED BY <2>5 DEF FreeSpots
<1> QED BY <1>1, OfferInvariant, PTL

=============================================================================

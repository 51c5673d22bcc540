--------------------------- MODULE HriTaskProofs ---------------------------
(***************************************************************************)
(* What the Receptionist's people memory guarantees, whoever dresses like  *)
(* whom, however many calls fail and whatever a camera shows.              *)
(*                                                                         *)
(* LabelsHaveCause rests on the scores alone (first part).  That a record  *)
(* is spoilt only with a cause rests on where the robot and the people     *)
(* really are when it greets (second part).                                *)
(***************************************************************************)
EXTENDS HriTask, FiniteSetTheorems, WellFoundedInduction, TLAPS

USE RecognitionAssumption, HriAssumption

(***************************************************************************)
(* Scores.                                                                 *)
(***************************************************************************)

LEMMA SimRange ==
  ASSUME NEW face, NEW p
  PROVE  FaceSim(face, p) \in {0, 70, 100} /\ AttireSim(face, p) \in {30, 100}
BY Zenon DEF FaceSim, AttireSim

LEMMA MixRange ==
  ASSUME NEW x \in {0, 70, 100}, NEW y \in {30, 100}
  PROVE  (FaceWeight * x + (100 - FaceWeight) * y) \div 100 \in 0..100
<1>1. FaceWeight \in 0..100
  BY DEF RecognitionAssumption
<1>2. CASE x = 0 /\ y = 30
  BY <1>1, <1>2
<1>3. CASE x = 0 /\ y = 100
  BY <1>1, <1>3
<1>4. CASE x = 70 /\ y = 30
  BY <1>1, <1>4
<1>5. CASE x = 70 /\ y = 100
  BY <1>1, <1>5
<1>6. CASE x = 100 /\ y = 30
  BY <1>1, <1>6
<1>7. CASE x = 100 /\ y = 100
  BY <1>1, <1>7
<1> QED BY <1>2, <1>3, <1>4, <1>5, <1>6, <1>7

LEMMA ScoreRange ==
  ASSUME NEW f, NEW a, NEW withFace, NEW id, NEW p
  PROVE  Score(f, a, withFace, id, p) \in 0..100
<1> DEFINE face == FaceSim(f[id], p)
           look == AttireSim(a[id], p)
           mix == (FaceWeight * face + (100 - FaceWeight) * look) \div 100
<1>1. face \in {0, 70, 100} /\ look \in {30, 100}
  BY SimRange
<1> HIDE DEF face, look
<1>2. mix \in 0..100
  BY <1>1, MixRange
<1> DEFINE sc == Score(f, a, withFace, id, p)
<1>3. sc \in {mix, face, look}
  BY Zenon DEF Score, face, look
<1> HIDE DEF sc, mix
<1>4. mix = sc \/ face = sc \/ look = sc
  BY <1>3
<1>5. sc \in 0..100
  <2>1. CASE mix = sc
    BY <1>2, <2>1
  <2>2. CASE face = sc
    BY <1>1, <2>2
  <2>3. CASE look = sc
    BY <1>1, <2>3
  <2> QED BY <1>4, <2>1, <2>2, <2>3
<1> QED BY <1>5 DEF sc

(* On a face that was never folded into the record the clothes alone count. *)
LEMMA StrangersScore ==
  ASSUME NEW f, NEW a, NEW id, NEW p, p \notin f[id], f[id] # {}
  PROVE  Score(f, a, TRUE, id, p) <= 100 - FaceWeight
<1>1. FaceSim(f[id], p) = 0
  BY DEF FaceSim
<1> DEFINE look == AttireSim(a[id], p)
           mix == (FaceWeight * 0 + (100 - FaceWeight) * look) \div 100
<1>2. look \in {30, 100}
  BY SimRange
<1> HIDE DEF look
<1> DEFINE sc == Score(f, a, TRUE, id, p)
<1>3. sc
        = IF a[id] # {} THEN mix ELSE 0
  BY <1>1, Zenon DEF Score, look
<1>4. mix <= 100 - FaceWeight
  <2>1. FaceWeight \in 0..100
    BY DEF RecognitionAssumption
  <2>2. CASE look = 30
    BY <2>1, <2>2
  <2>3. CASE look = 100
    BY <2>1, <2>3
  <2> QED BY <1>2, <2>2, <2>3
<1>5. FaceWeight \in 0..100
  BY DEF RecognitionAssumption
<1> HIDE DEF sc, mix
<1>6. sc <= 100 - FaceWeight
  BY <1>3, <1>4, <1>5
<1> QED BY <1>6 DEF sc

(* Nobody fits a record better than the person it is of. *)
OwnLooks(f, a, p) == f[p] \ {p} = {} /\ a[p] = {p}

LEMMA OwnScore ==
  ASSUME NEW f, NEW a, NEW p, OwnLooks(f, a, p)
  PROVE  Score(f, a, TRUE, p, p) = 100 /\ Score(f, a, FALSE, p, p) = 100
<1>1. AttireSim(a[p], p) = 100 /\ a[p] # {}
  BY DEF OwnLooks, AttireSim
<1>2. Score(f, a, FALSE, p, p) = 100
  BY <1>1, Zenon DEF Score
<1>3. CASE f[p] = {}
  <2>1. Score(f, a, TRUE, p, p) = 100
    BY <1>1, <1>3, Zenon DEF Score
  <2> QED BY <1>2, <2>1
<1>4. CASE f[p] # {}
  <2>1. f[p] = {p}
    BY <1>4 DEF OwnLooks
  <2>2. Cardinality({p}) = 1
    BY FS_Singleton
  <2>3. FaceSim(f[p], p) = 100
    BY <2>1, <2>2 DEF FaceSim
  <2> DEFINE sc == Score(f, a, TRUE, p, p)
  <2>4. sc = (FaceWeight * 100 + (100 - FaceWeight) * 100) \div 100
    BY <1>1, <1>4, <2>3, Zenon DEF Score
  <2>5. FaceWeight \in 0..100
    BY DEF RecognitionAssumption
  <2> HIDE DEF sc
  <2>6. sc = 100
    BY <2>4, <2>5
  <2> QED BY <1>2, <2>6 DEF sc
<1> QED BY <1>3, <1>4

LEMMA OwnFacedScore ==
  ASSUME NEW q, OwnLooks(faces, attire, q)
  PROVE  Score(faces, attire, TRUE, q, q) = 100
BY OwnScore, Zenon

LEMMA MaxAtLeast ==
  ASSUME NEW S \in SUBSET (0..100), NEW s \in S
  PROVE  Max(S) >= s /\ Max(S) \in S
<1> DEFINE T == {100 - x : x \in S}
<1>1. T \in SUBSET Nat /\ T # {}
  OBVIOUS
<1>2. PICK t \in T : \A u \in T : ~(<<u, t>> \in OpToRel(<, Nat))
  BY <1>1, WFMin, NatLessThanWellFounded
<1>3. \A u \in T : ~(u < t)
  BY <1>1, <1>2 DEF OpToRel
<1>4. PICK x \in S : t = 100 - x
  BY <1>2
<1>5. \A y \in S : x >= y
  <2> TAKE y \in S
  <2>1. 100 - y \in T
    OBVIOUS
  <2> QED BY <1>3, <1>4, <2>1
<1>6. Max(S) \in S /\ \A y \in S : Max(S) >= y
  BY <1>5, Zenon DEF Max
<1> QED BY <1>6

LEMMA RunnerUpAtLeast ==
  ASSUME NEW f, NEW a, NEW m, NEW id, NEW p, NEW o \in Scorable(f, a, TRUE), o # id,
         Score(f, a, TRUE, o, p) > Home(f, a, m, o)
  PROVE  RunnerUp(f, a, m, id, p) \in Int /\ RunnerUp(f, a, m, id, p) >= Score(f, a, TRUE, o, p)
<1> DEFINE others == {q \in Scorable(f, a, TRUE) \ {id} :
                        Score(f, a, TRUE, q, p) > Home(f, a, m, q)}
           S == {0} \cup {Score(f, a, TRUE, q, p) : q \in others}
<1>1. o \in others
  OBVIOUS
<1>2. Score(f, a, TRUE, o, p) \in S
  BY <1>1
<1>3. \A q : Score(f, a, TRUE, q, p) \in 0..100
  BY ScoreRange
<1> DEFINE sc(q) == Score(f, a, TRUE, q, p)
<1>4. S \in SUBSET (0..100)
  <2>1. \A q : sc(q) \in 0..100
    BY <1>3
  <2>2. S = {0} \cup {sc(q) : q \in others}
    OBVIOUS
  <2> HIDE DEF sc, S, others
  <2> QED BY <2>1, <2>2
<1> DEFINE up == RunnerUp(f, a, m, id, p)
<1>5. up = Max(S)
  BY Zenon DEF RunnerUp
<1>6. sc(o) \in S
  BY <1>2
<1> HIDE DEF S, others, up, sc
<1>7. up >= sc(o) /\ up \in S
  BY <1>4, <1>5, <1>6, MaxAtLeast
<1>8. up \in Int /\ up >= sc(o)
  BY <1>4, <1>7
<1> QED BY <1>8, Zenon DEF up, sc

(***************************************************************************)
(* Labels.  MayMix is what LabelsHaveCause allows for a label id on p.     *)
(***************************************************************************)
MayMix(id, p) ==
  \/ Foreign(id) \/ Foreign(p)
  \/ faces[p] = NoRow \/ attire[p] = {}
  \/ faces[id] = {} /\ faces[p] = {}

(* The clothes alone are not enough for a face that does not fit, and a label *)
(* must beat the next one.                                                    *)
Margins == 100 - FaceWeight < MinScore /\ BoxMargin > 0

LEMMA Unmixed ==
  ASSUME NEW id, NEW p, ~MayMix(id, p), faces[id] # NoRow
  PROVE  /\ faces[id] \ {id} = {} /\ attire[id] \ {id} = {}
         /\ faces[p] # NoRow /\ faces[p] \ {p} = {} /\ attire[p] = {p}
         /\ ~(faces[id] = {} /\ faces[p] = {})
<1>1. attire[p] # {} /\ attire[p] \ {p} = {} /\ faces[p] # NoRow
  BY DEF MayMix, Foreign
<1>2. attire[p] = {p}
  BY <1>1
<1> QED BY <1>1, <1>2 DEF MayMix, Foreign

(* A face that a frame's assignment is sure of. *)
LEMMA FaceNeedsCause ==
  ASSUME Margins, NEW wanted, NEW boxes,
         NEW m \in SUBSET Feasible(faces, attire, wanted, boxes), Injective(m),
         NEW c \in Confident(faces, attire, m), c[1] # c[2], c[2] \in Ids
  PROVE  MayMix(c[1], c[2])
<1> DEFINE id == c[1]
           p == c[2]
           sc(i, q) == Score(faces, attire, TRUE, i, q)
           up == RunnerUp(faces, attire, m, id, p)
<1> SUFFICES ASSUME ~MayMix(id, p) PROVE FALSE
  OBVIOUS
<1>1. c \in m /\ sc(id, p) - up >= BoxMargin
  BY DEF Confident
<1>2. \A d \in m : d[1] \in Scorable(faces, attire, TRUE) /\ sc(d[1], d[2]) >= MinScore
  BY DEF Feasible
<1>3. id \in Ids /\ faces[id] # NoRow
  BY <1>1, <1>2 DEF Scorable
<1>4. /\ faces[id] \ {id} = {} /\ attire[id] \ {id} = {}
      /\ faces[p] # NoRow /\ faces[p] \ {p} = {} /\ attire[p] = {p}
      /\ ~(faces[id] = {} /\ faces[p] = {})
  BY <1>3, Unmixed
<1>5. MinScore \in 1..100 /\ FaceWeight \in 0..100 /\ BoxMargin \in 0..100
  BY DEF RecognitionAssumption
<1>6. \A i, q : sc(i, q) \in 0..100
  BY ScoreRange
<1>7. CASE faces[id] # {}
  <2>1. p \notin faces[id]
    BY <1>4
  <2>2. sc(id, p) <= 100 - FaceWeight
    BY <2>1, <1>7, StrangersScore
  <2>3. sc(id, p) >= MinScore
    BY <1>1, <1>2
  <2> HIDE DEF sc, id, p
  <2> QED BY <2>2, <2>3, <1>5, <1>6 DEF Margins
<1>8. CASE faces[id] = {}
  <2>1. faces[p] # {} /\ p \in Scorable(faces, attire, TRUE) /\ p # id
    BY <1>4, <1>8 DEF Scorable
  <2>2. sc(p, p) = 100
    <3>1. OwnLooks(faces, attire, p)
      BY <1>4 DEF OwnLooks
    <3>2. \A q : OwnLooks(faces, attire, q) => Score(faces, attire, TRUE, q, q) = 100
      BY OwnFacedScore
    <3> QED BY <3>1, <3>2, Zenon
  <2>3. \A q : q # p => sc(p, q) <= 100 - FaceWeight
    BY <1>4, <2>1, StrangersScore
  <2>4. Home(faces, attire, m, p) < 100
    <3> DEFINE own == {d \in m : d[1] = p}
    <3>1. CASE own = {}
      <4>1. Home(faces, attire, m, p) = 0
        BY <3>1, Zenon DEF Home
      <4> QED BY <4>1
    <3>2. CASE own # {}
      <4> DEFINE d == CHOOSE d \in own : TRUE
      <4>1. d \in own
        BY <3>2
      <4>2. Home(faces, attire, m, p) = sc(d[1], d[2])
        BY <3>2, Zenon DEF Home
      <4>3. d[1] = p /\ d \in m
        BY <4>1
      <4>4. d[2] # p
        <5> SUFFICES ASSUME d[2] = p PROVE FALSE
          OBVIOUS
        <5>1. d = c
          BY <1>1, <4>3 DEF Injective
        <5> QED BY <5>1, <4>3
      <4>5. sc(d[1], d[2]) <= 100 - FaceWeight
        BY <2>3, <4>3, <4>4
      <4> HIDE DEF sc, d
      <4> QED BY <4>2, <4>5, <1>5, <1>6 DEF Margins
    <3> QED BY <3>1, <3>2
  <2>5. sc(p, p) > Home(faces, attire, m, p)
    <3> HIDE DEF sc
    <3> QED BY <2>2, <2>4
  <2>6. up \in Int /\ up >= sc(p, p)
    BY <2>1, <2>5, RunnerUpAtLeast
  <2> HIDE DEF sc, up
  <2> QED BY <1>1, <1>5, <1>6, <2>2, <2>6 DEF Margins
<1> QED BY <1>7, <1>8

(* A body whose clothes speak for somebody. *)
LEMMA ClothesNeedCause ==
  ASSUME Margins, NEW missing, NEW id, NEW p \in Ids, id # p,
         Speaks(faces, attire, missing, id, p)
  PROVE  MayMix(id, p)
<1> DEFINE sc(i) == Score(faces, attire, FALSE, i, p)
<1> SUFFICES ASSUME ~MayMix(id, p) PROVE FALSE
  OBVIOUS
<1>1. id \in Scorable(faces, attire, FALSE)
  BY DEF Speaks
<1>2. faces[id] # NoRow
  BY <1>1 DEF Scorable
<1>3. faces[p] # NoRow /\ faces[p] \ {p} = {} /\ attire[p] = {p}
  BY <1>2, Unmixed
<1>4. p \in Scorable(faces, attire, FALSE) \ {id}
  BY <1>3 DEF Scorable
<1>5. sc(id) - sc(p) >= BoxMargin
  BY <1>4 DEF Speaks
<1>6. sc(p) = 100
  <2>1. OwnLooks(faces, attire, p)
    BY <1>3 DEF OwnLooks
  <2>2. Score(faces, attire, FALSE, p, p) = 100
    BY <2>1, OwnScore, Zenon
  <2> QED BY <2>2
<1>7. sc(id) \in 0..100
  BY ScoreRange
<1>8. BoxMargin \in 0..100
  BY DEF RecognitionAssumption
<1> HIDE DEF sc
<1> QED BY <1>5, <1>6, <1>7, <1>8 DEF Margins

(* What a frame gives. *)
Sure(pairs, wanted, boxes) ==
  \E m \in SUBSET Feasible(faces, attire, wanted, boxes) :
    Injective(m) /\ pairs = Confident(faces, attire, m)

LEMMA ReadingIsSure ==
  ASSUME NEW wanted, NEW present, NEW v \in Reading(faces, attire, wanted, present)
  PROVE  /\ v[1] \subseteq present
         /\ \E boxes \in SUBSET present : Sure(v[2], wanted, boxes)
<1>1. PICK f \in Frames(present) :
        v \in {<<Telling(faces, attire, wanted, f.seen), m>>
                : m \in AssignBoxes(faces, attire, wanted, f)}
  BY DEF Reading
<1>2. f.seen \subseteq present /\ f.faced \subseteq present
  BY DEF Frames
<1>3. PICK m \in AssignBoxes(faces, attire, wanted, f) :
        v = <<Telling(faces, attire, wanted, f.seen), m>>
  BY <1>1
<1>4. v[1] \subseteq present /\ v[2] = m
  BY <1>2, <1>3 DEF Telling
<1>5. PICK o \in Optimal(faces, attire, wanted, f.faced) : m = Confident(faces, attire, o)
  BY DEF AssignBoxes
<1>6. o \in SUBSET Feasible(faces, attire, wanted, f.faced) /\ Injective(o)
  BY DEF Optimal
<1>7. Sure(v[2], wanted, f.faced)
  BY <1>4, <1>5, <1>6 DEF Sure
<1> QED BY <1>2, <1>4, <1>7

(* Where a label comes from: the faces of one of the frames, or a body. *)
LEMMA LabelOrigin ==
  ASSUME NEW wanted, NEW v, NEW w,
         NEW l \in Labellings(faces, attire, wanted, v, w), NEW lab \in l
  PROVE  \E c : /\ lab = <<c[1], c[2]>>
               /\ \/ c \in v[2] \/ c \in w[2]
                  \/ /\ c[1] \in wanted /\ c[2] \in v[1] \cup w[1]
                     /\ \E missing : Speaks(faces, attire, missing, c[1], c[2])
<1> DEFINE By(m) == ByAttire(faces, attire, wanted \ {c[1] : c \in m}, m, <<v[1], w[1]>>)
           All == UNION {ByFace(faces, attire, s) : s \in {Sightings(v[2], w[2])}}
<1>1. PICK u \in UNION {{m \cup n : n \in UNION {OneEach(s) : s \in {By(m)}}} : m \in All} :
        l = {<<c[1], c[2]>> : c \in u}
  BY Zenon DEF Labellings
<1>2. PICK m \in All : u \in {m \cup n : n \in UNION {OneEach(s) : s \in {By(m)}}}
  OBVIOUS
<1>3. PICK n \in OneEach(By(m)) : u = m \cup n
  BY <1>2
<1>4. PICK c \in m \cup n : lab = <<c[1], c[2]>>
  BY <1>1, <1>3
<1>5. CASE c \in m
  <2>1. m \in ByFace(faces, attire, Sightings(v[2], w[2]))
    OBVIOUS
  <2>2. c \in Sightings(v[2], w[2])
    BY <1>5, <2>1 DEF ByFace
  <2>3. PICK d : (d \in v[2] \/ d \in w[2]) /\ c[1] = d[1] /\ c[2] = d[2]
    BY <2>2 DEF Sightings
  <2> QED BY <1>4, <2>3
<1>6. CASE c \in n
  <2>1. c \in By(m)
    BY <1>6 DEF OneEach
  <2>2. PICK missing : missing = wanted \ {d[1] : d \in m}
    OBVIOUS
  <2>3. c \in ByAttire(faces, attire, missing, m, <<v[1], w[1]>>)
    BY <2>1, <2>2
  <2>4. /\ c[1] \in missing /\ c[2] \in v[1] \cup w[1]
        /\ Speaks(faces, attire, missing, c[1], c[2])
    BY <2>3 DEF ByAttire
  <2> QED BY <1>4, <2>2, <2>4
<1> QED BY <1>4, <1>5, <1>6
(* A label is one of the wanted ids on somebody present; a wrong one has a cause. *)
LabelOf(wanted, c) ==
  /\ c[1] \in wanted /\ c[2] \in Present
  /\ Margins /\ c[1] # c[2] => MayMix(c[1], c[2])

LEMMA PresentAreKnown == Present \subseteq Ids
BY DEF Present, Living

LEMMA SureIsLabel ==
  ASSUME NEW wanted, NEW boxes \in SUBSET Present, NEW pairs,
         Sure(pairs, wanted, boxes), NEW c \in pairs
  PROVE  LabelOf(wanted, c)
<1>1. PICK m \in SUBSET Feasible(faces, attire, wanted, boxes) :
        Injective(m) /\ pairs = Confident(faces, attire, m)
  BY DEF Sure
<1>2. c \in m /\ c \in Confident(faces, attire, m)
  BY <1>1 DEF Confident
<1>3. c[1] \in wanted /\ c[2] \in boxes
  BY <1>2 DEF Feasible
<1>4. c[2] \in Ids
  BY <1>3, PresentAreKnown
<1>5. Margins /\ c[1] # c[2] => MayMix(c[1], c[2])
  BY <1>1, <1>2, <1>4, FaceNeedsCause
<1> QED BY <1>3, <1>5 DEF LabelOf

LEMMA LabellingIsSound ==
  ASSUME NEW wanted, NEW v, NEW w,
         v[1] \subseteq Present, w[1] \subseteq Present,
         \A c \in v[2] \cup w[2] : LabelOf(wanted, c),
         NEW l \in Labellings(faces, attire, wanted, v, w), NEW lab \in l
  PROVE  LabelOf(wanted, lab)
<1>1. PICK c : /\ lab = <<c[1], c[2]>>
               /\ \/ c \in v[2] \/ c \in w[2]
                  \/ /\ c[1] \in wanted /\ c[2] \in v[1] \cup w[1]
                     /\ \E missing : Speaks(faces, attire, missing, c[1], c[2])
  BY LabelOrigin
<1>2. CASE c \in v[2] \cup w[2]
  <2>1. LabelOf(wanted, c)
    BY <1>2
  <2>2. lab[1] = c[1] /\ lab[2] = c[2]
    BY <1>1
  <2> QED BY <2>1, <2>2 DEF LabelOf
<1>3. CASE /\ c[1] \in wanted /\ c[2] \in v[1] \cup w[1]
           /\ \E missing : Speaks(faces, attire, missing, c[1], c[2])
  <2>1. c[2] \in Present /\ c[2] \in Ids
    BY <1>3, PresentAreKnown
  <2>2. PICK missing : Speaks(faces, attire, missing, c[1], c[2])
    BY <1>3
  <2>3. Margins /\ c[1] # c[2] => MayMix(c[1], c[2])
    BY <2>1, <2>2, ClothesNeedCause
  <2>4. lab[1] = c[1] /\ lab[2] = c[2]
    BY <1>1
  <2> QED BY <1>3, <2>1, <2>3, <2>4 DEF LabelOf
<1> QED BY <1>1, <1>2, <1>3

LEMMA ReadingIsSound ==
  ASSUME NEW wanted, NEW v \in Reading(faces, attire, wanted, Present)
  PROVE  v[1] \subseteq Present /\ \A c \in v[2] : LabelOf(wanted, c)
<1>1. v[1] \subseteq Present /\ \E boxes \in SUBSET Present : Sure(v[2], wanted, boxes)
  BY ReadingIsSure
<1>2. PICK boxes \in SUBSET Present : Sure(v[2], wanted, boxes)
  BY <1>1
<1>3. \A c \in v[2] : LabelOf(wanted, c)
  BY <1>2, SureIsLabel
<1> QED BY <1>1, <1>3

LEMMA SweptIsSound ==
  ASSUME NEW wanted, NEW found \in Swept(faces, attire, wanted, Present)
  PROVE  \A c \in found : LabelOf(wanted, c)
<1> DEFINE R == Reading(faces, attire, wanted, Present)
<1>1. PICK v \in R \X R : found \in Labellings(faces, attire, wanted, v[1], v[2])
  BY DEF Swept
<1>2. v[1] \in R /\ v[2] \in R
  OBVIOUS
<1>3. /\ v[1][1] \subseteq Present /\ \A c \in v[1][2] : LabelOf(wanted, c)
      /\ v[2][1] \subseteq Present /\ \A c \in v[2][2] : LabelOf(wanted, c)
  BY <1>2, ReadingIsSound
<1> QED BY <1>1, <1>3, LabellingIsSound

LEMMA LookedIsSound ==
  ASSUME NEW wanted, NEW found \in Looked(faces, attire, wanted, Present)
  PROVE  \A c \in found : LabelOf(wanted, c)
<1> DEFINE none == <<{}, {}>>
<1>1. PICK v \in Reading(faces, attire, wanted, Present) :
        found \in Labellings(faces, attire, wanted, v, none)
  BY Zenon DEF Looked
<1>2. v[1] \subseteq Present /\ \A c \in v[2] : LabelOf(wanted, c)
  BY ReadingIsSound
<1>3. none[1] \subseteq Present /\ none[2] = {}
  OBVIOUS
<1> HIDE DEF none
<1> QED BY <1>1, <1>2, <1>3, LabellingIsSound

(***************************************************************************)
(* The records.  Where the robot is, where the people are and how far the  *)
(* task has come are related: that is what makes the greetings right.      *)
(***************************************************************************)
Shown == Ids \cup {"past", "no row"}
Phases == {"start", "look", "pick", "wait", "handover"}
Verdicts == {"reset", "running", "complete", "stopped"}
Places == {"outside", "door", "standing", "seated"}

HriTypeOK ==
  /\ step \in 1..12 /\ tries \in {0, 1} /\ phase \in Phases /\ verdict \in Verdicts
  /\ faults \in Nat /\ faults <= MaxFaults
  /\ mapped \in BOOLEAN /\ robotAt \in {"door", "living"}
  /\ where \in [Ids -> Places]
  /\ faces \in [Ids -> SUBSET Shown] /\ attire \in [Ids -> SUBSET Shown]
  /\ described \in BOOLEAN /\ hasBag \in BOOLEAN /\ bag \in {"owner", "hand", "floor"}

(* Unless a drive to the door went unnoticed the robot is at the door for the *)
(* greeting, and for the first guest until that guest is led away.            *)
Doors ==
  /\ ~mapped => step = 1
  /\ step \in {2, 3} /\ "door1" \notin causes => robotAt = "door"
  /\ step = 6 /\ "door2" \notin causes => robotAt = "door"

(* One guest at a time waits at the door, and the host never does. *)
Room ==
  /\ where[Host] = "seated"
  /\ where[Id(1)] # "outside"
  /\ where[Id(2)] # "outside" => where[Id(1)] # "door"
  /\ step <= 3 => where[Id(1)] = "door"
  /\ step >= 4 /\ "door1" \notin causes /\ "guide1" \notin causes => where[Id(1)] # "door"

Unstarted == verdict = "reset" => step = 1 /\ tries = 0 /\ phase = "start"

HriInv == HriTypeOK /\ Doors /\ Room /\ Unstarted /\ RecordsHaveCause

LEMMA IdsAre == /\ Ids = {"host", "guest-1", "guest-2"}
                /\ Host = "host" /\ Id(1) = "guest-1" /\ Id(2) = "guest-2"
                /\ Guests = {1, 2} /\ \A g \in Guests : Id(g) \in Ids
BY DEF HriAssumption, Id, Host, Guests

LEMMA StepNumber ==
  /\ Len(Steps) = 12
  /\ \A n \in 1..12 :
       /\ Steps[n] = "door1" => n = 1
       /\ Steps[n] = "greet1" => n = 2
       /\ Steps[n] = "guide1" => n = 3
       /\ Steps[n] = "offer1" => n = 4
       /\ Steps[n] = "door2" => n = 5
       /\ Steps[n] = "greet2" => n = 6
       /\ Steps[n] = "bag" => n = 7
       /\ Steps[n] = "guide2" => n = 8
       /\ Steps[n] = "offer2" => n = 9
       /\ Steps[n] = "audit" => n = 10
       /\ Steps[n] = "introduce" => n = 11
       /\ Steps[n] = "follow" => n = 12
BY DEF Steps

LEMMA TaskMoves ==
  ASSUME HriTypeOK, Ended \/ Again \/ \E ph \in Phases : GoOn(ph)
  PROVE  /\ step' \in 1..12 /\ tries' \in {0, 1} /\ phase' \in Phases
         /\ verdict' \in {verdict, "complete", "stopped"}
         /\ step' = step \/ step' = step + 1
<1> USE DEF HriTypeOK, Phases, Verdicts
<1>1. Len(Steps) = 12
  BY StepNumber
<1>2. CASE Ended
  BY <1>1, <1>2 DEF Ended
<1>3. CASE Again
  BY <1>1, <1>3 DEF Again
<1>4. CASE \E ph \in Phases : GoOn(ph)
  BY <1>4 DEF GoOn
<1> QED BY <1>2, <1>3, <1>4

LEMMA AgainStays ==
  ASSUME HriTypeOK, Again, tries = 0 \/ Steps[step] = "door1"
  PROVE  step' = step
BY DEF Again, HriTypeOK

LEMMA FaultsCounted ==
  ASSUME HriTypeOK, Fine \/ Faulty
  PROVE  faults' \in Nat /\ faults' <= MaxFaults
BY DEF HriTypeOK, Fine, Faulty, HriAssumption

LEMMA FaultsOf ==
  /\ Fail <=> Faulty /\ Again
  /\ Finish <=> Fine /\ Ended
  /\ \A ph : Proceed(ph) <=> Fine /\ GoOn(ph)
BY DEF Fail, Finish, Proceed

LEMMA RecordsStay ==
  ASSUME RecordsHaveCause, verdict # "reset" \/ verdict' = "reset",
         causes \subseteq causes', UNCHANGED memory
  PROVE  RecordsHaveCause'
<1>1. CASE verdict' = "reset"
  BY <1>1 DEF RecordsHaveCause
<1>2. CASE verdict # "reset"
  <2>1. \A id : Foreign(id)' <=> Foreign(id)
    BY DEF memory, Foreign
  <2> QED BY <1>2, <2>1 DEF RecordsHaveCause
<1> QED BY <1>1, <1>2

(* From the first offer on nothing but a guest's arrival changes the room. *)
LEMMA LaterSteps ==
  ASSUME HriInv, step \in {4, 7, 8, 9, 10, 11, 12}, step' = step \/ step' = step + 1,
         mapped' = mapped, where' = where, causes \subseteq causes'
  PROVE  Doors' /\ Room'
BY DEF HriInv, HriTypeOK, Doors, Room, Id

LEMMA HriStart == Init => HriInv
<1> SUFFICES ASSUME Init PROVE HriInv
  OBVIOUS
<1>1. PICK old \in {NoRow, {"past"}} :
        /\ faces = [id \in Ids |-> old]
        /\ attire = [id \in Ids |-> IF old = NoRow THEN {} ELSE old]
  BY DEF Init
<1>2. /\ where \in [Ids -> Places]
      /\ where[Host] = "seated" /\ where[Id(1)] = "door" /\ where[Id(2)] = "outside"
  BY IdsAre DEF Init, Places
<1>3. faces \in [Ids -> SUBSET Shown] /\ attire \in [Ids -> SUBSET Shown]
  BY <1>1 DEF NoRow, Shown
<1> DEFINE Rest == /\ step = 1 /\ tries = 0 /\ phase = "start" /\ verdict = "reset"
                   /\ faults = 0 /\ mapped \in BOOLEAN /\ robotAt = "living"
                   /\ described = FALSE /\ hasBag = FALSE /\ bag = "owner"
<1>r. Rest
  BY Zenon DEF Init
<1>4. HriTypeOK
  <2>1. MaxFaults \in Nat
    BY DEF HriAssumption
  <2>2. described \in BOOLEAN /\ hasBag \in BOOLEAN
    BY <1>r, Zenon
  <2>3. faults \in Nat /\ faults <= MaxFaults
    BY <1>r, <2>1
  <2> QED BY <1>2, <1>3, <1>r, <2>2, <2>3 DEF HriTypeOK, Phases, Verdicts
<1>5. Doors /\ Unstarted /\ RecordsHaveCause
  BY DEF Init, Doors, Unstarted, RecordsHaveCause
<1>6. Room
  BY <1>2, <1>r DEF Room
<1> QED BY <1>4, <1>5, <1>6 DEF HriInv

LEMMA PrepareRunKeeps == HriInv /\ PrepareRun => HriInv'
<1> SUFFICES ASSUME HriInv, PrepareRun PROVE HriInv'
  OBVIOUS
<1>1. PICK cleared \in 0..2 :
         /\ IF cleared < 2 THEN Faulty ELSE Fine
         /\ faces' = IF cleared >= 1 THEN [id \in Ids |-> NoRow] ELSE faces
         /\ attire' = IF cleared = 2 THEN [id \in Ids |-> {}] ELSE attire
         /\ causes' = IF cleared < 2 THEN {"reset"} ELSE {}
  BY DEF PrepareRun
<1>2. /\ verdict = "reset" /\ verdict' = "running"
      /\ UNCHANGED <<step, tries, phase, mapped, robotAt, where, described, hasBag, bag>>
  BY DEF PrepareRun, scene, bagVars
<1>3. step = 1
  BY <1>2 DEF HriInv, Unstarted
<1>4. faults' \in Nat /\ faults' <= MaxFaults
  BY <1>1, FaultsCounted DEF HriInv
<1>5. faces' \in [Ids -> SUBSET Shown] /\ attire' \in [Ids -> SUBSET Shown]
  BY <1>1 DEF HriInv, HriTypeOK, NoRow, Shown
<1>6. HriTypeOK'
  BY <1>2, <1>4, <1>5 DEF HriInv, HriTypeOK, Verdicts
<1>7. Doors' /\ Room' /\ Unstarted'
  BY <1>2, <1>3 DEF HriInv, Doors, Room, Unstarted, Id
<1>8. RecordsHaveCause'
  <2>1. CASE cleared < 2
    BY <1>1, <2>1 DEF RecordsHaveCause
  <2>2. CASE cleared = 2
    <3>1. \A id \in Ids : ~Foreign(id)'
      BY <1>1, <2>2 DEF Foreign
    <3> QED BY <3>1, IdsAre DEF RecordsHaveCause
  <2> QED BY <2>1, <2>2
<1> QED BY <1>6, <1>7, <1>8 DEF HriInv

LEMMA GuestKeeps == HriInv /\ Guest => HriInv'
<1> SUFFICES ASSUME HriInv, Guest PROVE HriInv'
  OBVIOUS
<1>1. PICK p \in Ids, place \in {"door", "seated"} :
        /\ Moves(p, place)
        /\ place = "door" => p = Id(2) /\ where[Id(2)] = "outside" /\ Id(1) \in Living
        /\ place = "seated" => where[p] = "standing"
  BY IdsAre DEF Guest, Arrive, SitDown
<1>2. /\ where' = [where EXCEPT ![p] = place]
      /\ UNCHANGED <<step, tries, phase, verdict, faults, mapped, robotAt, faces, attire,
                     described, hasBag, bag, causes>>
  BY <1>1 DEF Moves, task, memory, bagVars
<1>3. where' \in [Ids -> Places]
  BY <1>2 DEF HriInv, HriTypeOK, Places
<1>4. HriTypeOK'
  BY <1>2, <1>3 DEF HriInv, HriTypeOK
<1>5. Doors' /\ Unstarted'
  BY <1>2 DEF HriInv, Doors, Unstarted
<1>6. Room'
  <2>1. \A q \in Ids : where'[q] = IF q = p THEN place ELSE where[q]
    BY <1>2 DEF HriInv, HriTypeOK
  <2>2. CASE place = "door"
    BY <1>1, <1>2, <2>1, <2>2, IdsAre DEF HriInv, Room, Living
  <2>3. CASE place = "seated"
    BY <1>1, <1>2, <2>1, <2>3, IdsAre DEF HriInv, Room
  <2> QED BY <2>2, <2>3
<1>7. RecordsHaveCause'
  <2>1. UNCHANGED memory /\ causes \subseteq causes'
    BY <1>2 DEF memory
  <2>2. verdict # "reset" \/ verdict' = "reset"
    BY <1>2
  <2> QED BY <2>1, <2>2, RecordsStay DEF HriInv
<1> QED BY <1>4, <1>5, <1>6, <1>7 DEF HriInv

(* One move of the task, on a step that may fail. *)
Moved == Ended \/ Again \/ \E ph \in Phases : GoOn(ph)
Counted == Fine \/ Faulty

LEMMA MovesOn ==
  /\ Fail => Moved /\ Counted
  /\ Finish => Moved /\ Counted
  /\ \A ph \in Phases : Proceed(ph) => Moved /\ Counted
BY FaultsOf DEF Moved, Counted

(* A step after the greetings that leaves the memory alone. *)
LEMMA QuietStep ==
  ASSUME HriInv, verdict = "running", step \in {4, 7, 8, 9, 10, 11, 12}, Moved, Counted,
         mapped' = mapped, where' = where, robotAt' \in {robotAt, "living"},
         UNCHANGED memory, causes' = causes, described' = described,
         hasBag' \in BOOLEAN, bag' \in {"owner", "hand", "floor"}
  PROVE  HriInv'
<1>1. /\ step' \in 1..12 /\ tries' \in {0, 1} /\ phase' \in Phases
      /\ verdict' \in {verdict, "complete", "stopped"}
      /\ step' = step \/ step' = step + 1
  BY TaskMoves DEF HriInv, Moved
<1>2. faults' \in Nat /\ faults' <= MaxFaults
  BY FaultsCounted DEF HriInv, Counted
<1>3. described' \in BOOLEAN
  BY Zenon DEF HriInv, HriTypeOK
<1>4. HriTypeOK'
  BY <1>1, <1>2, <1>3 DEF HriInv, HriTypeOK, Verdicts, memory
<1>5. Doors' /\ Room'
  BY <1>1, LaterSteps
<1>6. Unstarted'
  BY <1>1 DEF Unstarted
<1>7. RecordsHaveCause'
  BY RecordsStay DEF HriInv
<1> QED BY <1>4, <1>5, <1>6, <1>7 DEF HriInv

(* Which step it is. *)
LEMMA AtStep ==
  ASSUME HriInv, NEW name, NEW ph, At(name, ph)
  PROVE  /\ verdict = "running" /\ Steps[step] = name /\ phase = ph
         /\ name = "door1" => step = 1
         /\ name = "greet1" => step = 2
         /\ name = "guide1" => step = 3
         /\ name = "offer1" => step = 4
         /\ name = "door2" => step = 5
         /\ name = "greet2" => step = 6
         /\ name = "bag" => step = 7
         /\ name = "guide2" => step = 8
         /\ name = "offer2" => step = 9
         /\ name = "audit" => step = 10
         /\ name = "introduce" => step = 11
         /\ name = "follow" => step = 12
<1>1. verdict = "running" /\ Steps[step] = name /\ phase = ph
  BY DEF At
<1>2. step \in 1..12
  BY DEF HriInv, HriTypeOK
<1> QED BY <1>1, <1>2, StepNumber

LEMMA AtOffer ==
  ASSUME HriInv, NEW g \in Guests, NEW ph, At(OfferStep(g), ph)
  PROVE  verdict = "running" /\ step \in {4, 9} /\ (step = 4 <=> g = 1)
<1>1. g = 1 \/ g = 2
  BY IdsAre
<1>2. CASE g = 1
  BY <1>2, AtStep DEF OfferStep
<1>3. CASE g = 2
  BY <1>3, AtStep DEF OfferStep
<1> QED BY <1>1, <1>2, <1>3

LEMMA BagTyped ==
  ASSUME HriInv
  PROVE  hasBag \in BOOLEAN /\ bag \in {"owner", "hand", "floor"}
BY Zenon DEF HriInv, HriTypeOK

LEMMA OfferKeeps ==
  ASSUME HriInv, NEW g \in Guests, LookAround(g) \/ PickSeat(g) \/ WaitSeated(g)
  PROVE  HriInv'
<1>1. CASE LookAround(g)
  <2>1. At(OfferStep(g), "look") /\ (Fail \/ Proceed("pick"))
        /\ UNCHANGED <<scene, memory, described, bagVars, causes>>
    BY <1>1 DEF LookAround
  <2>2. Moved /\ Counted
    BY <2>1, MovesOn DEF Phases
  <2> QED BY <2>1, <2>2, AtOffer, BagTyped, QuietStep DEF scene, bagVars
<1>2. CASE PickSeat(g)
  <2>1. At(OfferStep(g), "pick") /\ (Finish \/ Proceed("wait") \/ Fail)
        /\ UNCHANGED <<scene, memory, described, bagVars, causes>>
    BY <1>2 DEF PickSeat
  <2>2. Moved /\ Counted
    BY <2>1, MovesOn DEF Phases
  <2> QED BY <2>1, <2>2, AtOffer, BagTyped, QuietStep DEF scene, bagVars
<1>3. CASE WaitSeated(g)
  <2>1. /\ At(OfferStep(g), "wait") /\ robotAt' \in {robotAt, "living"}
        /\ Fail \/ Finish \/ (Faulty /\ Ended)
        /\ UNCHANGED <<mapped, where, memory, described, bagVars, causes>>
    BY <1>3 DEF WaitSeated
  <2>2. Moved /\ Counted
    BY <2>1, MovesOn DEF Moved, Counted
  <2> QED BY <2>1, <2>2, AtOffer, BagTyped, QuietStep DEF bagVars
<1> QED BY <1>1, <1>2, <1>3

LEMMA BagKeeps ==
  ASSUME HriInv, OpenHand \/ CloseHand
  PROVE  HriInv'
<1>1. CASE OpenHand
  <2>1. /\ At("bag", "start") /\ bag' \in {bag, "floor"} /\ hasBag' = hasBag
        /\ Fail \/ Finish \/ Proceed("handover")
        /\ UNCHANGED <<scene, memory, described, causes>>
    BY <1>1 DEF OpenHand
  <2>2. Moved /\ Counted
    BY <2>1, MovesOn DEF Phases
  <2> QED BY <2>1, <2>2, AtStep, BagTyped, QuietStep DEF scene
<1>2. CASE CloseHand
  <2>1. /\ At("bag", "handover") /\ bag' \in {bag, "hand"} /\ hasBag' \in {hasBag, TRUE}
        /\ Fail \/ Finish \/ (Faulty /\ Ended)
        /\ UNCHANGED <<scene, memory, described, causes>>
    BY <1>2 DEF CloseHand, bagVars
  <2>2. Moved /\ Counted
    BY <2>1, MovesOn DEF Moved, Counted
  <2>3. hasBag' \in BOOLEAN
    BY <2>1, BagTyped, Zenon
  <2> QED BY <2>1, <2>2, <2>3, AtStep, BagTyped, QuietStep DEF scene
<1> QED BY <1>1, <1>2

LEMMA LateKeeps ==
  ASSUME HriInv, Audit \/ Introduce
  PROVE  HriInv'
<1>1. CASE Audit
  <2>1. At("audit", "start") /\ Finish /\ UNCHANGED <<scene, memory, described, bagVars, causes>>
    BY <1>1 DEF Audit
  <2>2. Moved /\ Counted
    BY <2>1, MovesOn
  <2> QED BY <2>1, <2>2, AtStep, BagTyped, QuietStep DEF scene, bagVars
<1>2. CASE Introduce
  <2>1. At("introduce", "start") /\ (Fail \/ Finish)
        /\ UNCHANGED <<scene, memory, described, bagVars, causes>>
    BY <1>2 DEF Introduce
  <2>2. Moved /\ Counted
    BY <2>1, MovesOn
  <2> QED BY <2>1, <2>2, AtStep, BagTyped, QuietStep DEF scene, bagVars
<1> QED BY <1>1, <1>2

(* One record is written, with the looks of its own person it stays that person's. *)
LEMMA RememberKeeps ==
  ASSUME HriTypeOK, NEW id \in Ids, NEW face \in SUBSET Shown, NEW clothes \in SUBSET Shown,
         Remember(id, face, clothes)
  PROVE  /\ faces' \in [Ids -> SUBSET Shown] /\ attire' \in [Ids -> SUBSET Shown]
         /\ \A o \in Ids \ {id} : Foreign(o)' <=> Foreign(o)
         /\ face \subseteq {id} /\ clothes \subseteq {id} /\ ~Foreign(id) => ~Foreign(id)'
<1>1. /\ faces' = [faces EXCEPT ![id] = IF @ = NoRow THEN face ELSE @ \cup face]
      /\ attire' = [attire EXCEPT ![id] = IF clothes = {} THEN @ ELSE clothes]
  BY DEF Remember, Folded, Dressed
<1>2. faces \in [Ids -> SUBSET Shown] /\ attire \in [Ids -> SUBSET Shown]
  BY DEF HriTypeOK
<1>3. faces' \in [Ids -> SUBSET Shown] /\ attire' \in [Ids -> SUBSET Shown]
  BY <1>1, <1>2
<1>4. \A o \in Ids \ {id} : faces'[o] = faces[o] /\ attire'[o] = attire[o]
  BY <1>1, <1>2
<1>5. \A o \in Ids \ {id} : Foreign(o)' <=> Foreign(o)
  BY <1>4 DEF Foreign
<1>6. /\ faces'[id] = IF faces[id] = NoRow THEN face ELSE faces[id] \cup face
      /\ attire'[id] = IF clothes = {} THEN attire[id] ELSE clothes
  BY <1>1, <1>2
<1>7. ASSUME face \subseteq {id}, clothes \subseteq {id}, ~Foreign(id) PROVE ~Foreign(id)'
  <2>1. attire'[id] \ {id} = {}
    BY <1>6, <1>7 DEF Foreign
  <2>2. faces'[id] # NoRow => faces'[id] \ {id} = {}
    BY <1>6, <1>7 DEF Foreign
  <2> QED BY <2>1, <2>2 DEF Foreign
<1> QED BY <1>3, <1>5, <1>7

(* The same for what enroll may do, a failure in between included. *)
Written(id, face, clothes) ==
  \/ UNCHANGED memory
  \/ \E f \in {face, {}}, c \in {clothes, {}} : Remember(id, f, c)

LEMMA WrittenKeeps ==
  ASSUME HriTypeOK, NEW id \in Ids, NEW face \in SUBSET Shown, NEW clothes \in SUBSET Shown,
         Written(id, face, clothes)
  PROVE  /\ faces' \in [Ids -> SUBSET Shown] /\ attire' \in [Ids -> SUBSET Shown]
         /\ \A o \in Ids \ {id} : Foreign(o)' <=> Foreign(o)
         /\ face \subseteq {id} /\ clothes \subseteq {id} /\ ~Foreign(id) => ~Foreign(id)'
<1>1. CASE UNCHANGED memory
  <2>1. \A o : Foreign(o)' <=> Foreign(o)
    BY <1>1 DEF memory, Foreign
  <2> QED BY <1>1, <2>1 DEF memory, HriTypeOK
<1>2. CASE \E f \in {face, {}}, c \in {clothes, {}} : Remember(id, f, c)
  <2>1. PICK f \in {face, {}}, c \in {clothes, {}} : Remember(id, f, c)
    BY <1>2
  <2>2. f \in SUBSET Shown /\ c \in SUBSET Shown /\ f \subseteq face /\ c \subseteq clothes
    OBVIOUS
  <2>3. /\ faces' \in [Ids -> SUBSET Shown] /\ attire' \in [Ids -> SUBSET Shown]
        /\ \A o \in Ids \ {id} : Foreign(o)' <=> Foreign(o)
        /\ f \subseteq {id} /\ c \subseteq {id} /\ ~Foreign(id) => ~Foreign(id)'
    BY <2>1, <2>2, RememberKeeps
  <2> QED BY <2>2, <2>3
<1> QED BY <1>1, <1>2 DEF Written

LEMMA EnrollsIsWritten ==
  ASSUME NEW id, NEW face, NEW clothes, Enrolls(id, face, clothes)
  PROVE  Written(id, face, clothes) /\ Counted
BY DEF Enrolls, Written, Counted

LEMMA GoToDoorKeeps ==
  ASSUME HriInv, NEW g \in Guests, GoToDoor(g)
  PROVE  HriInv'
<1>1. g = 1 \/ g = 2
  BY IdsAre
<1>2. /\ At(DoorStep(g), "start")
      /\ UNCHANGED <<mapped, where, memory, described, bagVars>>
      /\ \/ ~mapped /\ Fine /\ Again /\ UNCHANGED <<robotAt, causes>>
         \/ /\ Fail /\ UNCHANGED robotAt
            /\ causes' = IF tries = 1 THEN causes \cup {DoorStep(g)} ELSE causes
         \/ mapped /\ Ended /\ Fine /\ robotAt' = "door" /\ UNCHANGED causes
         \/ /\ mapped /\ Ended /\ Faulty /\ UNCHANGED robotAt
            /\ causes' = causes \cup {DoorStep(g)}
  BY DEF GoToDoor
<1>3. /\ verdict = "running" /\ Steps[step] = DoorStep(g)
      /\ step = IF g = 1 THEN 1 ELSE 5
  <2>1. CASE g = 1
    BY <1>2, <2>1, AtStep DEF DoorStep
  <2>2. CASE g = 2
    BY <1>2, <2>2, AtStep DEF DoorStep
  <2> QED BY <1>1, <2>1, <2>2
<1>4. Moved /\ Counted /\ causes \subseteq causes' /\ robotAt' \in {robotAt, "door"}
  BY <1>2, MovesOn DEF Moved, Counted
<1>5. /\ step' \in 1..12 /\ tries' \in {0, 1} /\ phase' \in Phases
      /\ verdict' \in {verdict, "complete", "stopped"}
      /\ step' = step \/ step' = step + 1
  BY <1>4, TaskMoves DEF HriInv, Moved
<1>6. faults' \in Nat /\ faults' <= MaxFaults
  BY <1>4, FaultsCounted DEF HriInv, Counted
<1>7. HriTypeOK'
  <2>1. described' \in BOOLEAN /\ hasBag' \in BOOLEAN /\ mapped' \in BOOLEAN
    BY <1>2, Zenon DEF HriInv, HriTypeOK, bagVars
  <2> QED BY <1>2, <1>3, <1>4, <1>5, <1>6, <2>1 DEF HriInv, HriTypeOK, Verdicts, memory, bagVars
<1>8. Doors'
  <2>1. CASE ~mapped
    <3>1. step = 1 /\ g = 1
      BY <1>1, <1>3, <2>1 DEF HriInv, Doors
    <3>2. Again
      BY <1>2, <2>1 DEF Fail
    <3>3. Steps[step] = "door1"
      BY <1>3, <3>1 DEF DoorStep
    <3>4. step' = step
      BY <3>2, <3>3, AgainStays DEF HriInv
    <3> QED BY <3>1, <3>4, <1>2 DEF Doors
  <2>2. CASE /\ mapped /\ Fail
             /\ causes' = IF tries = 1 THEN causes \cup {DoorStep(g)} ELSE causes
    <3>1. Again /\ tries \in {0, 1}
      BY <2>2, FaultsOf DEF HriInv, HriTypeOK
    <3>2. tries = 0 \/ g = 1 => step' = step
      BY <3>1, <1>3, AgainStays DEF HriInv, DoorStep
    <3>3. tries = 1 /\ g = 2 => "door2" \in causes'
      BY <2>2 DEF DoorStep
    <3> QED BY <1>1, <1>2, <1>3, <1>5, <2>2, <3>1, <3>2, <3>3 DEF Doors
  <2>3. CASE /\ mapped
             /\ robotAt' = "door" \/ causes' = causes \cup {DoorStep(g)}
    BY <1>1, <1>2, <1>3, <1>5, <2>3 DEF Doors, DoorStep
  <2> QED BY <1>2, <2>1, <2>2, <2>3
<1>9. Room'
  BY <1>1, <1>2, <1>3, <1>4, <1>5 DEF HriInv, Room, Id
<1>10. Unstarted' /\ RecordsHaveCause'
  <2>1. Unstarted'
    BY <1>3, <1>5 DEF Unstarted
  <2>2. RecordsHaveCause'
    BY <1>2, <1>3, <1>4, RecordsStay DEF HriInv
  <2> QED BY <2>1, <2>2
<1> QED BY <1>7, <1>8, <1>9, <1>10 DEF HriInv

(* What a greeting, an offer or the last step has to say of the records. *)
LEMMA GuestRecordWritten ==
  ASSUME HriInv, verdict = "running", NEW g \in Guests,
         \A o \in Ids \ {Id(g)} : Foreign(o)' <=> Foreign(o),
         causes' = causes,
         ~Foreign(Id(g)) => ~Foreign(Id(g))'
            \/ causes \cap ({"reset", "door1"} \cup IF g = 1 THEN {} ELSE {"guide1", "door2"}) # {}
  PROVE  RecordsHaveCause'
<1> DEFINE spoilers(h) == {"reset", "door1"} \cup IF h = 1 THEN {} ELSE {"guide1", "door2"}
<1>1. /\ \A h \in Guests : Foreign(Id(h)) => causes \cap spoilers(h) # {}
      /\ Foreign(Host) => causes # {}
  BY Zenon DEF HriInv, RecordsHaveCause
<1>2. Host \in Ids \ {Id(g)} /\ \A h \in Guests : h # g => Id(h) \in Ids \ {Id(g)}
  BY IdsAre
<1>3. \A h \in Guests : Foreign(Id(h))' => causes' \cap spoilers(h) # {}
  <2> TAKE h \in Guests
  <2> SUFFICES ASSUME Foreign(Id(h))' PROVE causes' \cap spoilers(h) # {}
    OBVIOUS
  <2>1. CASE h = g
    BY <1>1, <2>1
  <2>2. CASE h # g
    BY <1>1, <1>2, <2>2
  <2> QED BY <2>1, <2>2
<1>4. Foreign(Host)' => causes' # {}
  BY <1>1, <1>2
<1> HIDE DEF spoilers
<1> QED BY <1>3, <1>4 DEF RecordsHaveCause, spoilers

LEMMA GreetKeeps ==
  ASSUME HriInv, NEW g \in Guests, Greet(g)
  PROVE  HriInv'
<1>1. g = 1 \/ g = 2
  BY IdsAre
<1>2. /\ At(GreetStep(g), "start") /\ (Ended \/ Again)
      /\ UNCHANGED <<scene, described, bagVars>>
      /\ \/ Faulty /\ UNCHANGED <<memory, causes>>
         \/ Fine /\ causes' = causes \cup {GreetStep(g)} /\ UNCHANGED memory
         \/ /\ UNCHANGED causes
            /\ \E p, q \in Present : Enrolls(Id(g), {p}, {q})
  BY FaultsOf DEF Greet
<1>3. verdict = "running" /\ step = IF g = 1 THEN 2 ELSE 6
  <2>1. CASE g = 1
    BY <1>2, <2>1, AtStep DEF GreetStep
  <2>2. CASE g = 2
    BY <1>2, <2>2, AtStep DEF GreetStep
  <2> QED BY <1>1, <2>1, <2>2
<1>4. /\ step' \in 1..12 /\ tries' \in {0, 1} /\ phase' \in Phases
      /\ verdict' \in {"running", "complete", "stopped"}
      /\ step' = step \/ step' = step + 1
  BY <1>2, <1>3, TaskMoves DEF HriInv
<1>5. UNCHANGED <<mapped, robotAt, where, described, hasBag, bag>>
  BY <1>2 DEF scene, bagVars
<1>6. Doors' /\ Room' /\ Unstarted'
  BY <1>1, <1>2, <1>3, <1>4, <1>5 DEF HriInv, Doors, Room, Unstarted, GreetStep, Id
<1>9. CASE Faulty /\ UNCHANGED <<memory, causes>>
  <2>1. faults' \in Nat /\ faults' <= MaxFaults
    BY <1>9, FaultsCounted DEF HriInv
  <2>2. described' \in BOOLEAN /\ hasBag' \in BOOLEAN /\ mapped' \in BOOLEAN
    BY <1>5, Zenon DEF HriInv, HriTypeOK
  <2>3. HriTypeOK'
    BY <1>4, <1>5, <1>9, <2>1, <2>2 DEF HriInv, HriTypeOK, Verdicts, memory
  <2>4. RecordsHaveCause'
    BY <1>3, <1>9, RecordsStay DEF HriInv
  <2> QED BY <1>6, <2>3, <2>4 DEF HriInv
<1>7. CASE Fine /\ causes' = causes \cup {GreetStep(g)} /\ UNCHANGED memory
  <2>1. faults' \in Nat /\ faults' <= MaxFaults
    BY <1>7, FaultsCounted DEF HriInv
  <2>2. described' \in BOOLEAN /\ hasBag' \in BOOLEAN /\ mapped' \in BOOLEAN
    BY <1>5, Zenon DEF HriInv, HriTypeOK
  <2>3. HriTypeOK'
    BY <1>1, <1>3, <1>4, <1>5, <1>7, <2>1, <2>2 DEF HriInv, HriTypeOK, Verdicts, Phases, memory
  <2>4. RecordsHaveCause'
    BY <1>3, <1>7, RecordsStay DEF HriInv
  <2> QED BY <1>6, <2>3, <2>4 DEF HriInv
<1>8. CASE causes' = causes /\ \E p, q \in Present : Enrolls(Id(g), {p}, {q})
  <2>1. PICK p \in Present, q \in Present : Enrolls(Id(g), {p}, {q})
    BY <1>8
  <2>2. Written(Id(g), {p}, {q}) /\ Counted
    BY <2>1, EnrollsIsWritten
  <2>3. {p} \in SUBSET Shown /\ {q} \in SUBSET Shown
    BY PresentAreKnown DEF Shown
  <2>4. /\ faces' \in [Ids -> SUBSET Shown] /\ attire' \in [Ids -> SUBSET Shown]
        /\ \A o \in Ids \ {Id(g)} : Foreign(o)' <=> Foreign(o)
        /\ {p} \subseteq {Id(g)} /\ {q} \subseteq {Id(g)} /\ ~Foreign(Id(g)) => ~Foreign(Id(g))'
    BY <2>2, <2>3, IdsAre, WrittenKeeps DEF HriInv
  <2>5. faults' \in Nat /\ faults' <= MaxFaults
    BY <2>2, FaultsCounted DEF HriInv, Counted
  <2>6. described' \in BOOLEAN /\ hasBag' \in BOOLEAN /\ mapped' \in BOOLEAN
    BY <1>5, Zenon DEF HriInv, HriTypeOK
  <2>7. HriTypeOK'
    BY <1>1, <1>3, <1>4, <1>5, <2>4, <2>5, <2>6 DEF HriInv, HriTypeOK, Verdicts, Phases
  <2>8. \/ causes \cap ({"reset", "door1"} \cup IF g = 1 THEN {} ELSE {"guide1", "door2"}) # {}
        \/ Present \subseteq {Id(g)}
    <3>1. CASE g = 1
      <4>1. "door1" \notin causes => Present \subseteq {Id(1)}
        BY <1>3, <3>1, IdsAre DEF HriInv, Doors, Room, Present
      <4> QED BY <3>1, <4>1
    <3>2. CASE g = 2
      <4>1. {"door1", "guide1", "door2"} \cap causes = {} => Present \subseteq {Id(2)}
        BY <1>3, <3>2, IdsAre DEF HriInv, Doors, Room, Present
      <4> QED BY <3>2, <4>1
    <3> QED BY <1>1, <3>1, <3>2
  <2>9. ~Foreign(Id(g)) => ~Foreign(Id(g))'
            \/ causes \cap ({"reset", "door1"} \cup IF g = 1 THEN {} ELSE {"guide1", "door2"}) # {}
    BY <2>4, <2>8
  <2>10. RecordsHaveCause'
    BY <1>3, <1>8, <2>4, <2>9, GuestRecordWritten
  <2> QED BY <1>6, <2>7, <2>10 DEF HriInv
<1> QED BY <1>2, <1>7, <1>8, <1>9

LEMMA GuideKeeps ==
  ASSUME HriInv, NEW g \in Guests, Guide(g)
  PROVE  HriInv'
<1>1. g = 1 \/ g = 2
  BY IdsAre
<1> DEFINE moved == [p \in Ids |-> IF where[p] = "door" /\ robotAt = "door" THEN "standing"
                                   ELSE where[p]]
<1>2. /\ At(GuideStep(g), "start")
      /\ UNCHANGED <<mapped, memory, described, bagVars>>
      /\ \/ /\ Fail /\ causes' = causes \cup {GuideStep(g)} /\ UNCHANGED <<robotAt, where>>
         \/ /\ Finish /\ UNCHANGED causes /\ robotAt' = "living" /\ where' = moved
  BY DEF Guide
<1>3. verdict = "running" /\ step = IF g = 1 THEN 3 ELSE 8
  <2>1. CASE g = 1
    BY <1>2, <2>1, AtStep DEF GuideStep
  <2>2. CASE g = 2
    BY <1>2, <2>2, AtStep DEF GuideStep
  <2> QED BY <1>1, <2>1, <2>2
<1>4. Moved /\ Counted /\ causes \subseteq causes' /\ robotAt' \in {robotAt, "living"}
  BY <1>2, MovesOn
<1>5. /\ step' \in 1..12 /\ tries' \in {0, 1} /\ phase' \in Phases
      /\ verdict' \in {verdict, "complete", "stopped"}
      /\ step' = step \/ step' = step + 1
  BY <1>4, TaskMoves DEF HriInv, Moved
<1>6. faults' \in Nat /\ faults' <= MaxFaults
  BY <1>4, FaultsCounted DEF HriInv, Counted
<1>7. where' \in [Ids -> Places]
  BY <1>2 DEF HriInv, HriTypeOK, Places
<1>8. HriTypeOK'
  <2>1. described' \in BOOLEAN /\ hasBag' \in BOOLEAN /\ mapped' \in BOOLEAN
    BY <1>2, Zenon DEF HriInv, HriTypeOK, bagVars
  <2> QED BY <1>2, <1>3, <1>4, <1>5, <1>6, <1>7, <2>1 DEF HriInv, HriTypeOK, Verdicts, memory, bagVars
<1>9. Doors'
  <2>1. CASE g = 1 /\ step' = 3
    <3>1. ~Finish
      BY <1>3, <2>1, StepNumber DEF Finish, Ended
    <3> QED BY <1>2, <1>3, <2>1, <3>1 DEF HriInv, Doors
  <2>2. CASE ~(g = 1 /\ step' = 3)
    BY <1>1, <1>2, <1>3, <1>5, <2>2 DEF HriInv, Doors
  <2> QED BY <2>1, <2>2
<1>10. Room'
  <2>1. CASE Fail /\ causes' = causes \cup {GuideStep(g)} /\ UNCHANGED <<robotAt, where>>
    BY <1>1, <1>3, <1>5, <2>1 DEF HriInv, Room, Id, GuideStep
  <2>2. CASE Finish /\ UNCHANGED causes /\ robotAt' = "living" /\ where' = moved
    <3>1. step' = step + 1
      BY <1>1, <1>3, <2>2, StepNumber DEF Finish, Ended
    <3>2. \A p \in Ids : where'[p] = IF where[p] = "door" /\ robotAt = "door" THEN "standing"
                                     ELSE where[p]
      BY <2>2
    <3>3. /\ where'[Host] = "seated"
          /\ where'[Id(1)] # "outside"
          /\ where'[Id(2)] # "outside" => where'[Id(1)] # "door"
      BY <3>2, IdsAre DEF HriInv, Room
    <3>4. step' >= 4
      BY <1>1, <1>3, <3>1
    <3>5. "door1" \notin causes /\ "guide1" \notin causes => where'[Id(1)] # "door"
      BY <1>1, <1>3, <3>2, IdsAre DEF HriInv, Room, Doors
    <3> QED BY <1>5, <2>2, <3>3, <3>4, <3>5 DEF Room, Id, Host
  <2> QED BY <1>2, <2>1, <2>2
<1>11. Unstarted' /\ RecordsHaveCause'
  <2>1. Unstarted'
    BY <1>3, <1>5 DEF Unstarted
  <2>2. RecordsHaveCause'
    BY <1>2, <1>3, <1>4, RecordsStay DEF HriInv
  <2> QED BY <2>1, <2>2
<1> QED BY <1>8, <1>9, <1>10, <1>11 DEF HriInv

LEMMA HostRecordWritten ==
  ASSUME HriInv, verdict = "running",
         \A o \in Ids \ {Host} : Foreign(o)' <=> Foreign(o),
         causes \subseteq causes',
         ~Foreign(Host) => ~Foreign(Host)' \/ causes' # {}
  PROVE  RecordsHaveCause'
<1> DEFINE spoilers(h) == {"reset", "door1"} \cup IF h = 1 THEN {} ELSE {"guide1", "door2"}
<1>1. /\ \A h \in Guests : Foreign(Id(h)) => causes \cap spoilers(h) # {}
      /\ Foreign(Host) => causes # {}
  BY Zenon DEF HriInv, RecordsHaveCause
<1>2. \A h \in Guests : Id(h) \in Ids \ {Host}
  BY IdsAre
<1>3. \A h \in Guests : Foreign(Id(h))' => causes' \cap spoilers(h) # {}
  <2> HIDE DEF spoilers
  <2> QED BY <1>1, <1>2
<1>4. Foreign(Host)' => causes' # {}
  BY <1>1
<1> HIDE DEF spoilers
<1> QED BY <1>3, <1>4 DEF RecordsHaveCause, spoilers

LEMMA SweepKeeps ==
  ASSUME HriInv, NEW g \in Guests, Sweep(g)
  PROVE  HriInv'
<1>1. /\ At(OfferStep(g), "start")
      /\ UNCHANGED <<scene, bagVars>>
      /\ \/ \E f \in Frames(Present), detected \in SUBSET Ids : EnrollHost(f, detected)
         \/ GoOn("look") /\ Fine /\ UNCHANGED <<memory, described, causes>>
  BY FaultsOf DEF Sweep
<1>2. verdict = "running" /\ step \in {4, 9}
  BY <1>1, AtOffer
<1>3. UNCHANGED <<mapped, robotAt, where, hasBag, bag>>
  BY <1>1 DEF scene, bagVars
<1>4. /\ GoOn("look") \/ Again
      /\ Counted /\ described' \in BOOLEAN /\ causes \subseteq causes'
      /\ \E face, clothes \in SUBSET Shown :
           /\ Written(Host, face, clothes)
           /\ (face \subseteq {Host} /\ clothes \subseteq {Host}) \/ causes' # {}
  <2>1. CASE GoOn("look") /\ Fine /\ UNCHANGED <<memory, described, causes>>
    <3>1. Written(Host, {}, {}) /\ Counted
      BY <2>1 DEF Written, Counted
    <3>2. described' \in BOOLEAN
      BY <2>1, Zenon DEF HriInv, HriTypeOK
    <3> QED BY <2>1, <3>1, <3>2
  <2>2. CASE \E f \in Frames(Present), detected \in SUBSET Ids : EnrollHost(f, detected)
    <3>1. PICK f \in Frames(Present), detected \in SUBSET Ids : EnrollHost(f, detected)
      BY <2>2
    <3>2. f.seen \subseteq Ids
      BY PresentAreKnown DEF Frames
    <3>3. CASE SeatedIn(f.seen, detected) = {}
      <4>1. UNCHANGED <<memory, causes>> /\ Counted /\ GoOn("look") /\ described' \in BOOLEAN
        BY <3>1, <3>3, Zenon DEF EnrollHost, Counted
      <4>2. Written(Host, {}, {})
        BY <4>1 DEF Written
      <4> QED BY <4>1, <4>2
    <3>4. CASE SeatedIn(f.seen, detected) # {}
      <4> DEFINE One(p, face) ==
              /\ causes' = IF OnASeat(f.seen, detected) = {Host} /\ face \subseteq {Host}
                           THEN causes ELSE causes \cup {"host unseen"}
              /\ \/ GoOn("look") /\ Enrolls(Host, face, {p})
                 \/ Fail /\ UNCHANGED memory
      <4>0. PICK p \in SeatedIn(f.seen, detected) : \E face \in FaceInBox(p, f) : One(p, face)
        BY <3>1, <3>4, Zenon DEF EnrollHost
      <4>1. PICK face \in FaceInBox(p, f) : One(p, face)
        BY <4>0
      <4>2. p \in Ids
        BY <3>2 DEF SeatedIn, OnASeat
      <4>3. Written(Host, face, {p}) /\ Counted /\ (GoOn("look") \/ Again)
        <5>1. CASE GoOn("look") /\ Enrolls(Host, face, {p})
          BY <5>1, EnrollsIsWritten
        <5>2. CASE Fail /\ UNCHANGED memory
          BY <5>2, FaultsOf DEF Written, Counted
        <5> QED BY <4>1, <5>1, <5>2
      <4>4. described' \in BOOLEAN
        BY <3>1, Zenon DEF EnrollHost
      <4>5. (face \subseteq {Host} /\ {p} \subseteq {Host}) \/ causes' # {}
        <5>1. CASE OnASeat(f.seen, detected) = {Host} /\ face \subseteq {Host}
          BY <5>1 DEF SeatedIn
        <5>2. CASE ~(OnASeat(f.seen, detected) = {Host} /\ face \subseteq {Host})
          BY <4>1, <5>2
        <5> QED BY <5>1, <5>2
      <4>6. face \in SUBSET Shown /\ {p} \in SUBSET Shown /\ causes \subseteq causes'
        <5>1. f.faced \subseteq Ids
          BY <3>2 DEF Frames
        <5>2. face \subseteq Ids
          BY <4>2, <5>1 DEF FaceInBox
        <5> QED BY <4>1, <4>2, <5>2 DEF Shown
      <4> QED BY <4>3, <4>4, <4>5, <4>6
    <3> QED BY <3>3, <3>4
  <2> QED BY <1>1, <2>1, <2>2
<1>5. PICK face \in SUBSET Shown, clothes \in SUBSET Shown :
           /\ Written(Host, face, clothes)
           /\ (face \subseteq {Host} /\ clothes \subseteq {Host}) \/ causes' # {}
  BY <1>4
<1>6. /\ faces' \in [Ids -> SUBSET Shown] /\ attire' \in [Ids -> SUBSET Shown]
      /\ \A o \in Ids \ {Host} : Foreign(o)' <=> Foreign(o)
      /\ face \subseteq {Host} /\ clothes \subseteq {Host} /\ ~Foreign(Host) => ~Foreign(Host)'
  BY <1>5, IdsAre, WrittenKeeps DEF HriInv
<1>7. faults' \in Nat /\ faults' <= MaxFaults
  BY <1>4, FaultsCounted DEF HriInv, Counted
<1>12. /\ step' \in 1..12 /\ tries' \in {0, 1} /\ phase' \in Phases
       /\ verdict' \in {"running", "complete", "stopped"}
       /\ step' = step \/ step' = step + 1
  <2>1. "look" \in Phases
    BY DEF Phases
  <2> QED BY <1>2, <1>4, <2>1, TaskMoves DEF HriInv
<1>8. HriTypeOK'
  <2>1. hasBag' \in BOOLEAN /\ mapped' \in BOOLEAN
    BY <1>3, Zenon DEF HriInv, HriTypeOK
  <2> QED BY <1>3, <1>4, <1>6, <1>7, <1>12, <2>1 DEF HriInv, HriTypeOK, Verdicts
<1>9. Doors' /\ Room'
  BY <1>2, <1>3, <1>4, <1>12, LaterSteps
<1>10. Unstarted'
  BY <1>12 DEF Unstarted
<1>11. RecordsHaveCause'
  BY <1>2, <1>4, <1>5, <1>6, HostRecordWritten
<1> QED BY <1>8, <1>9, <1>10, <1>11 DEF HriInv

(* New clothes alone. *)
LEMMA DressKeeps ==
  ASSUME HriTypeOK, NEW id \in Ids, NEW clothes \in SUBSET Shown, faces' = faces,
         attire' = attire \/ attire' = Dressed(attire, id, clothes)
  PROVE  /\ attire' \in [Ids -> SUBSET Shown]
         /\ \A o \in Ids \ {id} : Foreign(o)' <=> Foreign(o)
         /\ clothes \subseteq {id} /\ ~Foreign(id) => ~Foreign(id)'
<1>1. attire \in [Ids -> SUBSET Shown]
  BY DEF HriTypeOK
<1>2. CASE attire' = attire
  BY <1>1, <1>2 DEF Foreign
<1>3. CASE attire' = Dressed(attire, id, clothes)
  <2>1. attire' = [attire EXCEPT ![id] = IF clothes = {} THEN @ ELSE clothes]
    BY <1>3 DEF Dressed
  <2>2. attire' \in [Ids -> SUBSET Shown]
    BY <1>1, <2>1
  <2>3. \A o \in Ids \ {id} : attire'[o] = attire[o]
    BY <1>1, <2>1
  <2>4. attire'[id] = IF clothes = {} THEN attire[id] ELSE clothes
    BY <1>1, <2>1
  <2>5. \A o \in Ids \ {id} : Foreign(o)' <=> Foreign(o)
    BY <2>3 DEF Foreign
  <2>6. clothes \subseteq {id} /\ ~Foreign(id) => ~Foreign(id)'
    BY <2>4 DEF Foreign
  <2> QED BY <2>2, <2>5, <2>6
<1> QED BY <1>2, <1>3

LEMMA FollowAndDropKeeps ==
  ASSUME HriInv, FollowAndDrop
  PROVE  HriInv'
<1>1. At("follow", "start") /\ UNCHANGED <<scene, faces, described>> /\ (Again \/ Ended) /\ Counted
  BY FaultsOf DEF FollowAndDrop, Counted
<1>2. verdict = "running" /\ step = 12
  BY <1>1, AtStep
<1>3. Moved /\ Counted
  BY <1>1 DEF Moved
<1>4. hasBag' \in BOOLEAN /\ bag' \in {"owner", "hand", "floor"}
  <2>1. hasBag' \in {hasBag, FALSE} /\ bag' \in {bag, "floor"}
    BY DEF FollowAndDrop, bagVars
  <2>2. hasBag' \in BOOLEAN
    BY <2>1, BagTyped, Zenon
  <2> QED BY <2>1, <2>2, BagTyped
<1>5. CASE UNCHANGED <<attire, causes>>
  <2>1. UNCHANGED <<faces, attire>> /\ mapped' = mapped /\ where' = where
        /\ robotAt' = robotAt /\ described' = described /\ causes' = causes
    BY <1>1, <1>5 DEF scene
  <2> QED BY <1>2, <1>3, <1>4, <2>1, QuietStep DEF memory
<1>6. CASE Refresh
  <2>1. PICK found \in {{}} \cup Looked(faces, attire, {Host}, Present) :
          /\ attire' \in {attire, Dressed(attire, Host, {c[2] : c \in found})}
          /\ causes' = IF {c[2] : c \in found} \subseteq {Host} THEN causes
                       ELSE causes \cup {"mistaken"}
    BY <1>6 DEF Refresh
  <2> DEFINE p == {c[2] : c \in found}
  <2>2. \A c \in found : c[2] \in Present
    BY LookedIsSound DEF LabelOf
  <2>3. p \in SUBSET Shown
    BY <2>2, PresentAreKnown DEF Shown
  <2>4. attire' = attire \/ attire' = Dressed(attire, Host, p)
    BY <2>1
  <2>5. causes \subseteq causes' /\ (p \subseteq {Host} \/ causes' # {})
    BY <2>1
  <2> HIDE DEF p
  <2>6. /\ attire' \in [Ids -> SUBSET Shown]
        /\ \A o \in Ids \ {Host} : Foreign(o)' <=> Foreign(o)
        /\ p \subseteq {Host} /\ ~Foreign(Host) => ~Foreign(Host)'
    BY <1>1, <2>3, <2>4, IdsAre, DressKeeps DEF HriInv
  <2>7. faces' = faces /\ UNCHANGED <<mapped, robotAt, where, described>>
    BY <1>1 DEF scene
  <2>8. /\ step' \in 1..12 /\ tries' \in {0, 1} /\ phase' \in Phases
        /\ verdict' \in {verdict, "complete", "stopped"}
        /\ step' = step \/ step' = step + 1
    BY <1>3, TaskMoves DEF HriInv, Moved
  <2>9. faults' \in Nat /\ faults' <= MaxFaults
    BY <1>3, FaultsCounted DEF HriInv, Counted
  <2>10. HriTypeOK'
    <3>1. described' \in BOOLEAN /\ mapped' \in BOOLEAN
      BY <2>7, Zenon DEF HriInv, HriTypeOK
    <3> QED BY <1>2, <1>4, <2>6, <2>7, <2>8, <2>9, <3>1 DEF HriInv, HriTypeOK, Verdicts
  <2>11. Doors' /\ Room'
    BY <1>2, <2>5, <2>7, <2>8, LaterSteps
  <2>12. Unstarted'
    BY <1>2, <2>8 DEF Unstarted
  <2>13. RecordsHaveCause'
    BY <1>2, <2>5, <2>6, HostRecordWritten
  <2> QED BY <2>10, <2>11, <2>12, <2>13 DEF HriInv
<1> QED BY <1>5, <1>6 DEF FollowAndDrop

LEMMA HriStep == HriInv /\ [Next]_vars => HriInv'
<1> SUFFICES ASSUME HriInv, [Next]_vars PROVE HriInv'
  OBVIOUS
<1>1. CASE PrepareRun
  BY <1>1, PrepareRunKeeps
<1>2. ASSUME NEW g \in Guests, GoToDoor(g) PROVE HriInv'
  BY <1>2, GoToDoorKeeps
<1>3. ASSUME NEW g \in Guests, Greet(g) PROVE HriInv'
  BY <1>3, GreetKeeps
<1>4. ASSUME NEW g \in Guests, Guide(g) PROVE HriInv'
  BY <1>4, GuideKeeps
<1>5. ASSUME NEW g \in Guests, Sweep(g) PROVE HriInv'
  BY <1>5, SweepKeeps
<1>6. ASSUME NEW g \in Guests, LookAround(g) \/ PickSeat(g) \/ WaitSeated(g) PROVE HriInv'
  BY <1>6, OfferKeeps
<1>7. CASE OpenHand \/ CloseHand
  BY <1>7, BagKeeps
<1>8. CASE Audit \/ Introduce
  BY <1>8, LateKeeps
<1>9. CASE FollowAndDrop
  BY <1>9, FollowAndDropKeeps
<1>10. CASE Guest
  BY <1>10, GuestKeeps
<1>11. CASE UNCHANGED vars
  <2>1. UNCHANGED <<step, tries, phase, verdict, faults, mapped, robotAt, where, faces, attire,
                    described, hasBag, bag, causes>>
    BY <1>11 DEF vars, task, scene, memory, bagVars
  <2>2. RecordsHaveCause'
    BY <2>1 DEF HriInv, RecordsHaveCause, Foreign
  <2>3. Doors' /\ Room' /\ Unstarted'
    BY <2>1 DEF HriInv, Doors, Room, Unstarted
  <2>4. HriTypeOK'
    BY <2>1 DEF HriInv, HriTypeOK
  <2> QED BY <2>2, <2>3, <2>4 DEF HriInv
<1> QED BY <1>1, <1>2, <1>3, <1>4, <1>5, <1>6, <1>7, <1>8, <1>9, <1>10, <1>11 DEF Next, Robot

THEOREM HriInvariant == Spec => []HriInv
<1>1. Init => HriInv
  BY HriStart
<1>2. HriInv /\ [Next]_vars => HriInv'
  BY HriStep
<1> QED BY <1>1, <1>2, PTL DEF Spec

(* The state of the task keeps its types. *)
THEOREM HriTypeCorrect == Spec => []HriTypeOK
<1>1. HriInv => HriTypeOK
  BY DEF HriInv
<1> QED BY <1>1, HriInvariant, PTL

(* A record holds the looks of somebody else only with a cause, for every number *)
(* of failed calls, whoever dresses alike and whatever the cameras show.         *)
THEOREM RecordsTheorem == Spec => []RecordsHaveCause
<1>1. HriInv => RecordsHaveCause
  BY DEF HriInv
<1> QED BY <1>1, HriInvariant, PTL

(***************************************************************************)
(* The labels.                                                             *)
(***************************************************************************)

(* A look at people is sound if its labels are, with the memory as it is then. *)
LEMMA LooksSound ==
  ASSUME NEW wanted, NEW found, \A c \in found : LabelOf(wanted, c), Margins,
         Looks(found), UNCHANGED memory
  PROVE  LabelsHaveCause'
<1>1. mistaken' = {c \in found : c[1] # c[2]}
  BY DEF Looks
<1>2. \A c \in mistaken' : MayMix(c[1], c[2])
  BY <1>1 DEF LabelOf
<1>3. \A id, p : MayMix(id, p)' <=> MayMix(id, p)
  BY DEF memory, MayMix, Foreign
<1>4. \A c \in mistaken' : MayMix(c[1], c[2])'
  BY <1>2, <1>3
<1> QED BY <1>4 DEF LabelsHaveCause, MayMix

LEMMA NobodySeen ==
  ASSUME Looks({})
  PROVE  LabelsHaveCause'
BY DEF Looks, LabelsHaveCause

LEMMA RefreshSound ==
  ASSUME HriTypeOK, Margins, faces' = faces, Refresh
  PROVE  LabelsHaveCause'
<1>1. PICK found \in {{}} \cup Looked(faces, attire, {Host}, Present) :
          /\ Looks(found)
          /\ attire' \in {attire, Dressed(attire, Host, {c[2] : c \in found})}
  BY DEF Refresh
<1>2. \A c \in found : LabelOf({Host}, c)
  BY LookedIsSound
<1>3. CASE attire' = attire
  BY <1>1, <1>2, <1>3, LooksSound DEF memory
<1>4. CASE attire' = Dressed(attire, Host, {c[2] : c \in found})
  <2>1. mistaken' = {c \in found : c[1] # c[2]}
    BY <1>1 DEF Looks
  <2>2. ASSUME NEW c \in mistaken' PROVE Foreign(c[1])'
    <3>1. c \in found /\ c[1] = Host /\ c[2] # Host
      BY <1>2, <2>1, <2>2 DEF LabelOf
    <3> DEFINE p == {d[2] : d \in found}
    <3>2. c[2] \in p
      BY <3>1
    <3>3. attire' = Dressed(attire, Host, p)
      BY <1>4
    <3> HIDE DEF p
    <3>4. attire'[Host] = p
      BY <3>2, <3>3, IdsAre DEF Dressed, HriTypeOK
    <3>5. c[2] \in attire'[Host] \ {Host}
      BY <3>1, <3>2, <3>4
    <3> QED BY <3>1, <3>5 DEF Foreign
  <2> QED BY <2>2 DEF LabelsHaveCause
<1> QED BY <1>1, <1>3, <1>4

LEMMA FoundSound ==
  ASSUME NEW wanted, NEW found,
         found \in {{}} \cup Looked(faces, attire, wanted, Present)
                     \cup Swept(faces, attire, wanted, Present)
  PROVE  \A c \in found : LabelOf(wanted, c)
BY LookedIsSound, SweptIsSound

LEMMA LabelStep ==
  ASSUME HriTypeOK, Margins, LabelsHaveCause, [Next]_vars
  PROVE  LabelsHaveCause'
<1>1. CASE PrepareRun \/ OpenHand \/ CloseHand \/ Audit \/ Guest
  BY <1>1, NobodySeen DEF PrepareRun, OpenHand, CloseHand, Audit, Guest, Arrive, SitDown, Moves
<1>2. ASSUME NEW g \in Guests, GoToDoor(g) \/ Greet(g) \/ Guide(g) \/ Sweep(g) \/ PickSeat(g)
      PROVE  LabelsHaveCause'
  BY <1>2, NobodySeen DEF GoToDoor, Greet, Guide, Sweep, PickSeat
<1>3. ASSUME NEW g \in Guests, LookAround(g) PROVE LabelsHaveCause'
  <2>1. UNCHANGED memory
    BY <1>3 DEF LookAround
  <2>2. CASE Looks({})
    BY <2>2, NobodySeen
  <2>3. CASE \E found \in Swept(faces, attire, Ids \ {Id(g)}, Present) : Looks(found)
    BY <2>1, <2>3, FoundSound, LooksSound
  <2> QED BY <1>3, <2>2, <2>3 DEF LookAround
<1>4. ASSUME NEW g \in Guests, WaitSeated(g) PROVE LabelsHaveCause'
  <2>1. UNCHANGED memory
    BY <1>4 DEF WaitSeated
  <2>2. CASE Looks({})
    BY <2>2, NobodySeen
  <2>3. CASE \E found \in {{}} \cup Looked(faces, attire, {Id(g)}, Present) : Looks(found)
    BY <2>1, <2>3, FoundSound, LooksSound
  <2> QED BY <1>4, <2>2, <2>3 DEF WaitSeated
<1>5. CASE Introduce
  <2>1. UNCHANGED memory
    BY <1>5 DEF Introduce
  <2>2. CASE Looks({})
    BY <2>2, NobodySeen
  <2>3. CASE \E found \in {{}} \cup Swept(faces, attire, {Id(1), Id(2)}, Present) : Looks(found)
    BY <2>1, <2>3, FoundSound, LooksSound
  <2> QED BY <1>5, <2>2, <2>3 DEF Introduce
<1>6. CASE FollowAndDrop
  <2>1. faces' = faces
    BY <1>6 DEF FollowAndDrop
  <2>2. Looks({}) \/ Refresh
    BY <1>6 DEF FollowAndDrop
  <2> QED BY <2>1, <2>2, NobodySeen, RefreshSound
<1>7. CASE UNCHANGED vars
  BY <1>7 DEF vars, memory, LabelsHaveCause, Foreign
<1> QED BY <1>1, <1>2, <1>3, <1>4, <1>5, <1>6, <1>7 DEF Next, Robot

(* Nobody is labelled as somebody else without a cause: with the weights such    *)
(* that clothes alone do not carry a label over a face that disagrees, and any   *)
(* margin at all, two people whose records are their own, clothes included, and  *)
(* of whom one has a face on record, are never taken for one another.            *)
THEOREM LabelsTheorem == ASSUME Margins PROVE Spec => []LabelsHaveCause
<1>1. Init => LabelsHaveCause
  BY DEF Init, LabelsHaveCause
<1>2. HriTypeOK /\ LabelsHaveCause /\ [Next]_vars => LabelsHaveCause'
  BY LabelStep
<1> QED BY <1>1, <1>2, HriTypeCorrect, PTL DEF Spec
=============================================================================

---------------------------- MODULE Recognition ----------------------------
(***************************************************************************)
(* Who is who: the people memory's three collections and the labelling of *)
(* the people in a camera sweep (walkie_world/people/store.py and          *)
(* tasks/HRI/identity.py).                                                  *)
(*                                                                         *)
(* A vector is abstracted to the set of people whose looks were averaged   *)
(* into it.  A row of the main collection is such a set ({} is the zero    *)
(* vector of an enrolment without a face) or NoRow.  Attire is compared    *)
(* across people, so two of them may dress alike (Alike).  Similarities    *)
(* are percentages.                                                        *)
(***************************************************************************)
EXTENDS Integers, FiniteSets, FiniteSetsExt

CONSTANTS People,      \* everyone a camera may show, and those of earlier runs
          Ids,         \* the ids people are enrolled under, each named for one
          Alike,       \* the sets of two people in similar clothes
          MinScore,    \* FUSION_DEFAULTS["min_score"]
          FaceWeight,  \* the weight of a face of high confidence
          BoxMargin    \* HRI_LOCATE_BOX_MARGIN

ASSUME RecognitionAssumption ==
    /\ Ids \subseteq People
    /\ MinScore \in 1..100 /\ FaceWeight \in 0..100 /\ BoxMargin \in 0..100

NoRow == {"no row"}

\* A frame: the people whose bodies the pose model finds, and those of them
\* whose face is near and clear enough to be trusted.
Frames(present) ==
    UNION {{[seen |-> s, faced |-> f] : f \in SUBSET s} : s \in SUBSET present}

----------------------------------------------------------------------------
(* PeopleStore *)

\* enroll: the main collection folds the new face into the running mean ...
Folded(faces, id, face) ==
    [faces EXCEPT ![id] = IF @ = NoRow THEN face ELSE @ \cup face]

\* ... and the second collection keeps the latest clothes, if any were seen.
Dressed(attire, id, clothes) ==
    [attire EXCEPT ![id] = IF clothes = {} THEN @ ELSE clothes]

FaceSim(face, p) ==
    IF p \notin face THEN 0 ELSE IF Cardinality(face) = 1 THEN 100 ELSE 70

AttireSim(clothes, p) ==
    IF \E q \in clothes : p = q \/ {p, q} \in Alike THEN 100 ELSE 30

\* _fused_candidates: the ids one sight of p can be scored against.
Scorable(faces, attire, withFace) ==
    {id \in Ids : /\ faces[id] # NoRow
                  /\ \/ attire[id] # {}
                     \/ withFace /\ faces[id] # {}}

Score(faces, attire, withFace, id, p) ==
    LET f == FaceSim(faces[id], p)
        a == AttireSim(attire[id], p)
    IN  IF withFace /\ faces[id] # {}
        THEN IF attire[id] # {}
             THEN (FaceWeight * f + (100 - FaceWeight) * a) \div 100
             ELSE f
        ELSE a

----------------------------------------------------------------------------
(* _best_injective_assignment and _assign_boxes, on one frame *)

\* The pairs an assignment may use.
Feasible(faces, attire, wanted, boxes) ==
    {c \in (wanted \cap Scorable(faces, attire, TRUE)) \X boxes :
        Score(faces, attire, TRUE, c[1], c[2]) >= MinScore}

Injective(pairs) ==
    \A c, d \in pairs : (c[1] = d[1] \/ c[2] = d[2]) => c = d

Total(faces, attire, pairs) ==
    MapThenSumSet(LAMBDA c : Score(faces, attire, TRUE, c[1], c[2]), pairs)

\* The assignments of largest total; the order of the detections picks one.
Optimal(faces, attire, wanted, boxes) ==
    UNION {{m \in all : \A o \in all : Total(faces, attire, o) <= Total(faces, attire, m)}
           : all \in {{m \in SUBSET Feasible(faces, attire, wanted, boxes) : Injective(m)}}}

\* What the box an id was assigned is worth to it.
Home(faces, attire, m, id) ==
    LET own == {c \in m : c[1] = id}
    IN  IF own = {} THEN 0 ELSE
        LET c == CHOOSE c \in own : TRUE IN Score(faces, attire, TRUE, c[1], c[2])

\* The best score on p's box of the other ids that would rather have it.
RunnerUp(faces, attire, m, id, p) ==
    LET others == {o \in Scorable(faces, attire, TRUE) \ {id} :
                     Score(faces, attire, TRUE, o, p) > Home(faces, attire, m, o)}
    IN  Max({0} \cup {Score(faces, attire, TRUE, o, p) : o \in others})

Confident(faces, attire, m) ==
    {c \in m : Score(faces, attire, TRUE, c[1], c[2])
                  - RunnerUp(faces, attire, m, c[1], c[2]) >= BoxMargin}

AssignBoxes(faces, attire, wanted, f) ==
    {Confident(faces, attire, m) : m \in Optimal(faces, attire, wanted, f.faced)}

----------------------------------------------------------------------------
(* locate_people, on a sweep of two frames *)

\* The faces of both frames are merged, the better sighting of an id first.
\* byFace1 and byFace2 are the two frames' confident assignments.
Sightings(byFace1, byFace2) ==
    {<<c[1], c[2], 1>> : c \in byFace1} \cup {<<c[1], c[2], 2>> : c \in byFace2}

\* One sighting of every id seen, none with a smaller score than another.
ByFace(faces, attire, s) ==
    {m \in SUBSET s :
        /\ {c[1] : c \in m} = {c[1] : c \in s}
        /\ \A c, d \in m : c[1] = d[1] => c = d
        /\ \A c \in m, d \in s : c[1] = d[1] =>
             Score(faces, attire, TRUE, d[1], d[2]) <= Score(faces, attire, TRUE, c[1], c[2])}

\* Mutant: the best id on the box is not compared with the others.
SpeaksAlone(faces, attire, missing, id, p) ==
    /\ id \in missing \cap Scorable(faces, attire, FALSE)
    /\ Score(faces, attire, FALSE, id, p) >= MinScore

\* The attire of a box that no face claimed speaks for an id still missing
\* when that id beats every other one on this box by the margin.
Speaks(faces, attire, missing, id, p) ==
    /\ id \in missing \cap Scorable(faces, attire, FALSE)
    /\ Score(faces, attire, FALSE, id, p) >= MinScore
    /\ \A o \in Scorable(faces, attire, FALSE) \ {id} :
         Score(faces, attire, FALSE, id, p) - Score(faces, attire, FALSE, o, p) >= BoxMargin

\* The bodies whose attire can speak for somebody wanted.
Telling(faces, attire, wanted, seen) ==
    {p \in seen : \E id \in wanted : Speaks(faces, attire, wanted, id, p)}

\* m: what the faces said; bodies[k]: those seen in frame k that may tell.
ByAttire(faces, attire, missing, m, bodies) ==
    {s \in missing \X (bodies[1] \cup bodies[2]) \X {1, 2} :
        /\ s[2] \in bodies[s[3]]
        /\ <<s[2], s[3]>> \notin {<<c[2], c[3]>> : c \in m}
        /\ Speaks(faces, attire, missing, s[1], s[2])}

\* One sighting of every id in s, no box twice.
OneEach(s) ==
    {n \in SUBSET s :
        /\ {c[1] : c \in n} = {c[1] : c \in s}
        /\ \A c, d \in n : (c[1] = d[1] \/ <<c[2], c[3]>> = <<d[2], d[3]>>) => c = d}

\* What one frame gives: the bodies that may tell and the faces' assignment.
Reading(faces, attire, wanted, present) ==
    UNION {{<<Telling(faces, attire, wanted, f.seen), m>>
              : m \in AssignBoxes(faces, attire, wanted, f)} : f \in Frames(present)}

\* The labellings of two frames so read: sets of <<id, person>>, one per id.
Labellings(faces, attire, wanted, v, w) ==
    {{<<c[1], c[2]>> : c \in l} : l \in
        UNION {{m \cup n : n \in UNION {OneEach(s) : s \in
                   {ByAttire(faces, attire, wanted \ {c[1] : c \in m}, m, <<v[1], w[1]>>)}}}
               : m \in UNION {ByFace(faces, attire, s) : s \in {Sightings(v[2], w[2])}}}}

\* Every labelling a sweep of two frames, or a single frame, may end with.
Swept(faces, attire, wanted, present) ==
    UNION {UNION {Labellings(faces, attire, wanted, v[1], v[2]) : v \in read \X read}
           : read \in {Reading(faces, attire, wanted, present)}}

Looked(faces, attire, wanted, present) ==
    UNION {Labellings(faces, attire, wanted, v, <<{}, {}>>)
           : v \in Reading(faces, attire, wanted, present)}
=============================================================================

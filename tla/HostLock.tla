------------------------------ MODULE HostLock ------------------------------
(***************************************************************************)
(* Whom the robot follows: select_person_to_follow (tasks/HRI/identity.py) *)
(* picks a box out of each frame by face, then by attire near the last box,*)
(* then by attire anywhere, and FollowSelector decides whether to trust it.*)
(*                                                                         *)
(* A frame places each person it shows at one of a few spots, near or far, *)
(* the face to the camera or not.  Similarities are percents, given for    *)
(* every enrolled id and every person.                                     *)
(***************************************************************************)
EXTENDS FollowLock, Integers

CONSTANTS
  People,
  Host,             \* the person, and the id, to follow
  Face, Attire,     \* Face[id][person]: similarity, for ids that have the vector
  Places,           \* where in the image
  Floor,            \* APPEARANCE_MATCH_THRESHOLD
  ReacquireFloor,   \* HRI_FOLLOW_REACQUIRE_MIN_SCORE
  IdMargin,         \* HRI_FOLLOW_FACE_MARGIN and HRI_FOLLOW_APPEARANCE_MARGIN
  VisibleMargin,    \* HRI_FOLLOW_VISIBLE_MARGIN
  ReacquireMargin,  \* HRI_FOLLOW_REACQUIRE_MARGIN
  ProximityWeight,  \* HRI_FOLLOW_PROXIMITY_WEIGHT
  NonHostBelow,     \* 1 - FACE_MATCH_THRESHOLD - HRI_FOLLOW_NONHOST_FACE_MARGIN
  GateRadius        \* HRI_FOLLOW_GATE_RADIUS_SCALE, in places

VARIABLES
  matched,  \* the box this tick's frame matched, or none
  audit     \* of this tick: wide, what attire alone would have matched with no
            \* gate; byFace; faced, who showed a face that is not the host's

allVars == <<vars, matched, audit>>

(* What the margins can tell apart: an enrolled person resembles the host's    *)
(* vectors by less than the margin more than their own.                        *)
Told(sims) ==
  \A id \in DOMAIN sims \ {Host} :
    Host \in DOMAIN sims => sims[Host][id] - sims[id][id] < IdMargin

ASSUME HostLockAssumption ==
  /\ Host \in People /\ Places \subseteq Int
  /\ Boxes = [who : People, at : Places]
  /\ \A sims \in {Face, Attire} :
       /\ DOMAIN sims \subseteq People
       /\ sims \in [DOMAIN sims -> [People -> Int]]
       /\ Told(sims)
  /\ {Floor, ReacquireFloor, IdMargin, VisibleMargin, ReacquireMargin,
      ProximityWeight, NonHostBelow, GateRadius} \subseteq Nat

-----------------------------------------------------------------------------
(* A frame: the people it shows, each at a place of his own. *)
Sights == [at : Places, near : BOOLEAN, facing : BOOLEAN]
Views ==
  {v \in UNION {[shown -> Sights] : shown \in SUBSET People} :
     \A p, q \in DOMAIN v : p # q => v[p].at # v[q].at}

Box(view, p) == [who |-> p, at |-> view[p].at]
Scale(view, p) == IF view[p].near THEN 2 ELSE 1

(* A face is clear when it is big enough for a hard decision. *)
Clear(view, p) == view[p].facing /\ view[p].near

(* Mutant: a box needs no lead over the other enrolled people. *)
IsHostAlone(sims, p, floor) ==
  Host \in DOMAIN sims /\ sims[Host][p] >= floor

(* The host clears the floor, and beats every other id by the margin. *)
IsHost(sims, p, floor) ==
  /\ Host \in DOMAIN sims /\ sims[Host][p] >= floor
  /\ \A id \in DOMAIN sims \ {Host} : sims[Host][p] - sims[id][p] >= IdMargin

MatchFloor == IF Reacquiring /\ ReacquireFloor > Floor THEN ReacquireFloor ELSE Floor
Margin == IF Reacquiring THEN ReacquireMargin ELSE VisibleMargin

(* _pick_closest_qualifier: the best by similarity and nearness, unless a      *)
(* runner-up in view is about as similar.  The set of the boxes it may return. *)
Closest(view, sims, people) ==
  LET top == IF \E p \in people : view[p].near THEN 2 ELSE 1
      Combined(p) == sims[Host][p] + (ProximityWeight * Scale(view, p)) \div top
      best == {p \in people : \A q \in people : Combined(q) <= Combined(p)}
      Ambiguous(p) == \E q \in people \ {p} : sims[Host][p] - sims[Host][q] < Margin
  IN  IF people = {} THEN {NoBox}
      ELSE {IF Margin > 0 /\ Ambiguous(p) THEN NoBox ELSE Box(view, p) : p \in best}

(* _match_by_face *)
ByFace(view) ==
  LET trusted == {p \in DOMAIN view : view[p].facing /\ (Reacquiring => view[p].near)}
  IN  Closest(view, Face, {p \in trusted : IsHost(Face, p, MatchFloor)})

(* _select_by_attire on some of the candidates *)
ByAttire(view, cands) ==
  Closest(view, Attire, {p \in cands : IsHost(Attire, p, MatchFloor)})

(* _box_shows_nonhost_face *)
ShowsAnother(view, p) ==
  Clear(view, p) /\ Host \in DOMAIN Face /\ Face[Host][p] < NonHostBelow

(* Mutant: the face that is not the host's is not looked at. *)
KeepAll(view) == DOMAIN view

(* _drop_nonhost_face_candidates *)
NotFaced(view) == {p \in DOMAIN view : ~ShowsAnother(view, p)}

(* _gate_candidates: those near the last box, all if there is none. *)
Gated(view, cands) ==
  IF lastBox = NoBox THEN cands
  ELSE {p \in cands : view[p].at - lastBox.at \in (-GateRadius)..GateRadius}

(* _attire_pass: near the last box first, and everywhere when that finds none. *)
AttirePass(view, cands) ==
  LET gated == Gated(view, cands)
      found == ByAttire(view, gated)
  IN  IF gated = cands THEN found
      ELSE (found \ {NoBox}) \cup IF NoBox \in found THEN ByAttire(view, cands) ELSE {}

(* select_person_to_follow *)
Candidates(view) == IF RunFace THEN NotFaced(view) ELSE DOMAIN view
Select(view) ==
  LET face == IF RunFace THEN ByFace(view) ELSE {NoBox}
  IN  (face \ {NoBox})
      \cup IF NoBox \in face THEN AttirePass(view, Candidates(view)) ELSE {}

-----------------------------------------------------------------------------
HostInit ==
  /\ Init
  /\ matched = NoBox
  /\ audit = [wide |-> {NoBox}, byFace |-> FALSE, faced |-> {}]

(* One tick of the follow loop: FollowSelector.__call__. *)
Look(view) ==
  \E box \in Select(view) :
    /\ Tick(box)
    /\ matched' = box
    /\ audit' = [wide   |-> ByAttire(view, Candidates(view)),
                 byFace |-> box # NoBox /\ RunFace /\ box \in ByFace(view),
                 faced  |-> {p \in DOMAIN view : RunFace /\ ShowsAnother(view, p)}]

HostNext == \E view \in Views : Look(view)
HostSpec == HostInit /\ [][HostNext]_allVars

-----------------------------------------------------------------------------
(* Another enrolled person is never driven to, however alike they are dressed, *)
(* wherever the gate looks first: the margin over the person's own vectors     *)
(* stands in the way of every pass (fused_scores, _match_by_face,              *)
(* _score_attire_candidates).                                                  *)
EnrolledNotFollowed ==
  answer # NoBox => answer.who \notin (DOMAIN Face \cap DOMAIN Attire) \ {Host}

(* In a tick that looked at faces nobody is matched who showed one that is     *)
(* clearly another's (_drop_nonhost_face_candidates): the host's double, who   *)
(* took the host's place in the picture and looks at the robot.                *)
FacedNotMatched == matched # NoBox => matched.who \notin audit.faced

(* Docstring of _attire_pass: the gate is a "shortcut" that "can never lock    *)
(* onto the wrong person": somebody else is matched by attire only if looking  *)
(* everywhere would have matched them too.  The code falsifies it (README,     *)
(* section 6), and no run checks it.                                           *)
GateNeverMisleads ==
  matched # NoBox /\ ~audit.byFace /\ matched.who # Host => matched \in audit.wide

(* Docstring of FollowSelector: while a lost lock is re-acquired "a one-frame  *)
(* fluke on a look-alike never commits": who gets the lock was matched in the  *)
(* tick before, too.  The code falsifies it (README, section 6), and no run    *)
(* checks it.                                                                  *)
FlukeNeverCommits ==
  [][Reacquiring /\ locked' /\ ConfirmTicks > 1
       => matched # NoBox /\ matched.who = matched'.who]_allVars
=============================================================================

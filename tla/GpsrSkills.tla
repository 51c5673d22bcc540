----------------------------- MODULE GpsrSkills -----------------------------
(***************************************************************************)
(* The Tier-1 skills of tasks/GPSR/skills.py: what each may leave behind.  *)
(*                                                                         *)
(* What a skill sees, hears or says is a free choice.  What it does to the *)
(* robot's place and to the nav-dedup state["at"] is not, and a name is    *)
(* resolved as WalkieWorld.resolve_place resolves it: to the surveyed      *)
(* place itself, to a surveyed one of a like name, or to a remembered      *)
(* object.  A skill that raises has failed where it was.                   *)
(***************************************************************************)
EXTENDS GpsrPlan

CONSTANTS
  Places,       \* rooms and locations with a name
  NoPlace,      \* a step that names no place; a cache that claims none
  Between,      \* anywhere else, the map's origin included
  Surveyed,     \* places with a surveyed pose
  Posed,        \* places with any pose: the surveyed, and the [0,0,0] placeholders
  Alike,        \* for each place, the locations a token, category or typo confuses it with
  Seeded,       \* places that are nodes of the scene, too
  Reacquire     \* GPSR_GUIDE_REACQUIRE

ASSUME SkillsAssumption ==
  /\ {NoPlace, Between} \cap Places = {} /\ NoPlace # Between
  /\ Surveyed \subseteq Posed /\ Posed \subseteq Places /\ Seeded \subseteq Places
  /\ Alike \in [Places -> SUBSET Places]
  /\ Reacquire \in BOOLEAN

Everywhere == Places \cup {Between}

(* A skill under way: how it stands, where the robot is, what the scratch dict
   claims, and whether the robot was moved without the dict being told. *)
Standing(w, a) == [ok |-> TRUE, where |-> w, at |-> a, astray |-> FALSE]
Failed(d) == [d EXCEPT !.ok = FALSE]
Either(d) == {[d EXCEPT !.ok = ok] : ok \in BOOLEAN}

-----------------------------------------------------------------------------
(* Places *)

Anchor(kind, place) == [kind |-> kind, place |-> place]

(* waypoint_for: a hit of the scene graph that is a surveyed place of the map is
   driven to, any other hit is an object to approach. *)
SceneHits ==
  {Anchor("pose", p) : p \in Seeded \cap Surveyed}
  \cup {Anchor("point", NoPlace), Anchor("nothing", NoPlace)}

(* resolve_place of a canonical name. *)
Resolve(name) ==
  IF name \in Surveyed THEN {Anchor("pose", name)}
  ELSE IF Alike[name] \cap Surveyed # {}
  THEN {Anchor("pose", p) : p \in Alike[name] \cap Surveyed}
  ELSE SceneHits

(* _drive_to_pose: a drive that fails leaves the robot where it was or on the
   way, and the dict as it was. *)
DriveToPose(name, pose, d) ==
  {[d EXCEPT !.ok = TRUE, !.where = pose, !.at = name, !.astray = @ \/ pose # name],
   Failed(d),
   [d EXCEPT !.ok = FALSE, !.where = Between, !.astray = TRUE]}

(* go_to_named: skipped when the cache says so.  A place known from the scene
   only counts as reached whether or not the approach got there; one that cannot
   be resolved raises. *)
GoToNamed(name, d) ==
  IF d.at = name THEN {[d EXCEPT !.ok = TRUE]}
  ELSE UNION {CASE r.kind = "pose"    -> DriveToPose(name, r.place, d)
                [] r.kind = "point"   -> {[d EXCEPT !.ok = TRUE, !.where = x, !.at = name,
                                                    !.astray = TRUE] : x \in {d.where, Between}}
                [] r.kind = "nothing" -> {Failed(d)} : r \in Resolve(name)}

GoIfNamed(name, d) == IF name = NoPlace THEN {d} ELSE GoToNamed(name, d)

-----------------------------------------------------------------------------
(* Looking.  None of it moves the robot: a turn on the spot stays in place. *)

(* _detect, _people: a detector that fails has seen nothing. *)
Seen == {"none", "found"}

(* _match_attire: one of those in view, or nobody. *)
MatchAttire == {"none", "found"}

(* No frame, nothing, or a match; a person by gesture, attire or nearness. *)
DetectHere         == {"no_frame"} \cup Seen
DetectPersonInView == {"no_frame"} \cup (Seen \cap {"none"}) \cup MatchAttire

(* _find_person_match: scan a full turn when the forward view is empty; a camera
   that fails later leaves the earlier frame to answer. *)
FindPersonMatch == UNION {IF s = "none" THEN {"none", "found"} ELSE {s} : s \in DetectPersonInView}

(* _count_people_scanning, _count_objects_stable: no frame at any stop, or a number. *)
CountPeopleScanning == {"no_frame", "counted"}
CountObjectsStable  == {"no_frame", "counted"}

(* _find_via_memory: drive to where the scene graph last saw the object, if it
   remembers one; the cache is dropped first.  Not finding it is an answer. *)
FindViaMemory(d) ==
  {d} \cup UNION {Either([d EXCEPT !.where = x, !.at = NoPlace]) : x \in {d.where, Between}}

-----------------------------------------------------------------------------
(* The skills, from where the robot is *)

Navigate(step, d) == IF step.place = NoPlace THEN {Failed(d)} ELSE GoToNamed(step.place, d)

FindObject(step, d) ==
  UNION {UNION {CASE s = "no_frame" -> {Failed(e)}
                  [] s = "found"    -> Either(e)
                  [] s = "none"     -> {Failed(e)} \cup FindViaMemory([e EXCEPT !.ok = TRUE]) :
                s \in DetectHere} : e \in GoIfNamed(step.place, d)}

(* An answer is a success, whatever it says; without a frame there is none. *)
Answered(e, sights) == {[e EXCEPT !.ok = s # "no_frame"] : s \in sights}

FindPerson(step, d) ==
  UNION {Answered(e, FindPersonMatch) : e \in GoIfNamed(step.place, d)}

Count(step, d) ==
  UNION {Answered(e, CountPeopleScanning \cup CountObjectsStable) : e \in GoIfNamed(step.place, d)}

(* It greets whether or not it saw anybody; turning the head may raise. *)
Greet(step, d) == UNION {Either(e) : e \in GoIfNamed(step.place, d)}

Say(step, d) == Either(d)
GetPersonInfo(step, d) == Either(d)
GetObjectProperty(step, d) == Either(d)

(* follow_person, ended by the ArrivalStopper, the time-out or a lost leader: the
   robot is wherever the leader went and the cache is not told. *)
Follow(step, d) ==
  {Failed(d)} \cup UNION {Either([d EXCEPT !.where = x, !.astray = TRUE]) : x \in Everywhere}

(* _lead_with_reacquire: hop by hop, looking back in between; the pose is not
   checked for being a placeholder. *)
LeadWithReacquire(name, d) ==
  {Failed(d),
   [d EXCEPT !.ok = FALSE, !.where = Between, !.astray = TRUE],
   IF name \in Surveyed THEN [d EXCEPT !.ok = TRUE, !.where = name, !.at = name]
   ELSE [d EXCEPT !.ok = TRUE, !.where = Between, !.at = name, !.astray = TRUE]}

LeadTo(name, d) ==
  IF ~Reacquire THEN GoToNamed(name, d)
  ELSE IF d.at = name THEN {[d EXCEPT !.ok = TRUE]}
  ELSE IF name \notin Posed THEN {Failed(d)}
  ELSE LeadWithReacquire(name, d)

Guide(step, d) ==
  UNION {{Failed(e)} \cup (IF step.to = NoPlace THEN {} ELSE LeadTo(step.to, e)) :
           e \in GoIfNamed(step.place, d)}

(* pick and place work at the furniture the robot stands at. *)
Pick(step, d)  == UNION {Either(e) : e \in GoIfNamed(step.place, d)}
Place(step, d) == UNION {Either(e) : e \in GoIfNamed(step.place, d)}

(* SKILLS; "deliver" has none. *)
HasSkill == {"navigate", "find_object", "find_person", "follow", "guide", "count", "say",
             "greet", "get_person_info", "get_object_property", "pick", "place"}

SkillResults(step, w, a) ==
  LET d == Standing(w, a) IN
  CASE step.prim = "navigate"            -> Navigate(step, d)
    [] step.prim = "find_object"         -> FindObject(step, d)
    [] step.prim = "find_person"         -> FindPerson(step, d)
    [] step.prim = "follow"              -> Follow(step, d)
    [] step.prim = "guide"               -> Guide(step, d)
    [] step.prim = "count"               -> Count(step, d)
    [] step.prim = "say"                 -> Say(step, d)
    [] step.prim = "greet"               -> Greet(step, d)
    [] step.prim = "get_person_info"     -> GetPersonInfo(step, d)
    [] step.prim = "get_object_property" -> GetObjectProperty(step, d)
    [] step.prim = "pick"                -> Pick(step, d)
    [] step.prim = "place"               -> Place(step, d)

-----------------------------------------------------------------------------
(* The agents of _scoped_fallback *)

Actuated == {"navigate", "guide", "follow", "pick", "place", "deliver"}

(* Mutant: the cache survives an agent that moved the robot. *)
FallbackKeepingPlace(step, w, a) ==
  LET d == Standing(w, a) IN
  {Failed(d)} \cup
  IF step.prim \in Actuated THEN {[d EXCEPT !.where = x] : x \in Everywhere} ELSE {d}

(* No brain, no clause or no route; the vision agent, which never moves; the
   actuator, which may leave the robot anywhere and whose success drops the cache
   -- but not its failure half-way. *)
FallbackResults(step, w, a) ==
  LET d == Standing(w, a) IN
  {Failed(d)} \cup
  IF step.prim \in Actuated
  THEN {[d EXCEPT !.where = x, !.at = NoPlace] : x \in Everywhere}
       \cup {[d EXCEPT !.ok = FALSE, !.where = x, !.astray = TRUE] : x \in Everywhere}
  ELSE {d}
=============================================================================

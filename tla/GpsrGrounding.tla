---------------------------- MODULE GpsrGrounding ----------------------------
(***************************************************************************)
(* ground_step of tasks/GPSR/parse.py: the loose step the language model   *)
(* extracted from a command becomes a typed one, with a gap for each noun  *)
(* the arena's vocabulary does not know.  A word is what the vocabulary    *)
(* makes of it; the wording itself is left out.                            *)
(***************************************************************************)
EXTENDS GpsrSkills

CONSTANT Unknown    \* a word for a place that the vocabulary does not know

ASSUME UnknownAssumption == Unknown \notin Places \cup {NoPlace}

Words == Places \cup {NoPlace, Unknown}

(* RawStep, field by field; "none" is a field left null. *)
RawStep ==
  [prim : HasSkill \cup {"deliver", "other"},
   location : Words, room : Words, to : Words, from : Words,
   object : {"none", "known", "category", "generic", "people", "unknown"},
   person : {"none", "operator", "known", "unknown"},
   kind : {"none", "name", "gesture", "clothing"},
   which : {"none", "known", "unknown"}, info : BOOLEAN]

(* PlanStep: where its skill goes first, where it leads to, and the gaps. *)
Grounded(place, to, gaps) == [place |-> place, to |-> to, gaps |-> gaps]

(* world.location, world.room, and either. *)
Location(w) == IF w \in Places \ Rooms THEN w ELSE NoPlace
Room(w)     == IF w \in Places \cap Rooms THEN w ELSE NoPlace
Anywhere(w) == IF w \in Places THEN w ELSE NoPlace

Or(p, q) == IF p # NoPlace THEN p ELSE q

(* _ground: a word that was said and not found is a gap. *)
Gap(field, said, found) == IF said # NoPlace /\ found = NoPlace THEN {field} ELSE {}

ObjectGap(raw) == IF raw.object \in {"unknown", "people"} THEN {"object"} ELSE {}

(* _ground_person: names and gestures must be known, a description need not. *)
PersonGap(raw) ==
  IF raw.person = "unknown" /\ raw.kind \in {"name", "gesture"} THEN {"person"} ELSE {}

(* _ground_person_where: a room or a beacon, both read from the room field. *)
PersonWhere(raw) ==
  Grounded(Anywhere(raw.room), NoPlace, PersonGap(raw) \cup Gap("room", raw.room, Anywhere(raw.room)))

WhichGap(raw) == IF raw.which = "known" THEN {} ELSE {"which"}

GroundNavigate(raw) ==
  LET text == Or(raw.location, Or(raw.room, raw.to)) IN
  Grounded(Anywhere(text), NoPlace, Gap("target", text, Anywhere(text)))

(* An unknown room leaves no gap, and excuses none. *)
GroundFindObject(raw) ==
  Grounded(Or(Location(raw.location), Room(raw.room)), NoPlace,
           ObjectGap(raw) \cup
           IF Room(raw.room) # NoPlace THEN {} ELSE Gap("location", raw.location, Location(raw.location)))

GroundPick(raw) ==
  Grounded(Location(raw.location), NoPlace,
           ObjectGap(raw) \cup Gap("location", raw.location, Location(raw.location)))

(* A place to put something must be named and known. *)
GroundPlace(raw) ==
  Grounded(Location(raw.location), NoPlace,
           ObjectGap(raw) \cup IF Location(raw.location) = NoPlace THEN {"location"} ELSE {})

(* The recipient is grounded as a person. *)
GroundDeliver(raw) ==
  Grounded(Room(raw.room), NoPlace, ObjectGap(raw) \cup PersonGap(raw))

GroundFollow(raw) == Grounded(NoPlace, Anywhere(raw.to), PersonGap(raw))

GroundGuide(raw) ==
  LET to == Anywhere(Or(raw.to, raw.location)) IN
  Grounded(Anywhere(raw.from), to, PersonGap(raw) \cup IF to = NoPlace THEN {"to"} ELSE {})

CountsPeople(raw) == raw.person # "none" \/ raw.kind # "none" \/ raw.object = "people"

GroundCount(raw) ==
  IF CountsPeople(raw) THEN PersonWhere(raw)
  ELSE Grounded(Or(Location(raw.location), Room(raw.room)), NoPlace,
                ObjectGap(raw) \cup Gap("location", raw.location, Location(raw.location)))

(* ground_step: a primitive that does not exist is a sentence nobody asked for. *)
Ground(raw) ==
  CASE raw.prim = "navigate"    -> GroundNavigate(raw)
    [] raw.prim = "find_object" -> GroundFindObject(raw)
    [] raw.prim = "pick"        -> GroundPick(raw)
    [] raw.prim = "place"       -> GroundPlace(raw)
    [] raw.prim = "deliver"     -> GroundDeliver(raw)
    [] raw.prim = "follow"      -> GroundFollow(raw)
    [] raw.prim = "guide"       -> GroundGuide(raw)
    [] raw.prim = "count"       -> GroundCount(raw)
    [] raw.prim \in {"find_person", "greet"} -> PersonWhere(raw)
    [] raw.prim = "get_person_info"     -> Grounded(NoPlace, NoPlace, WhichGap(raw))
    [] raw.prim = "get_object_property" -> Grounded(NoPlace, NoPlace, ObjectGap(raw) \cup WhichGap(raw))
    [] raw.prim = "say"   -> Grounded(NoPlace, NoPlace, IF raw.info THEN {} ELSE {"info"})
    [] raw.prim = "other" -> Grounded(NoPlace, NoPlace, {"primitive"})

PlanStep(raw) ==
  LET g == Ground(raw) IN
  [prim |-> IF raw.prim = "other" THEN "say" ELSE raw.prim,
   place |-> g.place, to |-> g.to, grounded |-> g.gaps = {}]

(* ground_plan: step by step; parse_command: nothing where the model gave nothing. *)
GroundPlan(raws) == [i \in 1..Len(raws) |-> PlanStep(raws[i])]

(* step_location: what the scheduler takes for the place of a step. *)
StepLocation(step) ==
  IF step.prim \in {"say", "get_person_info", "get_object_property", "follow"} THEN NoPlace
  ELSE step.place
=============================================================================

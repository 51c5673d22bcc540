------------------------------ MODULE GpsrPlan ------------------------------
(***************************************************************************)
(* The pure half of the GPSR executor: the interleave scheduler of         *)
(* tasks/GPSR/schedule.py and the policies of tasks/GPSR/plan.py.          *)
(*                                                                         *)
(* Commands are their ids.  For the scheduler a plan is the sequence of    *)
(* the regions of its steps, NoRoom for a step that acts wherever the      *)
(* robot is.  A command that is not scheduled has the empty plan.          *)
(***************************************************************************)
EXTENDS Naturals, Sequences, FiniteSets, SequencesExt

CONSTANTS
  Commands,   \* ids of the operator's commands
  Rooms,
  NoRoom      \* region of a location-agnostic step, and of a robot not placed yet

ASSUME PlanAssumption ==
  /\ Commands \subseteq Nat /\ IsFiniteSet(Commands)
  /\ NoRoom \notin Rooms

Regions == Rooms \cup {NoRoom}

-----------------------------------------------------------------------------
(* interleave(): the state of its loop is the order built so far, a count of
   scheduled steps per command, and the room the robot will be in. *)

Unscheduled == [order |-> <<>>, ptr |-> [c \in Commands |-> 0], room |-> NoRoom]

Pending(plans, s) == {c \in Commands : s.ptr[c] < Len(plans[c])}
NextRegion(plans, s, c) == plans[c][s.ptr[c] + 1]

(* Commands whose next step needs no travel. *)
Here(plans, s) ==
  {c \in Pending(plans, s) : NextRegion(plans, s, c) \in {NoRoom, s.room}}

(* Mutant: the commands take turns. *)
TakeTurns(plans, s) ==
  CHOOSE c \in Pending(plans, s) :
    \A d \in Pending(plans, s) :
      s.ptr[c] < s.ptr[d] \/ (s.ptr[c] = s.ptr[d] /\ c <= d)

(* The lowest id that can go on here, else the lowest id that can go on. *)
NextCommand(plans, s) ==
  IF Here(plans, s) # {} THEN Min(Here(plans, s)) ELSE Min(Pending(plans, s))

(* Mutant: the pointer of the lowest pending command moves, whoever was served. *)
AdvanceLowest(plans, s) ==
  LET c == NextCommand(plans, s)
      r == NextRegion(plans, s, c)
  IN  [order |-> Append(s.order, <<c, s.ptr[c] + 1>>),
       ptr   |-> [s.ptr EXCEPT ![Min(Pending(plans, s))] = @ + 1],
       room  |-> IF r = NoRoom THEN s.room ELSE r]

Advance(plans, s) ==
  LET c == NextCommand(plans, s)
      r == NextRegion(plans, s, c)
  IN  [order |-> Append(s.order, <<c, s.ptr[c] + 1>>),
       ptr   |-> [s.ptr EXCEPT ![c] = @ + 1],
       room  |-> IF r = NoRoom THEN s.room ELSE r]

(* The steps of all the plans, <<command, index>>. *)
StepsOf(plans) == UNION {{c} \X (1..Len(plans[c])) : c \in Commands}
TotalSteps(plans) == Cardinality(StepsOf(plans))

Interleaved(plans) ==
  LET run[k \in 0..TotalSteps(plans)] ==
        IF k = 0 THEN Unscheduled ELSE Advance(plans, run[k - 1])
  IN  run[TotalSteps(plans)].order

-----------------------------------------------------------------------------
(* What a run of the steps does to the robot.  A run is the set of the pairs of
   steps <<x, y>> with x before y. *)

Scheduled(order) ==
  {<<order[p[1]], order[p[2]]>> :
     p \in {q \in (1..Len(order)) \X (1..Len(order)) : q[1] < q[2]}}

(* One command after another, each to its end: the serial executor. *)
InTurn(plans) ==
  {p \in StepsOf(plans) \X StepsOf(plans) :
     \/ p[1][1] < p[2][1]
     \/ p[1][1] = p[2][1] /\ p[1][2] < p[2][2]}

RegionAt(plans, x) == plans[x[1]][x[2]]
Located(plans) == {x \in StepsOf(plans) : RegionAt(plans, x) # NoRoom}

(* The scheduler knows the region a step starts from and nothing else.  Where a
   step ends is for the skill: a guide goes on to its `to`, a follow wherever the
   leader goes, a search to where the object was last seen, an agent anywhere; the
   others (NoRoom) stay where they are. *)
EndAt(plans, ends, x) ==
  IF ends[x[1]][x[2]] = NoRoom THEN RegionAt(plans, x) ELSE ends[x[1]][x[2]]
Placing(plans, ends) == {x \in StepsOf(plans) : EndAt(plans, ends, x) # NoRoom}

(* The steps that end in another region than they start from. *)
Leaving(plans, ends) == {x \in StepsOf(plans) : EndAt(plans, ends, x) # RegionAt(plans, x)}

(* The robot is still where x left it when it comes to y. *)
Leads(plans, ends, run, x, y) ==
  /\ <<x, y>> \in run
  /\ \A z \in Placing(plans, ends) : ~(<<x, z>> \in run /\ <<z, y>> \in run)

(* The steps the robot must first change room for, the first one included; the
   way a guide or a follow goes itself is the same in every run. *)
Trips(plans, ends, run) ==
  {y \in Located(plans) :
     \A x \in Placing(plans, ends) :
       Leads(plans, ends, run, x, y) => EndAt(plans, ends, x) # RegionAt(plans, y)}

Travels(plans, ends, run) == Cardinality(Trips(plans, ends, run))

-----------------------------------------------------------------------------
(* plan.py: prefer_tier1 and summarize_status. *)

Manipulation == {"pick", "place", "deliver"}

PreferTier1(step, manip) ==
  step.grounded /\ (step.prim \in Manipulation => manip)

Summarize(oks) ==
  IF \A i \in 1..Len(oks) : ~oks[i] THEN "FAILED"
  ELSE IF \A i \in 1..Len(oks) : oks[i] THEN "DONE"
  ELSE "PARTIAL"
=============================================================================

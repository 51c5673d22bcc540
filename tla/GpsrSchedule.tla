---------------------------- MODULE GpsrSchedule ----------------------------
(***************************************************************************)
(* The loop of interleave() in tasks/GPSR/schedule.py, one iteration per   *)
(* step, over every batch of plans: what the room-batched order of the     *)
(* GPSR interleave bonus is, and how it compares with running the commands *)
(* one after another.                                                      *)
(***************************************************************************)
EXTENDS GpsrPlan

CONSTANTS
  MaxSteps,    \* bound: steps of a plan
  MaxLeaving   \* bound: steps of the batch that end in another room

VARIABLES
  plans,    \* the regions each command's steps start from
  ends,     \* the regions they end in, unknown to the scheduler; NoRoom: where they are
  s         \* the loop: order, ptr, room

LoopInit ==
  /\ plans \in [Commands -> UNION {[1..n -> Regions] : n \in 0..MaxSteps}]
  /\ \E away \in SUBSET StepsOf(plans) : \E to \in [away -> Rooms] :
       /\ Cardinality(away) <= MaxLeaving
       /\ ends = [c \in Commands |-> [i \in 1..Len(plans[c]) |->
                   IF <<c, i>> \in away THEN to[<<c, i>>] ELSE NoRoom]]
  /\ s = Unscheduled

Iterate ==
  /\ Pending(plans, s) # {}
  /\ s' = Advance(plans, s)
  /\ UNCHANGED <<plans, ends>>

LoopSpec == LoopInit /\ [][Iterate]_<<plans, ends, s>>

Finished == Pending(plans, s) = {}

-----------------------------------------------------------------------------
(* Properties *)

(* Type correctness of the scheduler's loop. *)
LoopTypeOK ==
  /\ plans \in [Commands -> Seq(Regions)]
  /\ ends \in [Commands -> Seq(Regions)]
  /\ s.order \in Seq(Commands \X Nat)
  /\ s.ptr \in [Commands -> Nat]
  /\ s.room \in Regions

(* "A command's step i always precedes its step i+1": of two entries of the
   same command the earlier one is the earlier step. *)
StepOrderKept ==
  \A j, k \in 1..Len(s.order) :
    j < k /\ s.order[j][1] = s.order[k][1] => s.order[j][2] < s.order[k][2]

(* "Every step appears exactly once": nothing is scheduled that is not a step
   of a plan, and when the loop ends no step of any plan is missing (that none
   comes twice is StepOrderKept). *)
EveryStepScheduled ==
  /\ \A k \in 1..Len(s.order) :
       s.order[k][1] \in Commands /\ s.order[k][2] \in 1..Len(plans[s.order[k][1]])
  /\ Finished => \A c \in Commands : \A i \in 1..Len(plans[c]) :
       \E k \in 1..Len(s.order) : s.order[k] = <<c, i>>

(* The bonus asks for "reducing unnecessary movements", and interleave() plans as
   if a step left the robot where it starts.  A batch of such steps changes room
   at most as often as the serial run; each step that ends elsewhere (a guide, a
   follow, an agent) may cost two changes of room more, and no more than that. *)
DetoursBounded ==
  Finished =>
    Travels(plans, ends, Scheduled(s.order))
      <= Travels(plans, ends, InTurn(plans)) + 2 * Cardinality(Leaving(plans, ends))

(* The docstring's "removes the back-and-forth a strictly-serial run makes",
   without the exception.  The code falsifies it (README, section 6), and no run
   checks it. *)
NeverMoreTravel ==
  Finished =>
    Travels(plans, ends, Scheduled(s.order)) <= Travels(plans, ends, InTurn(plans))
=============================================================================

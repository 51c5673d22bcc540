---------------------------- MODULE Manipulation ----------------------------
(***************************************************************************)
(* Picking objects up and putting them down (tasks/skills/grasp.py         *)
(* pick_object, place.py place_object), and the record of what each arm    *)
(* holds (held.py), which is kept on the blackboard and never compared     *)
(* with the gripper.                                                       *)
(*                                                                         *)
(* Geometry is left out.  Distance to the target has bands: within the     *)
(* trigger of the approach, within the arm's reach, within the tolerance   *)
(* of a failed drive, and farther.  Detection may find nothing, a surface  *)
(* may have no room, an arm may refuse a pose: those are answers.  A call  *)
(* that raises, and a gripper effort that misleads, is a fault.            *)
(***************************************************************************)
EXTENDS Integers, FiniteSets

CONSTANTS Objects, Places,
          ApproachAttempts, \* retries + 1 of approach_object (3)
          GraspAttempts,    \* WALKIE_GRASP_RETRY_ATTEMPTS (3)
          Far,              \* the farthest band
          MaxFaults         \* bound: how many calls fail in a run

Hands == {"left", "right"}
Arms == Hands \cup {"auto"}  \* what a caller may name
Floor == "floor"
TriggerBand == 0
ReachBand == 1
ToleranceBand == 2

ASSUME ManipulationAssumption ==
    /\ Places \cap (Hands \cup {Floor}) = {}
    /\ ApproachAttempts \in Nat /\ GraspAttempts \in Nat /\ MaxFaults \in Nat
    /\ Far \in Nat /\ Far > ToleranceBand

VARIABLES
    op, ph,       \* "none", "pick" or "place", and where in it
    hand,         \* the arm the call uses
    dist, prev,   \* distance to the target, prev_dist of the approach
    tries,        \* attempts of the loop being run
    good,         \* `succeeded` of execute_grasp and execute_place
    answer,       \* "none", "yes", "no" or "raised"
    guarded,      \* hands whose gripper collision checking is on
    held,         \* hands with a held-object record
    where,        \* where each object is: a place, a hand or the floor
    at,           \* where the robot is
    faults,       \* faults so far
    misled        \* hands a fault or a reuse has put at odds with their record

progress == <<dist, prev, tries, good>>
arms == <<guarded, held, where, misled>>
mvars == <<op, ph, hand, progress, answer, arms, at, faults>>

Holding(h) == {o \in Objects : where[o] = h}
Faulty == faults < MaxFaults /\ faults' = faults + 1
Fine == UNCHANGED faults

ArmsInit ==
    /\ op = "none" /\ ph = "idle" /\ hand = "left"
    /\ dist = TriggerBand /\ prev = Far /\ tries = 0 /\ good = FALSE
    /\ answer = "none"
    /\ guarded = Hands /\ held = {} /\ misled = {} /\ faults = 0

Answer(a) == answer' = a /\ op' = "none" /\ ph' = "idle"
Go(p) == ph' = p /\ UNCHANGED <<op, answer>>
\* A call that raises out of the skill.
Raise == Faulty /\ Answer("raised")

----------------------------------------------------------------------------
(* approach_object, used by both *)

ApproachDone == IF op = "pick" THEN "relocate" ELSE "align"
ApproachMoved == IF op = "pick" THEN "relocate" ELSE "rescan"

GivesUp(d) == tries + 1 >= ApproachAttempts \/ (tries > 0 /\ prev <= d)

Leaves == dist' = TriggerBand /\ prev' = Far /\ tries' = 0

\* One drive.  It ends anywhere; a failed one within the tolerance will do, and
\* one that came no closer than the last is not repeated.  Cancelling a drive
\* that timed out may raise.  Where it ended is measured again by the caller.
Approach ==
    /\ ph = "approach"
    /\ \/ dist = TriggerBand /\ Fine /\ Go(ApproachDone) /\ Leaves
       \/ /\ dist # TriggerBand
          /\ \/ Fine /\ Go(ApproachMoved) /\ Leaves
             \/ \E d \in (ToleranceBand + 1)..Far :
                  /\ Fine
                  /\ IF GivesUp(d)
                     THEN Answer("no") /\ Leaves
                     ELSE Go(ph) /\ dist' = d /\ prev' = d /\ tries' = tries + 1
       \/ Raise /\ Leaves
    /\ UNCHANGED <<hand, good, arms, at>>

----------------------------------------------------------------------------
(* pick_object *)

StartPick(arm) ==   \* with "auto" the side the object is on decides
    /\ op = "none" /\ answer = "none"
    /\ op' = "pick" /\ ph' = "locate"
    /\ hand' \in IF arm = "auto" THEN Hands ELSE {arm}
    /\ UNCHANGED <<progress, answer, arms, at, faults>>

InView == {o \in Objects : where[o] = at}

\* Both arms home, then the nearest detection; the object may be too low.  The
\* commands to the arms and the lift are not guarded.
Locate ==
    /\ ph = "locate"
    /\ \/ Fine /\ Answer("no") /\ UNCHANGED dist
       \/ Raise /\ UNCHANGED dist
       \/ /\ InView # {} /\ dist' \in TriggerBand..Far
          /\ Fine /\ Go("approach")
    /\ UNCHANGED <<hand, prev, tries, good, arms, at>>

\* Two servos that move the base a little, without the planner: sideways until an
\* arm lines up (strafe_servo), and back and aside by so much (creep_base_relative).
\* Either may be blocked, blind or out of time, and stops where it is; nobody asks.
Strafed(d) == {d, d + 1}
Crept(d) == {d, d + 1}

\* A fresh look, and the base moved sideways until the arm lines up.
Relocate ==
    /\ ph = "relocate"
    /\ \/ Fine /\ Answer("no") /\ UNCHANGED dist
       \/ Raise /\ UNCHANGED dist
       \/ /\ InView # {} /\ dist' \in UNION {Strafed(d) : d \in TriggerBand..ToleranceBand}
          /\ Fine /\ Go("plan")
    /\ UNCHANGED <<hand, prev, tries, good, arms, at>>

\* The cloud for a plan is fused from the snapshots that agree with the nearest;
\* one that shows an object is enough.
CloudPossible == InView # {}

\* The one plan of a grasp, from where the robot stands now.  It looks again: there
\* may be nothing to see, no grasp, or one that is too low.
PlanGrasp ==
    /\ ph = "plan"
    /\ \/ Fine /\ Go("restore")
       \/ Raise
       \/ CloudPossible /\ Fine /\ Go("reach")
    /\ UNCHANGED <<hand, progress, arms, at>>

\* execute_grasp_with_retry, the top of its loop.
GraspReach ==
    /\ ph = "reach"
    /\ IF dist > ReachBand THEN Go("restore") ELSE Go("open")
    /\ good' = FALSE
    /\ UNCHANGED <<hand, dist, prev, tries, arms, at, faults>>

\* The gripper opens, ready to receive: whatever it held falls, and the record
\* stays.  It may raise before or after (or the call that takes collision checking
\* off, which has no effect then), or answer that it failed, which nobody reads.
OpenHand ==
    /\ ph = "open"
    /\ \/ /\ \/ Fine /\ Go("grasp")
             \/ Faulty /\ Go("tidy")
          /\ where' = [o \in Objects |-> IF where[o] = hand THEN Floor ELSE where[o]]
          /\ misled' = misled \cup ({hand} \cap held)
       \/ Faulty /\ (Go("grasp") \/ Go("tidy")) /\ UNCHANGED <<where, misled>>
    /\ UNCHANGED <<hand, progress, guarded, held, at>>

\* Collision checking goes off for the two moves; either may fail, or the
\* fingers close beside the object, or on what they never let go of.
Grasp ==
    /\ ph = "grasp"
    /\ \/ Fine /\ Go("tidy") /\ guarded' = guarded \ {hand} /\ UNCHANGED where
       \/ Faulty /\ Go("tidy") /\ guarded' \in {guarded, guarded \ {hand}} /\ UNCHANGED where
       \/ /\ Fine /\ Go("check") /\ guarded' = guarded \ {hand}
          /\ \/ UNCHANGED where
             \/ /\ Holding(hand) = {}
                /\ \E o \in InView : where' = [where EXCEPT ![o] = hand]
    /\ UNCHANGED <<hand, progress, held, misled, at>>

\* Lifted, the effort of the gripper tells whether there is something in it; a
\* thin object, or a jammed gripper, tells the wrong thing.
CheckEffort ==
    /\ ph = "check" /\ Go("tidy")
    /\ \/ Fine /\ good' = (Holding(hand) # {}) /\ UNCHANGED misled
       \/ /\ Faulty /\ good' \in {Holding(hand) = {}, FALSE}  \* the reading, or a raise
          /\ misled' = misled \cup {hand}
    /\ UNCHANGED <<hand, dist, prev, tries, guarded, held, where, at>>

GuardsAfterSuccess ==  \* mutant: an aborted grasp leaves collision checking off
    /\ ph = "tidy" /\ op = "pick"
    /\ Fine /\ guarded' = IF good THEN guarded \cup {hand} ELSE guarded
    /\ IF good \/ tries + 1 >= GraspAttempts
       THEN Go(IF good THEN "record" ELSE "restore") /\ UNCHANGED <<dist, tries>>
       ELSE Go("reach") /\ tries' = tries + 1 /\ dist' \in Crept(dist)
    /\ UNCHANGED <<hand, prev, good, held, where, misled, at>>

\* The finally of execute_grasp, and the base moved a little for another try: the
\* first look at the odometry of that move is not guarded.
TidyGrasp ==
    /\ ph = "tidy" /\ op = "pick"
    /\ \/ /\ \/ Fine /\ guarded' = guarded \cup {hand}
             \/ Faulty /\ UNCHANGED guarded
          /\ IF good \/ tries + 1 >= GraspAttempts
             THEN /\ Go(IF good THEN "record" ELSE "restore")
                  /\ UNCHANGED <<dist, tries>>
             ELSE /\ Go("reach") /\ tries' = tries + 1
                  /\ dist' \in Crept(dist)
       \/ /\ ~ good /\ tries + 1 < GraspAttempts
          /\ guarded' = guarded \cup {hand}
          /\ Raise /\ UNCHANGED <<dist, tries>>
    /\ UNCHANGED <<hand, prev, good, held, where, misled, at>>

\* One record per arm, on the blackboard; a new one replaces the last.
Recorded == held \cup {hand}

\* A clean grasp is recorded, then both arms go into the travel pose; only the
\* record is left if that raises.
Record ==
    /\ ph = "record"
    /\ held' = Recorded
    /\ misled' = IF Holding(hand) # {} THEN misled \ {hand} ELSE misled
    /\ \/ Fine /\ Go("restore")
       \/ Raise
    /\ UNCHANGED <<hand, progress, guarded, where, at>>

\* The heading the pick started from.
RestoreHeading ==
    /\ ph = "restore"
    /\ \/ Fine /\ Answer(IF good THEN "yes" ELSE "no")
       \/ Raise
    /\ UNCHANGED <<hand, progress, arms, at>>

----------------------------------------------------------------------------
(* place_object *)

\* The arm with a record: with none, or with two, "auto" is no answer.
HandToEmpty(arm, h) ==
    /\ h \in held
    /\ IF arm = "auto" THEN held = {h} ELSE h = arm

StartPlace(arm) ==
    /\ op = "none" /\ answer = "none"
    /\ IF \E h \in Hands : HandToEmpty(arm, h)
       THEN /\ op' = "place" /\ ph' = "scan" /\ UNCHANGED answer
            /\ \E h \in Hands : HandToEmpty(arm, h) /\ hand' = h
       ELSE answer' = "no" /\ UNCHANGED <<op, ph, hand>>
    /\ UNCHANGED <<progress, arms, at, faults>>

\* The scene cloud and the level surfaces in it.
ScanSurfaces ==
    /\ ph = "scan"
    /\ \/ Fine /\ Answer("no")
       \/ Raise
       \/ Fine /\ Go("choose")
    /\ UNCHANGED <<hand, progress, arms, at>>

\* The nearest surface with room, if any, high enough for the arm; the arms and
\* the lift are readied.
ChooseSurface ==
    /\ ph = "choose"
    /\ \/ Fine /\ Answer("no") /\ UNCHANGED dist
       \/ Raise /\ UNCHANGED dist
       \/ dist' \in TriggerBand..Far /\ Fine /\ Go("approach")
    /\ UNCHANGED <<hand, prev, tries, good, arms, at>>

\* The base moved: scan again, and take the surface nearest to the one chosen,
\* or go on with the old spot when none is seen.
Rescan ==
    /\ ph = "rescan"
    /\ \/ Fine /\ Go("align") /\ dist' \in TriggerBand..ToleranceBand
       \/ Raise /\ UNCHANGED dist
    /\ UNCHANGED <<hand, prev, tries, good, arms, at>>

\* Sideways until the arm lines up; then the spot is in reach or it is not.
AlignAndReach ==
    /\ ph = "align" /\ Fine
    /\ dist' \in Strafed(dist)
    /\ IF dist' > ReachBand THEN Answer("no") ELSE Go("lay")
    /\ UNCHANGED <<hand, prev, tries, good, arms, at>>

\* Above the spot, in the wrist pose of the grasp or from the top, and down.
Lay ==
    /\ ph = "lay"
    /\ \/ Fine /\ Go("release") /\ guarded' = guarded \ {hand}
       \/ Fine /\ Go("tidy") /\ guarded' = guarded \ {hand}
       \/ Faulty /\ Go("tidy") /\ guarded' \in {guarded, guarded \ {hand}}
    /\ UNCHANGED <<hand, progress, held, where, misled, at>>

PutDown == [o \in Objects |-> IF where[o] = hand THEN at ELSE where[o]]

\* The gripper opens, the arm draws back and goes home.  A call that raises
\* once the fingers are open leaves the object down and the record up; a gripper
\* that answers it did not open leaves the object up and the record goes.
Release ==
    /\ ph = "release" /\ Go("tidy")
    /\ \/ Fine /\ good' = TRUE /\ where' = PutDown /\ UNCHANGED misled
       \/ Faulty /\ good' = FALSE /\ where' = PutDown /\ misled' = misled \cup {hand}
       \/ Faulty /\ good' = FALSE /\ UNCHANGED <<where, misled>>
       \/ Faulty /\ good' = TRUE /\ UNCHANGED where /\ misled' = misled \cup {hand}
    /\ UNCHANGED <<hand, dist, prev, tries, guarded, held, at>>

\* With nothing in the hand and no record the two agree again.
Settled == IF good /\ Holding(hand) = {} THEN misled \ {hand} ELSE misled

ForgetsAnyway ==  \* mutant: the record is dropped whatever came of the release
    /\ ph = "tidy" /\ op = "place"
    /\ Fine /\ guarded' = guarded \cup {hand}
    /\ held' = held \ {hand}
    /\ misled' = Settled
    /\ Answer(IF good THEN "yes" ELSE "no")
    /\ UNCHANGED <<hand, progress, where, at>>

\* The finally of execute_place; the record is dropped for a clean release.
TidyPlace ==
    /\ ph = "tidy" /\ op = "place"
    /\ \/ Fine /\ guarded' = guarded \cup {hand}
       \/ Faulty /\ UNCHANGED guarded
    /\ held' = IF good THEN held \ {hand} ELSE held
    /\ misled' = Settled
    /\ Answer(IF good THEN "yes" ELSE "no")
    /\ UNCHANGED <<hand, progress, where, at>>

----------------------------------------------------------------------------

\* Whoever calls the skills: hears the answer, drives about, and calls again.
\* The locals of the call are gone.
Hear ==
    /\ answer # "none" /\ answer' = "none"
    /\ hand' = "left" /\ Leaves /\ good' = FALSE
    /\ UNCHANGED <<op, ph, arms, at, faults>>

DriveTo(p) ==
    /\ op = "none" /\ at' = p
    /\ UNCHANGED <<op, ph, hand, progress, answer, arms, faults>>

Init == ArmsInit /\ at \in Places /\ where \in [Objects -> Places]

PickStep == Locate \/ Relocate \/ PlanGrasp \/ GraspReach \/ OpenHand \/ Grasp \/ CheckEffort
            \/ TidyGrasp \/ Record \/ RestoreHeading
PlaceStep == ScanSurfaces \/ ChooseSurface \/ Rescan \/ AlignAndReach \/ Lay \/ Release \/ TidyPlace
ArmStep == Approach \/ PickStep \/ PlaceStep
Call == \/ Hear
        \/ \E arm \in Arms : StartPick(arm) \/ StartPlace(arm)
        \/ \E p \in Places : DriveTo(p)

Spec == Init /\ [][ArmStep \/ Call]_mvars

TypeOK ==
    /\ op \in {"none", "pick", "place"}
    /\ ph \in {"idle", "locate", "approach", "relocate", "plan", "reach", "open", "grasp",
               "check", "tidy", "record", "restore", "scan", "choose", "rescan", "align", "lay", "release"}
    /\ hand \in Hands
    /\ dist \in Nat /\ prev \in Nat /\ tries \in Nat
    /\ good \in BOOLEAN
    /\ answer \in {"none", "yes", "no", "raised"}
    /\ guarded \subseteq Hands /\ held \subseteq Hands /\ misled \subseteq Hands
    /\ where \in [Objects -> Places \cup Hands \cup {Floor}]
    /\ at \in Places /\ faults \in Nat

\* Between calls the record of an arm is right unless something has put it
\* wrong since it was last right: a pick that opened a gripper that held
\* something, a gripper effort that misled, a gripper that did not let go, or a
\* call that raised while the fingers were closed on something or had just let
\* go of it (held.py, "What the robot is currently carrying").
Agree(h) == (h \in held <=> Holding(h) # {}) \/ h \in misled
RecordHasCause == \A h \in Hands : Agree(h) \/ (op # "none" /\ h = hand)

\* "The object held in *arm*, or None if that arm is empty" (held.py:92).  The
\* code falsifies it (README, section 6), and no run checks it.
RecordIsHeld == op = "none" => \A h \in held : Holding(h) # {}

\* Between calls both grippers are back under collision checking, unless a
\* call failed.
ArmsLeftSafe == op = "none" /\ faults = 0 => guarded = Hands
=============================================================================

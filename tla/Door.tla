-------------------------------- MODULE Door --------------------------------
(***************************************************************************)
(* Driving through a door that people open (tasks/skills/door.py):         *)
(* request_open_door asks and watches, go_to_through_door drives, looks at *)
(* the door when the drive fails, asks, and drives again.                  *)
(*                                                                         *)
(* Distance to the goal has three bands: at the goal, past the doorway, at *)
(* the doorway.  People open the door, leave it ajar or let it fall shut   *)
(* whenever they please: at every look, and for every drive, it is in any  *)
(* state.  What is said while waiting and the pauses are left out.         *)
(***************************************************************************)
EXTENDS Integers

CONSTANTS DoorAttempts, \* rounds of go_to_through_door (2)
          SpokenRounds, \* `attempts` of request_open_door (3)
          MaxWait,      \* WALKIE_DOOR_WAIT_SEC in polls; 0 is for ever
          ConfirmReads  \* WALKIE_DOOR_CONFIRM_READS

ASSUME DoorAssumption ==
    /\ DoorAttempts \in Nat /\ SpokenRounds \in Nat
    /\ MaxWait \in Nat /\ ConfirmReads \in Nat

GoalBand == 0
PastBand == 1
DoorBand == 2

VARIABLES
    gap,      \* how far the goal is: GoalBand, PastBand or DoorBand
    through,  \* what runs: "none", "request" or "through"
    dph,      \* where in it
    askOpen,  \* ask_even_if_open
    rounds,   \* rounds done, of either loop
    prevGap,  \* prev_dist
    streak, waited,  \* _wait_for_open
    reply     \* "none", "yes", "no" or "raised"

call == <<through, askOpen>>
watch == <<streak, waited>>
doorVars == <<gap, call, dph, rounds, prevGap, watch, reply>>

DoorInit ==
    /\ through = "none" /\ dph = "idle" /\ askOpen = FALSE /\ reply = "none"
    /\ gap = DoorBand /\ prevGap = DoorBand /\ rounds = 0 /\ streak = 0 /\ waited = 0

----------------------------------------------------------------------------
(* The world *)

DoorStates == {"closed", "ajar", "open"}

\* is_door_open: a door ajar may read either way, a camera without depth says
\* "blind".
ReadsOf(door) == {"blind"} \cup CASE door = "closed" -> {"shut"}
                                 [] door = "open" -> {"clear"}
                                 [] OTHER -> {"shut", "clear"}
Reads == UNION {ReadsOf(door) : door \in DoorStates}

\* Where a drive may end: past the doorway only with the door open.
EndsAt(door) == IF gap = DoorBand /\ door # "open" THEN {DoorBand} ELSE GoalBand..gap
Ends == UNION {EndsAt(door) : door \in DoorStates}

----------------------------------------------------------------------------
(* request_open_door *)

Reply(r) == reply' = r /\ through' = "none" /\ dph' = "idle" /\ UNCHANGED askOpen

\* What the caller of request_open_door does next: go_to_through_door drives
\* again whatever came of it.
Asked(r) ==
    IF through = "request" THEN Reply(r) ELSE dph' = "again" /\ UNCHANGED <<call, reply>>

RequestOpenDoor ==
    /\ through = "none" /\ reply = "none"
    /\ through' = "request" /\ dph' = "look"
    /\ UNCHANGED <<gap, askOpen, rounds, prevGap, watch, reply>>

\* Two reads: the first decides whether the door is open already, the second
\* whether the camera can tell at all.  The head may refuse to tilt.
Look ==
    /\ dph = "look"
    /\ \/ Asked("yes") /\ UNCHANGED watch   \* it reads clear
       \/ /\ \E second \in Reads :
               dph' = IF second = "blind" THEN "listen" ELSE "watch"
          /\ streak' = 0 /\ waited' = 0
          /\ UNCHANGED <<call, reply>>
       \/ Reply("raised") /\ UNCHANGED watch
    /\ UNCHANGED <<gap, rounds, prevGap>>

WatchForEver ==  \* mutant: the time-out is forgotten
    /\ dph = "watch"
    /\ \E read \in Reads :
         LET seen == IF read = "clear" THEN streak + 1 ELSE 0 IN
         \/ seen >= ConfirmReads /\ seen > 0 /\ Asked("yes") /\ UNCHANGED watch
         \/ /\ seen < ConfirmReads
            /\ streak' = seen
            /\ UNCHANGED <<call, dph, waited, reply>>
    /\ UNCHANGED <<gap, rounds, prevGap>>

\* One poll of _wait_for_open.
WatchDoor ==
    /\ dph = "watch"
    /\ \E read \in Reads :
         LET seen == IF read = "clear" THEN streak + 1 ELSE 0 IN
         \/ seen >= ConfirmReads /\ seen > 0 /\ Asked("yes") /\ UNCHANGED watch
         \/ /\ seen < ConfirmReads \/ seen = 0
            /\ MaxWait > 0 /\ waited >= MaxWait
            /\ Asked("no") /\ UNCHANGED watch
         \/ /\ seen < ConfirmReads \/ seen = 0
            /\ MaxWait = 0 \/ waited < MaxWait
            /\ streak' = seen
            /\ waited' = IF MaxWait = 0 THEN 0 ELSE waited + 1
            /\ UNCHANGED <<call, dph, reply>>
    /\ UNCHANGED <<gap, rounds, prevGap>>

\* The spoken flow; `waited` counts its rounds.
ListenAtDoor ==
    /\ dph = "listen"
    /\ \/ Asked("yes") /\ UNCHANGED watch     \* seen open, or somebody says so
       \/ IF waited + 1 >= SpokenRounds
          THEN Asked("no") /\ UNCHANGED watch
          ELSE waited' = waited + 1 /\ UNCHANGED <<call, dph, streak, reply>>
    /\ UNCHANGED <<gap, rounds, prevGap>>

----------------------------------------------------------------------------
(* go_to_through_door *)

GoToThroughDoor(ask) ==
    /\ through = "none" /\ reply = "none"
    /\ through' = "through" /\ dph' = "first" /\ askOpen' = ask
    /\ gap' \in {PastBand, DoorBand}   \* there may be no door on this way
    /\ rounds' = 0 /\ prevGap' = DoorBand
    /\ UNCHANGED <<watch, reply>>

FirstDrive ==
    /\ dph = "first"
    /\ gap' \in Ends
    /\ \/ gap' = GoalBand /\ Reply("yes") /\ UNCHANGED prevGap
       \/ dph' = "judge" /\ prevGap' = gap' /\ UNCHANGED <<call, reply>>
    /\ UNCHANGED <<rounds, watch>>

\* The top of a round: arrived after all, no door here, or ask and try again.
\* mapped_door_near has three answers; without doors in the map it has none.
Judge ==
    /\ dph = "judge"
    /\ \/ gap = GoalBand /\ Reply("yes") /\ UNCHANGED prevGap
       \/ gap # GoalBand /\ Reply("no") /\ UNCHANGED prevGap  \* no mapped door is near
       \/ /\ gap # GoalBand
          /\ \E read \in Reads, mapped \in BOOLEAN :
               LET ask == askOpen \/ mapped IN
               \/ read = "clear" /\ ~ask /\ Reply("no") /\ UNCHANGED prevGap
               \/ /\ read = "clear" => ask
                  /\ dph' = IF read # "clear" THEN "look"
                            ELSE IF prevGap > gap THEN "again" ELSE "plead"
                  /\ prevGap' = gap
                  /\ UNCHANGED <<call, reply>>
    /\ UNCHANGED <<gap, rounds, watch>>

\* "Please open it wider"
Plead ==
    /\ dph = "plead" /\ dph' = "again"
    /\ UNCHANGED <<gap, call, rounds, prevGap, watch, reply>>

DriveAgain ==
    /\ dph = "again"
    /\ gap' \in Ends
    /\ \/ gap' = GoalBand /\ Reply("yes") /\ UNCHANGED rounds
       \/ IF rounds + 1 >= DoorAttempts
          THEN Reply("no") /\ UNCHANGED rounds
          ELSE rounds' = rounds + 1 /\ dph' = "judge" /\ UNCHANGED <<call, reply>>
    /\ UNCHANGED <<prevGap, watch>>

\* The caller hears the reply; the locals of the call are gone.
HearDoor ==
    /\ reply # "none" /\ reply' = "none" /\ askOpen' = FALSE
    /\ gap' = DoorBand /\ prevGap' = DoorBand
    /\ rounds' = 0 /\ streak' = 0 /\ waited' = 0
    /\ UNCHANGED <<through, dph>>

DoorStep == Look \/ WatchDoor \/ ListenAtDoor \/ FirstDrive \/ Judge \/ Plead \/ DriveAgain

\* When the robot gives up on a way it is not there: "a nav FAILURE while the
\* robot is already at the goal" is taken as reached (door.py:366-372).  The code
\* falsifies it (README, section 6), and no run checks it.
RefusedIsNotThere == reply = "no" => gap # GoalBand
=============================================================================

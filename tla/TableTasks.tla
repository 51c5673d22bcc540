----------------------------- MODULE TableTasks -----------------------------
(***************************************************************************)
(* The tasks that carry things (tasks/PickAndPlace, Laundry, Final and     *)
(* Inspection), run by Task.run over the skills of Manipulation and Door.  *)
(* They are short programs of skill calls: each instruction says what to   *)
(* call, the sub-task it belongs to, and what its sub-task makes of a      *)
(* failure.  People move the door meanwhile, and the arms may fail.        *)
(*                                                                         *)
(* What is said, the sorting of objects by a language model and the score  *)
(* are left out.                                                           *)
(***************************************************************************)
EXTENDS Manipulation, Door, Sequences

CONSTANTS Jobs,      \* which of the programs below a run may be
          Retries,   \* SubTask.max_retries (1)
          AgentCalls \* bound: arm calls of one turn of the agent

ASSUME TasksAssumption ==
    /\ Retries \in Nat /\ AgentCalls \in Nat
    /\ {"hall", "table", "sink", "washer"} \subseteq Places

\* "washer" stands for the dishwasher and the washing machine, and "hall" for wherever
\* nothing is picked up or put down.
\* An instruction: the call and its argument, the sub-task and the item of its
\* loop, and what a "no" leads to: the next instruction, the next item, or
\* the sub-task's RETRY.
Do(call_, arg, step, item, no) ==
    [do |-> call_, arg |-> arg, step |-> step, item |-> item, no |-> no]

\* TidyDiningTable, an object for the dishwasher: to the table, whatever comes of
\* it, pick, carry, put down, count.  Without a waypoint for the dishwasher there is
\* no drive, which is like one that failed: it is put down here, and counted.
Tidy(i) ==
    << Do("goto", "table", 2, i, "next"), Do("pick", "auto", 2, i, "item"),
       Do("goto", "washer", 2, i, "next"), Do("place", "auto", 2, i, "item"),
       Do("loaded", "", 2, i, "next") >>

\* _fetch_and_place, one item of the breakfast.
Fetch(i, source) ==
    << Do("goto", source, 1, i, "next"), Do("see", "", 1, i, "item"),
       Do("pick", "auto", 1, i, "item"), Do("goto", "table", 1, i, "next"),
       Do("place", "auto", 1, i, "item") >>

\* EnterThroughDoor, and CheckOpenDoor once the button is pressed.
Enter == << Do("request", "", 1, 1, "next"), Do("through", "table", 1, 1, "next") >>

\* The arms are enabled; what a gate skips is left out.
PickAndPlaceTask ==
    << Do("press", "", 1, 1, "next") >> \o Enter \o
    << Do("see", "", 2, 2, "next"),     \* PerceiveDiningTable
       Do("goto", "sink", 3, 3, "again"),
       Do("see", "", 4, 4, "item"), Do("pick", "left", 4, 4, "again") >>
SortSlice ==
    << Do("see", "", 1, 1, "next"), Do("shelf", "hall", 2, 1, "next") >> \o Tidy(2) \o Tidy(3)
BreakfastSlice == Fetch(1, "sink") \o Fetch(2, "washer")   \* two of its four items

\* The fold is not written yet: what is picked is kept.
LaundryTask ==
    << Do("press", "", 1, 1, "next"), Do("goto", "washer", 1, 1, "again"),
       Do("goto", "washer", 2, 2, "next"),
       Do("goto", "sink", 3, 3, "next"), Do("see", "", 3, 3, "next"),
       Do("goto", "table", 3, 3, "next"),
       Do("see", "", 4, 4, "next"), Do("pick", "auto", 4, 4, "item") >>

EnterArena == << Do("request", "", 1, 1, "next"), Do("goto", "hall", 1, 1, "next") >>
WelcomeGuest == << Do("through", "table", 2, 2, "next"), Do("agent", "", 2, 2, "next") >>
MoveLaundryBasket ==
    << Do("pick", "auto", 3, 3, "item"), Do("through", "washer", 3, 3, "item"),
       Do("place", "auto", 3, 3, "item") >>
CloseDishwasher == << Do("through", "washer", 4, 4, "next") >>
PatrolAndSolve ==   \* one of its turns
    << Do("through", "sink", 5, 5, "next"), Do("agent", "", 5, 5, "next") >>

\* Without a point for the exit there is no drive, as when it fails.
InspectionTask ==
    Enter \o << Do("press", "", 2, 2, "next"), Do("goto", "hall", 3, 3, "next") >>

Program ==
    [ sink |-> PickAndPlaceTask, tidy |-> SortSlice, breakfast |-> BreakfastSlice,
      laundry |-> LaundryTask, inspection |-> InspectionTask,
      final |-> EnterArena \o WelcomeGuest \o MoveLaundryBasket \o CloseDishwasher
                \o PatrolAndSolve ]

ASSUME JobsAssumption == Jobs \subseteq DOMAIN Program

VARIABLES
    job, pc,    \* the program, and the next instruction
    attempt,    \* failed attempts of the sub-task
    verdict,    \* "running", "complete" or "stopped"
    turns,      \* calls of the agent's turn so far
    loaded,     \* ctx.data["dishwasher_items"]
    astray      \* history: in the sorting, a drive has failed

taskVars == <<job, pc, attempt, verdict, turns, loaded, astray>>
vars == <<mvars, doorVars, taskVars>>

Code == Program[job]
Now == Code[pc]
Critical == job \in {"laundry", "final"} /\ Now.step = 1

Quiet == op = "none" /\ answer = "none" /\ through = "none" /\ reply = "none"
Ready(c) == verdict = "running" /\ Quiet /\ Now.do = c

TaskInit ==
    /\ ArmsInit /\ DoorInit
    /\ job \in Jobs /\ pc = 1 /\ attempt = 0 /\ verdict = "running"
    /\ turns = 0 /\ loaded = 0 /\ astray = FALSE
    /\ at = "hall"
    /\ where \in [Objects -> {"table", "sink"}]

----------------------------------------------------------------------------
(* Task.run and the control flow of its sub-tasks *)

Later == {i \in DOMAIN Code : i > pc}
NextItem == {i \in Later : Code[i].item # Now.item}
NextStep == {i \in Later : Code[i].step # Now.step}
First(I) == CHOOSE i \in I : \A j \in I : i <= j

\* The program goes on at the first of these, or has come to its end.
Continue(I) ==
    IF I # {}
    THEN /\ pc' = First(I) /\ UNCHANGED verdict
         /\ attempt' = IF Code[First(I)].step = Now.step THEN attempt ELSE 0
    ELSE verdict' = "complete" /\ UNCHANGED <<pc, attempt>>

\* RETRY, or an exception: the sub-task runs again from its top, with what it
\* left on the blackboard.
Retry ==
    IF attempt < Retries
    THEN /\ pc' = First({i \in DOMAIN Code : Code[i].step = Now.step})
         /\ attempt' = attempt + 1 /\ UNCHANGED verdict
    ELSE IF Critical
         THEN verdict' = "stopped" /\ UNCHANGED <<pc, attempt>>
         ELSE Continue(NextStep)

CountsEveryTry(r) == Continue(Later)   \* mutant

\* What the sub-task makes of the answer.  The waits at the door are wrapped in
\* a try; so are the calls of an agent, which hears of the error instead.
Follow(r) ==
    CASE \/ r = "yes"
         \/ r = "raised" /\ Now.do = "request"
         \/ r = "no" /\ Now.no = "next" -> Continue(Later)
      [] r = "no" /\ Now.no = "item" -> Continue(NextItem)
      [] OTHER -> Retry

Still == UNCHANGED <<job, pc, attempt, verdict>>

----------------------------------------------------------------------------
(* The instructions *)

\* The busy wait on the button ends when somebody presses it.
Press ==
    /\ Ready("press") /\ Follow("yes")
    /\ UNCHANGED <<mvars, doorVars, job, turns, loaded, astray>>

Drive == \E p \in Places : p = Now.arg /\ DriveTo(p)

\* ctx.goto: the robot gets there or stays where it was.
GoTo ==
    /\ Ready("goto")
    /\ \/ Drive /\ Follow("yes") /\ UNCHANGED astray
       \/ Follow("no") /\ astray' = (job = "tidy") /\ UNCHANGED mvars
    /\ UNCHANGED <<doorVars, job, turns, loaded>>

\* The look at the shelf, at most once and only for what belongs there; nobody asks
\* whether the drive got there, and the next is to the table.
IndicateShelf ==
    /\ Ready("shelf") /\ (Drive \/ UNCHANGED mvars) /\ Follow("yes")
    /\ UNCHANGED <<doorVars, job, turns, loaded, astray>>

\* A place without a waypoint is not driven to: at the door the guest is not even
\* asked, and the inspection creeps a metre forward instead.
NoWaypoint ==
    /\ Ready("through") /\ job \in {"final", "inspection"}
    /\ IF job = "final" /\ Now.step = 2 THEN Continue(NextItem) ELSE Follow("no")
    /\ UNCHANGED <<mvars, doorVars, job, turns, loaded, astray>>

\* perceive_surface; a detection that fails finds nothing.
Perceive ==
    /\ Ready("see")
    /\ \E r \in {"yes", "no"} : Follow(r)
    /\ UNCHANGED <<mvars, doorVars, job, turns, loaded, astray>>

CallArm ==
    /\ \E arm \in Arms : /\ arm = Now.arg
                          /\ \/ Ready("pick") /\ StartPick(arm)
                             \/ Ready("place") /\ StartPlace(arm)
    /\ Still /\ UNCHANGED <<doorVars, turns, loaded, astray>>

CallDoor ==
    /\ \/ Ready("request") /\ RequestOpenDoor
       \/ Ready("through") /\ \E ask \in BOOLEAN : GoToThroughDoor(ask)
    /\ Still /\ UNCHANGED <<mvars, turns, loaded, astray>>

ArmAnswers ==
    /\ Hear
    /\ IF Now.do = "agent" THEN UNCHANGED <<pc, attempt, verdict>> ELSE Follow(answer)
    /\ UNCHANGED <<doorVars, job, turns, loaded, astray>>

DoorAnswers ==
    /\ HearDoor
    /\ IF Now.do = "through" /\ (reply = "yes" \/ gap = GoalBand)
       THEN Drive ELSE UNCHANGED mvars
    /\ Follow(reply)
    /\ UNCHANGED <<job, turns, loaded, astray>>

\* One more item in the dishwasher.
Loaded ==
    /\ Ready("loaded") /\ loaded' = loaded + 1
    /\ Follow("yes")
    /\ UNCHANGED <<mvars, doorVars, job, turns, astray>>

\* The agent may use the arms as it likes, and drive: in a turn of the patrol, or to
\* do what the guest at the door asks for.  Hearing and doing that is in no try.
AgentTurn ==
    /\ Ready("agent")
    /\ \/ /\ turns < AgentCalls /\ turns' = turns + 1
          /\ \/ \E arm \in Arms : StartPick(arm) \/ StartPlace(arm)
             \/ \E p \in Places : DriveTo(p)
          /\ Still
       \/ turns' = 0 /\ Follow("yes") /\ UNCHANGED <<mvars, job>>
       \/ Now.step = 2 /\ turns' = 0 /\ Follow("raised") /\ UNCHANGED <<mvars, job>>
    /\ UNCHANGED <<doorVars, loaded, astray>>

\* The finals' time is up: the sub-tasks that have not begun are passed over.
PastDeadline ==
    /\ job = "final" /\ verdict = "running" /\ Quiet
    /\ pc > 1 /\ Code[pc - 1].step # Now.step
    /\ Continue(NextStep)
    /\ UNCHANGED <<mvars, doorVars, job, turns, loaded, astray>>

Arm == ArmStep /\ UNCHANGED <<doorVars, taskVars>>
AtDoor == DoorStep /\ UNCHANGED <<mvars, taskVars>>
Instruction == Press \/ GoTo \/ IndicateShelf \/ Perceive \/ CallArm \/ CallDoor
               \/ NoWaypoint \/ ArmAnswers \/ DoorAnswers \/ Loaded \/ AgentTurn
Over == verdict # "running" /\ UNCHANGED vars

Next == Arm \/ AtDoor \/ Instruction \/ PastDeadline \/ Over

\* One thread runs the task and goes on; the button is pressed some time.
Robot == Arm \/ AtDoor \/ Instruction
TaskSpec == TaskInit /\ [][Next]_vars /\ WF_vars(Robot)

----------------------------------------------------------------------------
(* Properties *)

\* CloseDishwasher is run for what is in the dishwasher: as long as every
\* drive got there (the carrier does not look at it, nor mind when there is no
\* waypoint to drive to), no more items are counted than are in it, but for one
\* with each call that failed.
CountIsLoaded ==
    astray \/ loaded <= Cardinality({o \in Objects : where[o] = "washer"}) + faults

\* Every task comes to an end: the attempts of the approach, of the grasp, of
\* the door and of the task itself run out, whatever people do with the door.
TasksEnd == <>(verdict # "running")
=============================================================================

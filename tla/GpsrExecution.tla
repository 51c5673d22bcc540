--------------------------- MODULE GpsrExecution ---------------------------
(***************************************************************************)
(* The GPSR task of tasks/GPSR/subtasks.py: drive to the instruction point,  *)
(* receive and plan the operator's commands, execute them with the two-tier  *)
(* executor of dispatch.py, and come back.                                   *)
(*                                                                           *)
(* A step runs its deterministic skill, up to Attempts times, and then the   *)
(* one sub-agent its primitive is routed to (GpsrSkills).  What the operator *)
(* says is grounded by GpsrGrounding.                                        *)
(***************************************************************************)
EXTENDS GpsrGrounding

CONSTANTS
  RoomOf,          \* the room of each place
  Batches,         \* what the operator may say: raw steps of each command
  Attempts,        \* GPSR_TIER1_RETRY_ATTEMPTS
  IssueModes,      \* GPSR_ISSUE_MODE: whether "one_by_one", values to consider
  Manips,          \* GPSR_ENABLE_MANIPULATION: values to consider
  MaxRephrasings,  \* GPSR_MAX_REPHRASINGS
  MaxCustom,       \* GPSR_CUSTOM_OPERATOR_ATTEMPTS, 0 without a custom operator
  Start,           \* the instruction point
  MaxSolve         \* max_units of the score line solve_command

Step == [prim : HasSkill \cup {"deliver"}, place : Places \cup {NoPlace},
         to : Places \cup {NoPlace}, grounded : BOOLEAN]

ASSUME ExecutionAssumption ==
  /\ RoomOf \in [Places -> Rooms] /\ Start \in Places
  /\ \A b \in Batches :
       /\ b \in Seq(Seq(RawStep)) /\ DOMAIN b \subseteq Commands
       /\ \E c \in DOMAIN b : b[c] # <<>>
  /\ Attempts \in Nat \ {0} /\ {MaxSolve, MaxRephrasings, MaxCustom} \subseteq Nat
  /\ IssueModes \cup Manips \subseteq BOOLEAN

VARIABLES
  heard,      \* the raw steps of each command received
  plan,       \* each command's typed plan; empty if none could be parsed
  confirmed,  \* Command.confirmed
  asked,      \* rounds of asking that came to nothing
  oneByOne,   \* GPSR_ISSUE_MODE = "one_by_one"
  manip,      \* GPSR_ENABLE_MANIPULATION
  status,     \* Command.status
  mode,       \* "none", "serial" or "interleaved"
  phase,      \* where the task is
  queue,      \* serial: commands from the current one on
  order,      \* steps left to run: <<command, index>>
  tries,      \* attempts at the current drive or step
  at,         \* state["at"] in each command's scratch dict
  shared,     \* `at` of execute_interleaved
  where,      \* where the robot is
  oks,        \* outcomes of each command's steps so far
  worked,     \* the steps that succeeded (history)
  strayed,    \* the robot was moved and the cache not told (history)
  solved,     \* units of solve_command
  bonus       \* units of interleave_bonus

batch == <<heard, plan, confirmed, asked, oneByOne, manip>>
score == <<solved, bonus>>
done  == <<oks, worked, strayed, score>>
vars  == <<batch, status, mode, phase, queue, order, tries, at, shared, where, done>>

Ids == [c \in 1..Len(heard) |-> c]
Runnable == {c \in Commands : plan[c] # <<>> /\ confirmed[c]}

(* step_location and _region *)
Region(step) == IF StepLocation(step) = NoPlace THEN NoRoom ELSE RoomOf[StepLocation(step)]

Indexed == [c \in Commands |->
  IF c \in Runnable THEN [i \in 1..Len(plan[c]) |-> Region(plan[c][i])] ELSE <<>>]

Init ==
  /\ heard = <<>> /\ plan = [c \in Commands |-> <<>>]
  /\ confirmed = [c \in Commands |-> TRUE] /\ asked = 0
  /\ oneByOne \in IssueModes /\ manip \in Manips
  /\ status = [c \in Commands |-> "RECEIVED"]
  /\ mode = "none" /\ phase = "point" /\ queue = <<>> /\ order = <<>> /\ tries = 0
  /\ at = [c \in Commands |-> NoPlace] /\ shared = NoPlace
  /\ where = Between
  /\ oks = [c \in Commands |-> <<>>] /\ worked = {} /\ strayed = FALSE
  /\ solved = 0 /\ bonus = 0

-----------------------------------------------------------------------------
(* GoToInstructionPoint: a critical step, tried twice. *)

ReachPoint ==
  /\ phase = "point"
  /\ where' = Start /\ phase' = "ask" /\ tries' = 0
  /\ UNCHANGED <<batch, status, mode, queue, order, at, shared, done>>

MissPoint ==
  /\ phase = "point"
  /\ tries' = tries + 1
  /\ phase' = IF tries' = 2 THEN "over" ELSE "point"
  /\ UNCHANGED <<batch, status, mode, queue, order, at, shared, where, done>>

(* _receive_commands: a round that yields no usable plan asks to rephrase, then
   for a custom operator, then gives up and leaves no commands. *)
HearNothing ==
  /\ phase = "ask"
  /\ IF asked < MaxRephrasings + MaxCustom
     THEN asked' = asked + 1 /\ phase' = "ask"
     ELSE asked' = asked /\ phase' = "begin"
  /\ UNCHANGED <<heard, plan, confirmed, oneByOne, manip, status, mode, queue, order,
                 tries, at, shared, where, done>>

(* _confirm_plan: a clear no declines a plan, an unclear answer does what
   GPSR_CONFIRM_DEFAULT says; without the gate every plan is approved. *)
Decisions(plans) ==
  {f \in [Commands -> BOOLEAN] : \A c \in Commands : plans[c] = <<>> => f[c]}

(* _build_commands: a batch with one usable plan is taken as it is. *)
Receive ==
  /\ phase = "ask"
  /\ heard' \in Batches
  /\ plan' = [c \in Commands |-> IF c \in DOMAIN heard' THEN GroundPlan(heard'[c]) ELSE <<>>]
  /\ confirmed' \in Decisions(plan')
  /\ status' = [c \in Commands |-> IF plan'[c] = <<>> THEN "RECEIVED" ELSE "PLANNED"]
  /\ phase' = "begin"
  /\ UNCHANGED <<asked, oneByOne, manip, mode, queue, order, tries, at, shared, where, done>>

-----------------------------------------------------------------------------
(* ExecuteCommands.run: which of the two executors. *)

BeginInterleaved ==
  /\ phase = "begin" /\ ~oneByOne /\ Cardinality(Runnable) >= 2
  /\ order' = Interleaved(Indexed)
  /\ mode' = "interleaved" /\ phase' = "step"
  /\ status' = [c \in Commands |->
       IF c \in Runnable THEN "IN_PROGRESS"
       ELSE IF c \in DOMAIN heard /\ plan[c] = <<>> THEN "FAILED" ELSE status[c]]
  /\ UNCHANGED <<batch, queue, tries, at, shared, where, done>>

(* GPSR_INTERLEAVE is off, too few commands are planned, or interleave() raises
   before anything was done. *)
BeginSerial ==
  /\ phase = "begin"
  /\ queue' = Ids
  /\ mode' = "serial" /\ phase' = "serve"
  /\ UNCHANGED <<batch, status, order, tries, at, shared, where, done>>

SkipDeclined(c) == plan[c] # <<>> /\ ~confirmed[c]

(* one_by_one: back to the operator after every command but the last, whether
   or not the drive gets there. *)
WhereNext(c) ==
  IF oneByOne /\ c < Len(Ids) THEN {Start, where, Between}
  ELSE {where}

ServeSkips ==
  /\ phase = "serve" /\ queue # <<>> /\ SkipDeclined(Head(queue))
  /\ queue' = Tail(queue)
  /\ UNCHANGED <<batch, status, mode, phase, order, tries, at, shared, where, done>>

(* execute_plan: a command without a plan has failed; the others get a scratch
   dict of their own and run their steps. *)
ServeUnplanned ==
  /\ phase = "serve" /\ queue # <<>> /\ plan[Head(queue)] = <<>>
  /\ status' = [status EXCEPT ![Head(queue)] = "FAILED"]
  /\ where' \in WhereNext(Head(queue))
  /\ queue' = Tail(queue)
  /\ UNCHANGED <<batch, mode, phase, order, tries, at, shared, done>>

ServePlan ==
  /\ phase = "serve" /\ queue # <<>>
  /\ plan[Head(queue)] # <<>> /\ ~SkipDeclined(Head(queue))
  /\ status' = [status EXCEPT ![Head(queue)] = "IN_PROGRESS"]
  /\ order' = [i \in 1..Len(plan[Head(queue)]) |-> <<Head(queue), i>>]
  /\ at' = [at EXCEPT ![Head(queue)] = NoPlace]
  /\ phase' = "step"
  /\ UNCHANGED <<batch, mode, queue, tries, shared, where, done>>

-----------------------------------------------------------------------------
(* execute_step *)

Current == Head(order)
Command == Current[1]
StepNow == plan[Command][Current[2]]

(* The interleaved executor hands the robot's location from step to step. *)
BeginStep ==
  /\ phase = "step" /\ order # <<>>
  /\ at' = IF mode = "interleaved" THEN [at EXCEPT ![Command] = shared] ELSE at
  /\ tries' = 0
  /\ phase' = IF PreferTier1(StepNow, manip) /\ StepNow.prim \in HasSkill
              THEN "try" ELSE "fallback"
  /\ UNCHANGED <<batch, status, mode, queue, order, shared, where, done>>

(* The robot and the scratch dict are as the skill or the agent left them. *)
Left(r) ==
  /\ where' = r.where
  /\ at' = [at EXCEPT ![Command] = r.at]
  /\ strayed' = (strayed \/ r.astray)

(* Mutants: the outcome is credited to the lowest command still running; a
   failed step is left in the order. *)
EndStepMiscredited(r) ==
  LET c == Min({Current[1]} \cup {order[k][1] : k \in 1..Len(order)}) IN
  /\ oks' = [oks EXCEPT ![c] = Append(@, r.ok)]
  /\ worked' = IF r.ok THEN worked \cup {Current} ELSE worked
  /\ shared' = IF mode = "interleaved" THEN r.at ELSE shared
  /\ order' = Tail(order)
  /\ phase' = "step"

EndStepKeepingFailed(r) ==
  /\ oks' = [oks EXCEPT ![Command] = Append(@, r.ok)]
  /\ worked' = IF r.ok THEN worked \cup {Current} ELSE worked
  /\ shared' = IF mode = "interleaved" THEN r.at ELSE shared
  /\ order' = IF r.ok \/ Len(oks[Command]) > 2 THEN Tail(order) ELSE order
  /\ phase' = "step"

EndStep(r) ==
  /\ oks' = [oks EXCEPT ![Command] = Append(@, r.ok)]
  /\ worked' = IF r.ok THEN worked \cup {Current} ELSE worked
  /\ shared' = IF mode = "interleaved" THEN r.at ELSE shared
  /\ order' = Tail(order)
  /\ phase' = "step"

(* _run_skill_with_retry: a skill that raises counts as a failed attempt. *)
TryTier1 ==
  /\ phase = "try"
  /\ \E r \in SkillResults(StepNow, where, at[Command]) :
       /\ Left(r)
       /\ tries' = tries + 1
       /\ \/ r.ok /\ EndStep(r)
          \/ ~r.ok /\ phase' = (IF tries' < Attempts THEN "try" ELSE "fallback")
                   /\ UNCHANGED <<shared, order, oks, worked>>
  /\ UNCHANGED <<batch, status, mode, queue, score>>

(* Mutant: a step whose fall-back failed is run again. *)
FallBackAgain ==
  /\ phase = "fallback"
  /\ \E r \in FallbackResults(StepNow, where, at[Command]) :
       /\ Left(r)
       /\ \/ r.ok /\ EndStep(r)
          \/ ~r.ok /\ phase' = "step" /\ UNCHANGED <<shared, order, oks, worked>>
  /\ UNCHANGED <<batch, status, mode, queue, tries, score>>

FallBack ==
  /\ phase = "fallback"
  /\ \E r \in FallbackResults(StepNow, where, at[Command]) : Left(r) /\ EndStep(r)
  /\ UNCHANGED <<batch, status, mode, queue, tries, score>>

-----------------------------------------------------------------------------
FinishSerial ==
  /\ phase = "step" /\ order = <<>> /\ mode = "serial"
  /\ status' = [status EXCEPT ![Head(queue)] = Summarize(oks[Head(queue)])]
  /\ where' \in WhereNext(Head(queue))
  /\ queue' = Tail(queue)
  /\ phase' = "serve"
  /\ UNCHANGED <<batch, mode, order, tries, at, shared, done>>

FinishInterleaved ==
  /\ phase = "step" /\ order = <<>> /\ mode = "interleaved"
  /\ status' = [c \in Commands |->
       IF c \in Runnable THEN Summarize(oks[c]) ELSE status[c]]
  /\ phase' = "score"
  /\ UNCHANGED <<batch, mode, queue, order, tries, at, shared, where, done>>

AllServed ==
  /\ phase = "serve" /\ queue = <<>>
  /\ phase' = "score"
  /\ UNCHANGED <<batch, status, mode, queue, order, tries, at, shared, where, done>>

(* Mutant: every command that was begun counts as solved. *)
ScoreBegun ==
  /\ phase = "score"
  /\ bonus' = IF mode = "interleaved" THEN 1 ELSE 0
  /\ solved' = Min({Cardinality({c \in Commands : status[c] \notin {"RECEIVED", "PLANNED"}}), MaxSolve})
  /\ phase' = "return"
  /\ UNCHANGED <<batch, status, mode, queue, order, tries, at, shared, where, oks, worked, strayed>>

(* ctx.score per command that made progress; award() clamps to max_units. *)
Score ==
  /\ phase = "score"
  /\ bonus' = IF mode = "interleaved" THEN 1 ELSE 0
  /\ solved' = Min({Cardinality({c \in Commands : status[c] \in {"DONE", "PARTIAL"}}), MaxSolve})
  /\ phase' = "return"
  /\ UNCHANGED <<batch, status, mode, queue, order, tries, at, shared, where, oks, worked, strayed>>

(* ReturnToInstructionPoint, whether or not the drive gets there. *)
Return ==
  /\ phase = "return"
  /\ where' \in {Start, where, Between}
  /\ phase' = "over"
  /\ UNCHANGED <<batch, status, mode, queue, order, tries, at, shared, done>>

Onward ==
  \/ ReachPoint \/ MissPoint \/ HearNothing \/ Receive
  \/ BeginSerial
  \/ ServeSkips \/ ServeUnplanned \/ ServePlan
  \/ BeginStep \/ TryTier1 \/ FallBack
  \/ FinishSerial \/ FinishInterleaved \/ AllServed \/ Score \/ Return

Next == BeginInterleaved \/ Onward

Spec == Init /\ [][Next]_vars

(* One thread runs the task, and its calls, time-outs included, return.  Where
   BeginInterleaved can be taken so can BeginSerial: fairness of Onward is
   fairness of Next, and spares TLC the schedule when it evaluates ENABLED. *)
FairSpec == Spec /\ WF_vars(Onward)

-----------------------------------------------------------------------------
(* Properties *)

Statuses == {"RECEIVED", "PLANNED", "IN_PROGRESS", "DONE", "PARTIAL", "FAILED"}

(* Type correctness of the task. *)
TypeOK ==
  /\ heard \in Batches \cup {<<>>} /\ plan \in [Commands -> Seq(Step)]
  /\ confirmed \in [Commands -> BOOLEAN] /\ asked \in 0..(MaxRephrasings + MaxCustom)
  /\ {oneByOne, manip} \subseteq BOOLEAN
  /\ status \in [Commands -> Statuses]
  /\ mode \in {"none", "serial", "interleaved"}
  /\ phase \in {"point", "ask", "begin", "serve", "step", "try", "fallback", "score", "return", "over"}
  /\ queue \in Seq(Commands) /\ order \in Seq(Commands \X Nat)
  /\ tries \in 0..Attempts \cup {1, 2}
  /\ at \in [Commands -> Places \cup {NoPlace}] /\ shared \in Places \cup {NoPlace}
  /\ where \in Everywhere /\ strayed \in BOOLEAN
  /\ oks \in [Commands -> Seq(BOOLEAN)] /\ worked \subseteq Commands \X Nat
  /\ solved \in 0..MaxSolve /\ bonus \in 0..1

(* No step is run out of its command's order, twice, or not at all: the steps
   still to run are always exactly those after the last outcome recorded, so
   that a fall-back to serial never drives the robot again. *)
StepsLeft(c) == {order[k][2] : k \in {j \in 1..Len(order) : order[j][1] = c}}
StepsInOrder ==
  phase \in {"step", "try", "fallback"} =>
    /\ \A j, k \in 1..Len(order) :
         j < k /\ order[j][1] = order[k][1] => order[j][2] < order[k][2]
    /\ \A c \in Commands :
         StepsLeft(c) # {} => StepsLeft(c) = (Len(oks[c]) + 1)..Len(plan[c])

(* When the run is over each command's status says what its own steps did,
   however the steps of several commands were mixed; a plan the operator declined
   is the planned command it was and has left no outcome. *)
StatusTellsTruth ==
  phase = "over" => \A c \in DOMAIN heard :
    LET good == {i \in 1..Len(plan[c]) : <<c, i>> \in worked} IN
    IF plan[c] # <<>> /\ ~confirmed[c] THEN status[c] = "PLANNED" /\ oks[c] = <<>>
    ELSE status[c] = IF good = {} THEN "FAILED"
                     ELSE IF good = 1..Len(plan[c]) THEN "DONE" ELSE "PARTIAL"

(* The claimed score counts the commands that made progress, each once. *)
ScoreIsEarned ==
  phase = "over" =>
    solved = Min({MaxSolve, Cardinality({e[1] : e \in worked})})

(* "state["at"] is the nav-dedup (canonical name of where the robot is)": when a
   skill may skip a drive because of it, the robot is there, whichever command
   brought it there -- as long as no drive, follow or agent lost track of it. *)
CacheHonestUnlessAstray ==
  phase \in {"try", "fallback"} /\ ~strayed => at[Command] \in {NoPlace, where}

(* The same without the exception, as the comment says it.  The code falsifies it
   (README, section 6), and no run checks it. *)
CacheHonest ==
  phase \in {"try", "fallback"} => at[Command] \in {NoPlace, where}

(* "Map a RawPlan onto canonical world entities, recording every noun that failed
   to ground": a step for which the operator named a place nobody knows is not
   taken for a grounded one, to be carried out wherever the robot stands. *)
UnknownPlaceIsAGap ==
  \A c \in DOMAIN heard : \A i \in 1..Len(heard[c]) :
    LET raw == heard[c][i] IN
    Unknown \in {raw.location, raw.room, raw.to, raw.from} => ~plan[c][i].grounded

(* Every run comes to an end, whatever fails and whatever is never understood. *)
EveryRunEnds == <>(phase = "over")
=============================================================================

# Verification of walkie-agent-v2

A TLA+ model of the parts of this repository that decide something: what is
stored, in which order, by which thread, what survives a crash, who is served,
which step runs where. TLC checks the model on small instances; TLAPS proves
its safety properties for every value of the constants. Paths and line numbers refer to
`src/`; `PROJECT.json` maps every definition to the lines it stands for.

## 1. The system

A service robot runs one *task* at a time in the main thread (`tasks/*/run.py`).
A task is a list of sub-tasks run by `tasks/base.py`. Sub-tasks call *skills*
(drive, look, speak, listen, grasp) that talk to the robot over ROS and to an AI
server over HTTP, and read the *world*: a scene graph, a people store and a map.
In the background a *perception producer* captures frames into a ring buffer on
disk and rebuilds the scene graph from them. In GPSR and in the agent app LLM
agents with tools call the same skills.

| component | state it keeps | operations | talks to | what is hard | correct when |
|---|---|---|---|---|---|
| Snapshot ring buffer `services/realtime_explore/buffer.py` | index list and pin in memory, index file and one sidecar per frame on disk, a lock | append, evict, building (pin), load_window, restart | capture thread appends, builds replay | lock released during the replay; each disk write may fail or be the last | a build's window stays on disk; memory, index and files agree after any crash; capacity is restored |
| Perception producer `service.py`, `builder.py` | capture thread, stop event, executor, future, counters | start, stop, observe, capture tick, build decision, build | buffer, scene store | a tick that hangs in the server, stop racing a tick, a second start, a manual observe | one build at a time in the pool; nothing happens after stop; counts are of things seen |
| Scene graph store `walkie_world/scene/*`, facade `walkie_world/world.py` | nodes, edges, embedding matrix; three files | merge, prune, install, persist, load, map seeding, queries | builds write, tasks and agents read | lost updates, torn files after a crash, which node the cap forgets, placeholders turned real | every sighting is counted once, edges and rooms fit the nodes, surveyed nodes stay |
| GPSR scheduler `tasks/GPSR/schedule.py`, `plan.py` | a pointer per plan, the order so far | one greedy iteration | called by the executor | several plans merged with ties and steps without a place | each plan's order kept, nothing lost, no more travel than serial but for steps that end elsewhere |
| GPSR executor `tasks/GPSR/subtasks.py`, `dispatch.py`, `skills.py` | status and outcomes per command, the place cache, score | serial and interleaved runs, skill with retry, fall-back agent | skills, agents | the cache says where the robot is and a step may be skipped for it; steps of several commands share a robot | steps once and in order, statuses true, score earned, cache honest |
| GPSR parsing `parse.py`, `prompts.py` | none | raw step to typed plan step | LLM, map vocabulary | words the map does not know | every noun that was said and not found is a gap |
| Restaurant `tasks/Restaurant/*` | orders, handled seats, given-up spots, score | scan, approach, ask, relay, tray or gripper delivery, batch mode | skills, speech | the same person seen from elsewhere; a step re-run after an exception | one order each, bounded patience, only what was confirmed counts |
| HRI `tasks/HRI/*` | guests, host, bag | door, greet, enrol, offer a seat, audit, introduce, follow with the bag | people store, seat scan, follow, listener | identity under failure; people who come, sit down and move meanwhile | a record holds one person's looks, a label is that person's, the task ends |
| Seats `tasks/skills/seating.py` | the views of a sweep | scan, merge, choose | camera, LLM | sofas cut off by a view, turns that fail, people who move | a free seat is offered, and a taken one is not |
| Whom to follow `tasks/HRI/identity.py` | the lock: counters, last box | one tick: face, gated attire, full attire | camera | doubles, gates, hysteresis | the host is followed or nobody |
| People store `walkie_world/people/*` | vector collections | enrol, recognise, rename, forget | HRI | writes that are not one | one person, one record |
| Manipulation `tasks/skills/grasp.py`, `place.py`, `held.py` | what each arm is recorded to hold | pick_object, place_object | tasks, agents | any call may raise; nobody compares the record with the gripper | the record is right or something has put it wrong; arms left safe |
| Door `tasks/skills/door.py` | none | ask and watch, drive through | all tasks | people move the door at will | the loops end |
| PickAndPlace, Laundry, Final, Inspection | little beyond the blackboard | sequences of skills | skills, agent | retries inside retries; partial failure | counts true, tasks end |
| Other shared skills `tasks/skills/*` | follower, face tracker and listener threads | follow, track, listen | robot, mic, camera | threads that outlive a stop | loops end, base stopped after |
| Devices `interfaces/devices/*` | speaker thread and stop flag, mic pause depth | play, stop, pause, record | listener, agents | a flag shared by two playbacks | the robot never hears itself, stop stops |
| Agents `agents/core/*` | speech log | context, stub tools | LLM, skills | none: every agent is invoked synchronously | — |
| Clients, perception geometry, visualisation, map table | none or read-only | HTTP, floating point, drawing | | I/O and numerics | out of scope |

## 2. The plan

The store of what the robot knows comes first, because every task trusts it and
because its threads and crashes are what tests reach least; then the executors.

| # | module(s) | state |
|---|---|---|
| 1 | `SlidingLog` (abstract), `SnapshotBuffer`; proofs in `RealtimeExploreProofs` | done |
| 2 | `SceneStore`, `SceneStoreProofs` | done |
| 3 | `RealtimeExplore`, `RealtimeExploreProofs` | done |
| 4 | `GpsrPlan` (operators), `GpsrSchedule`; proofs in `GpsrProofs` | done |
| 5 | `GpsrSkills`, `GpsrGrounding`, `GpsrExecution`, `GpsrProofs` | done |
| 6 | `Restaurant`, `RestaurantProofs` | done |
| 7 | `Follow`, `FollowProofs`: the HRI bag step, `follow_person`, command listener, microphone pause, speaker | done |
| 8 | `FollowLock` (abstract), `HostLock`, `HostLockProofs`: whom to follow | done |
| 9 | `Recognition` (operators), `HriTask`, `HriTaskProofs`: enrolment, labelling, the twelve steps | done |
| 10 | `Seating`: seat scan and choice; proofs in `HostLockProofs` | done |
| 11 | `Manipulation`, `Door`, `TableTasks`, `TableTasksProofs` | done |
| 12 | `Tracking`: the face tracker of `tasks/skills/people.py` | open |

What composes what: `GpsrExecution` runs the skills of `GpsrSkills` on the plans
of `GpsrGrounding`; `HostLock` drives `FollowLock`; `HriTask` labels with
`Recognition`; `TableTasks` calls `Manipulation` and `Door`. Composition still to
come: `SnapshotBuffer` and `SceneStore` under `RealtimeExplore` (the producer
keeps its own short buffer and a single counted object), `Seating` and `HostLock`
under `HriTask` (the task takes from them only who sits and that a follow ends).

Theorems: every invariant and every action property of the runs is proved (section
5). Open with `Tracking`: theirs.

## 3. What is modelled

### SnapshotBuffer
One action per step that another thread or a crash can come between: saving a
sidecar, committing its name, unlinking the oldest file, rewriting the index,
entering and leaving `building()`, copying the id list, loading one frame, a
restart. `entries` is `_ids`, `index` the index file, `sidecars` the npz files;
`pc` says where each thread is. A restart may come between any two steps, and a
disk write may raise. What an npz holds is left out: a frame is a number.
`SlidingLog` is the abstract promise of the durable index: a log that grows at
its new end and loses its old end; `SlidesForward` is the refinement.

### SceneStore
Nodes, edges and the embedding rows of `SceneStore`, the three files, and the
threads that build. A build is `Begin` (copy the snapshot), `FoldOne` per
observation, `Prune`, then the install: swap in memory, nodes, embeddings,
edges, one file at a time. `Seed` is the map seeding of a start. Space is a short
line of places; a point cloud is the set of places it covers, a centroid any
place in its hull, because a centroid of unknown weights may be anywhere in it.
`_scene_lock` is `lock`. `worldMap` is the survey the process read at its start;
`sightedAt` is history: where each surveyed object was detected, by any process.

### RealtimeExplore
The producer's life cycle: main calls `start`, `stop` and `observe`; capture
threads tick; one pool thread builds. Each tick is split at its calls to the
server: a thread that misses the five-second join of `stop` lives on and
finishes later. One object is counted; a frame either shows it or not. `stage` says
where each thread is, `ServiceSpec` is the behaviour (the names differ from those of
`SnapshotBuffer` so that one module can prove theorems of both).

### GpsrPlan, GpsrSchedule
`interleave()` one loop iteration a step, from every batch of up to three plans of
up to two steps in two rooms or none. The scheduler sees where a step starts; where it
ends (`ends`) is chosen apart from that: a guide goes on to its `to`, a follow, an agent
or a search in memory may end anywhere. `Travels` counts the steps that the robot must first
change room for, from where the steps before really left it; the way a guide or a
follow goes itself is not counted, it is the same in every run.

### GpsrSkills, GpsrGrounding, GpsrExecution
`GpsrGrounding` is `ground_step`: a raw step, field by field what the vocabulary
makes of its words, becomes a step with a place, a destination and its gaps.
`GpsrSkills` gives for each skill, and each kind of agent, the set of ways it may
leave the robot: whether it succeeded, where the robot is, what the nav cache
`state["at"]` claims, and whether the robot was moved without the cache being
told. What a skill sees or says is free. `GpsrExecution` is the task: drive to
the instruction point, receive (one by one or at once, with rephrasings and the
custom operator), confirm, execute serially or interleaved, score, return. The
schedule it follows is that of `GpsrPlan`.

### Restaurant
`GoToStart`, `ServeCustomers`, `ServeCustomersBatched` under `Task.run`. The room
is a line, a person is known by the point a detection was lifted to, exact or
short by a bias, or by a bearing alone. Refinements, re-acquisition and who
answers follow the radii of the code, and so does what a sweep deduplicates
(`Deduped`), who stands within reach of a point (`Within`) and who is found again
by a caption (`Captioned`); a batch is visited nearest first (`NearestFirst`). A step
may raise at any point: it is run again with `handled`, `giveups` and `attempts` gone and the orders kept.

### Follow
`FollowHostAndDropBag` with everything it runs: `follow_person`, the two threads
of `CommandListener`, the microphone and the speaker. `main` is the main thread,
`rec[l]`, `wrk[l]`, `queue[l]` the recorder, the worker and the queue of the
listener of attempt `l`: when the step raises, `Task.run` runs it again with a new
listener and the threads of the old one are only known to have been joined. A
clip is the set of what could be heard while it was recorded: a word of the room,
or the robot. `Pulse` and `GoTo` are the two ways to drive, chosen by the band the
host is in; `Twisted` and `Sent` are what `approach_point_cmdvel` and
`approach_point` may leave commanded; `base` is what the base has been told. Time passes in `Tick`: a
recording does not count the time the robot speaks, the follow deadline and the
joins do. A word of the room is chatter or "place"; the classifier may miss a
command but does not take chatter for one.

### FollowLock, HostLock
`FollowLock` is the hysteresis of `FollowSelector._update` and nothing else: a
matched box or none, each tick. `HostLock` says where the match comes from. A
frame places people at spots, near or far, facing or not; similarities are
percents given for every enrolled id and every person. The face pass, the pass by
attire near the last box and the pass anywhere, with their floors and margins and
the exclusion of faces that are clearly another's, are translated one by one.

### Recognition, HriTask
A vector is the set of people whose looks were averaged into it; a face is told
apart, clothes only if two people are not `Alike`. `Recognition` folds enrolments
into the store's collections and labels the people of a sweep by faces, then by
the fused score, then by what is left. `HriTask` runs the twelve steps of
`build_hri_task` under `Task.run`: people come, stand and sit down whenever they
please, every picture may miss bodies and faces, one call may fail (the store's
counting of people is in no try, so an enrolment may raise), and a face whose centre
lies in the host's box may be another's. `causes` records what has gone wrong that may spoil a record.

### Seating
The room is a row of spots of one cushion's width, so a box is the spots it
covers and what the code computes in pixels is computed in spots: the split of a
sofa into its cushions, the regions between seated people, the merging of views
by place, the order of the views by their distance from straight ahead. A sofa
that a view cuts off is split like a whole one, as in the code. `Kept` is what the loop over
the views leaves: an entry is kept unless an earlier kept one is the same seat. Two
pieces of a kind never pass for one (`FurnitureApart`: half a metre between two sofas);
nearer together, the code's radius of a metre merges two sofas that views cut off.
`OfferSpec` is the behaviour. Detections,
depths, poses and turns may fail, and people change seats between pictures.

### Manipulation, Door, TableTasks
`Manipulation` is `pick_object` and `place_object` from call to return. Each
phase of `ph` is the stretch of code between two calls that can fail; a fault
raises out of it, through the `finally` blocks (`TidyGrasp`, `TidyPlace`).
`held` is the record on the blackboard, `where` what is really in a gripper,
`guarded` which grippers are under collision checking, `misled` which records a
cause has put wrong. Distances are bands. `Door` is `request_open_door` and
`go_to_through_door`; the door is in any state at every look. `TableTasks` holds
the sub-tasks of the four tasks as short programs of calls, each with what its
sub-task makes of a "no", run by the loop of `Task.run`; in the Final task the
tool-calling agent uses the arms as it likes. Nobody reads what a gripper answers, so
one may not have opened; a place without a waypoint is not driven to; and what a
guest asks for at the door is done in no try, so it may raise and the step run again.

## 4. What is checked

`tlc -config X.cfg M`; each run is exhaustive within its bounds.

| run | states | shows |
|---|---|---|
| `SnapshotBuffer` | 18 k | with one builder: no file of a frozen window is unlinked during the build (`PinProtectsWindow`), what memory names can be read (`NamedFramesReadable`), a backlog shrinks back (`BacklogEvicted`), the index refines `SlidingLog` through crashes and failing writes (`SlidesForward`) |
| `SceneStore` | 874 k | two builders, crashes, re-surveys: no sighting lost or doubled (`LedgerBalanced`), edges follow the nodes (`EdgesFollowNodes`), the cap drops the stalest (`StalestPruned`), no surveyed object is lost, doubled, unlearnt or misplaced through promotions, builds, the cap, crashes and starts with another survey and perhaps no embedding server (`MapObjectsKept`) |
| `RealtimeExplore` | 335 k | one build in the pool (`SingleFlight`), quiet after stop (`QuietAfterStop`), stop returns though the capture hangs (`StopTerminates`) |
| `GpsrSchedule` | 692 k | each command's order is kept (`StepOrderKept`), no more changes of room than serial, but for two per step that carries the robot off (`DetoursBounded`) |
| `GpsrExecution` | 165 k | each step once and in order (`StepsInOrder`), status and score are what happened (`StatusTellsTruth`, `ScoreIsEarned`), the nav cache is honest until something moves the robot behind its back (`CacheHonestUnlessAstray`), the run ends (`EveryRunEnds`) |
| `GpsrExecution_gap` | violation | a place nobody knows is dropped from a find_object without a gap |
| `Restaurant` | 882 k | one order each while sightings are exact (`OneOrderEachIfSure`), patience bounded (`PatienceBounded`), served and scored only as confirmed (`ServedIsConfirmed`), the task ends (`TaskEnds`) |
| `Follow` | 484 k | the robot never obeys its own voice (`StoppedByHost`), no recorder outlives a stop to meet another input stream (`OneStream`), the base is still after the follow (`BaseIsStill`), the step and all its threads end (`WindsDown`) |
| `HostLock` | 539 | a lock stands on a match at most the tolerance old (`LockIsFresh`), no other enrolled person is driven to (`EnrolledNotFollowed`), nobody is matched who just showed another's face (`FacedNotMatched`), a lost lock is re-taken only once confirmed (`RelockIsEarned`) |
| `HriTask` | 39 k | a record holds somebody else's looks only after one of the named causes (`RecordsHaveCause`), a wrong label has one too (`LabelsHaveCause`), the reception ends (`TaskEnds`) |
| `Seating` | 66 k | a taken seat is offered only if nobody was seen on it, the view cut the sofa off, or the model overruled what it was told (`OfferedSeatIsFree`); a cut-off view never overrules a whole head-on one (`HeadOnViewTrusted`); "find a seat yourself" only without a known free seat (`FreeSeatIsOffered`) |
| `TableTasks` | 1293 k | the record of an arm is right or has a cause (`RecordHasCause`), grippers are back under collision checking (`ArmsLeftSafe`), no item is counted that is not in the dishwasher (`CountIsLoaded`), every task ends (`TasksEnd`) |

Every property has a mutant of the code in `PROJECT.json` that TLC must catch. The
type invariants (`TypeOK` and its namesakes) are not among the runs' properties: those
of `SnapshotBuffer`, `SceneStore`, `GpsrSchedule`, `GpsrExecution`, `Restaurant`,
`Follow`, `FollowLock`, `HriTask`, `Seating` and `Manipulation` are proved; in the
others the proofs use the part of them that they need.

**Bounds.** A name in CONSTANTS that starts with `Max` bounds a counter that the
code lets grow. `SnapshotBuffer`: capacity 2, window 2, five frames: eviction, a
deferred eviction of more than one frame and a re-opened backlog all occur; one
crash and one fault can meet at any step. `SceneStore`: capacity 2 against two
surveyed objects and up to three builds, so that pruning has to choose, and
places 0..4 with merge distance 1, so that observations merge, miss and chain;
two crashes, because the second start reads what the first repaired. Builds in
`RealtimeExplore` come every second frame with a window of two: the overlap of
consecutive windows is there. GPSR: six batches of one or two commands that together hold
every primitive, a command that is never understood, an unknown place, a place with
only a placeholder pose and one known to the scene too; two attempts per skill, one
rephrasing and one custom operator, so that each retry is taken and given up.
`GpsrSchedule`: three commands, two steps each, two rooms, two steps that end elsewhere:
a batch where one such step costs two changes of room is among them. `Restaurant`: two seats within the re-acquire radius of
each other's midpoint and outside each other's handled radius; three attempts
for two targets; failures bounded by two; in the batched setting an exception
may follow a recorded order, in the others it may come before one (`RaiseBound`),
except at the last try, where it may come at any point. `Follow`: two attempts, so that a listener
of the first can meet the second; two misses in a row, so that a search is entered
with and without speaking; recordings and joins of one and two ticks, the shortest
that tell them apart; one clip per listener and one word in the room. Without
`cmd_vel` the follow is a special case (the host is always far). `HostLock`: host,
an enrolled guest dressed much alike and an unknown double, three spots with a gate
of one, so that the gate hides and shows rivals; two ticks to confirm and two to
tolerate, so that each may be one short. `HriTask`: both guests and the host, all
three dressed alike, records of an earlier run left if the reset fails, one
fault: every call fails in some run. `Seating`: a chair and a sofa of three
cushions that the side views cut off, two offers (the second with the first
guest seated) and two slips in each: a missed person and a failed turn can meet,
and so can a move between pictures and a failed depth. `TableTasks`: the code's own
counts of attempts, two objects so that an arm can hold the wrong one, a door wait
of two polls for two confirming reads, one fault anywhere, one call of each agent
turn.

**Fairness.** `SnapshotBuffer`: weak fairness of each thread's own steps: threads
are scheduled, the lock is held only across finite work; nothing forces a capture
or a build to begin. `RealtimeExplore`: weak fairness of the stop path and the
pool worker, none of the capture thread, which may hang in a call for ever;
that is why `stop()` has a timeout. `GpsrExecution` and `Restaurant`: one
thread runs the program and its calls return: weak fairness of the next step
(of `Onward` in `GpsrExecution`, `Next` in `Restaurant`). The calls do have
timeouts on navigation and listening; a server call that never returns would
stall the task, and is excluded here. `HriTask` and
`TableTasks`: weak fairness of the robot's own steps: the task's thread goes on, its
calls return, and somebody presses the button or gives the signal that a step waits
for (the Inspection task has no time-out there); nothing forces people to come, to
sit down or to leave a door open. `Follow`: weak fairness of the main thread,
of the clock, and of each recorder and worker; the worker's calls to the server
return. Nothing forces anybody to speak, or a recording to fail. `SceneStore`,
`GpsrSchedule`, `HostLock` and `Seating` check safety only. No run assumes strong fairness.

`CHECK_DEADLOCK FALSE` is set, but for `Follow`, because each model has a state
where the program has ended, or a bound that stops it.

**Assumed of the devices in `Follow`.** The zero velocities and the cancel at the
end of a follow reach the base; resampling and handing over a clip takes less
than the margin of the join; the drain time of the speaker covers its output
latency, and a stream that broke off is silent once closed.

## 5. What is proved

TLAPS checks these for every capacity, window, number of frames, crashes,
commands, rooms and plan lengths, attempts, clips, words and timeouts, people,
similarities and margins, furniture and views, customers, tables and orders, objects,
places and faults. Every invariant and every action property of the runs is among
them. Assumptions are the named ones of the modules (`...Assumption`, and
`FurnitureApart`), which TLC evaluates on every run. Some theorems have a hypothesis
of their own, because the promise holds only then:

| theorem | hypothesis | why |
|---|---|---|
| `PinTheorem` | one builder | two overlapping builds break the pin (section 6) |
| `EdgesTheorem` | no survey of the map is empty | seeding an empty map derives no edges, and the file a crash left keeps torn ones |
| `StreamTheorem` | `JoinMargin > 0` | else a recorder may outlive the join that waits for it |
| `FacedTheorem` | `NonHostBelow <= Floor` | what excludes a face must be below what matches one (0.35 and 0.5 in the code) |
| `LabelsTheorem` | `Margins`: `100 - FaceWeight < MinScore`, `BoxMargin > 0` | clothes alone must not reach the score of a label (they do not with the weights of the code), and a label must beat the runner-up |
| `OneOrderTheorem`, `PatienceTheorem` | `TablesApart`: seats farther apart than `ReacquireRadius` | nearer, an exact sighting may be refined to the neighbour; TLC shows both properties violated with seats 3 and 5 and a radius of 3 |
| `CountTheorem` | finitely many objects | so that they can be counted |

TLC meets each hypothesis in the run of the property.

* `TypeCorrect`: the buffer's type invariant. It needs one fact beyond the
  types: between saving and committing, the number handed to `append` is that of
  a frame (`TypeInv`).
* `PinTheorem`: with at most one builder, no step unlinks a sidecar of the
  frozen window. The invariant says that only the holder of the lock is in a
  locked step (`LockInv`) and that a thread inside `building()` implies the pin
  (`PinInv`); the second needs the builders to be the same thread, and is exactly
  what two overlapping builders break (section 6).
* `ReadableTheorem`: whatever the index list names has its file, unless a restart
  found it gone. The invariant adds that names ascend in the list and in the
  index (`OrderInv`), so that the oldest, which is evicted, is no other's file.
* `SlideTheorem`: each step of the buffer is a step of `SlidingLog` or a stutter.
  The list in memory is the index without its k oldest frames, followed by frames newer
  than any the index ever held (`SlideInv`), however many writes of the index failed and
  however often the buffer was reopened: so the next write that succeeds can only slide.
* `StoreTypeCorrect`, `LedgerTheorem`: `LedgerBalanced` speaks of the scene and of the
  file; in between a thread works on a draft. The invariant adds that whoever is not
  idle holds the lock (`Locked`), that the draft adds up to the ledger and the thread's
  own tally (`DraftsBalanced`), and that ids are unique (`IdsUnique`), so that merging,
  pruning and restoring move counts and lose none that are not written off.
* `EdgesTheorem`, `StalestTheorem`: edges are derived from the very nodes they are
  installed with; what the sort by last sighting leaves out is no newer than what it
  keeps.
* `MapObjectsTheorem`: what the files record of a surveyed object, the scene has, and
  what the scene has, a draft about to be swapped in has (`Retained` is transitive, and
  folding, capping, seeding, stamping and loading each keep it); a seen object lies in
  the hull of its detections, since only a node that was seen has a cloud to unite with;
  a list that follows the process's map goes on to follow it (`KInv`).
* `SingleFlightTheorem`, `QuietTheorem`: `SingleFlight` is not inductive, since the
  decision to build and the submission are two steps. While the pool is open only
  one thread ticks (`OneTicker`: start() looks for a live thread, and observe() is
  for a run without one), so the decision still holds when it is acted on
  (`DecisionHolds`); after stop() has drained the pool no build is left
  (`Drained`), so nothing is merged.
* `ScheduleTypeCorrect`, `ScheduleKeepsOrder`, `ScheduleIsComplete`: the
  scheduler's invariant (`LoopIInv`) says that the order built so far holds for each
  command exactly the steps before its pointer, each once and in order (`Sound`); at the
  end the pointers are at the ends.
* `DetoursAreBounded`: first, were every step to end where it starts, every change of room
  of the interleaved run would be one of the serial run, too, for the same step: the
  greedy loop changes rooms only when no plan can go on where the robot is, so the step
  before it in its own plan that has a room has another one, or there is none, and the
  serial run drives for it as well (`Frugal`, `FewerChanges`). Then, in any run, the steps
  really driven for and those changes differ only in steps that come next after one that
  ended elsewhere (`TripsAndChanges`), one for each such step (`FewDisplaced`): once in
  the interleaved run and once in the serial one. TLC finds the bound reached: with a
  guide from kitchen to office, then <office, kitchen>, then <kitchen>, one leaving step
  costs two changes of room.
* `ExecutionTypeCorrect`, `StepsRunInOrder`, `StatusIsTrue`, `ScoreIsTrue`,
  `CacheIsHonest`: one invariant (`ExecIInv`). `OrderLeft` says that the steps left in
  the schedule are those of the active commands without an outcome, each command's in
  order; `OutcomesRecorded` and `Progress` tie a status to the outcomes, `Scored` the
  score to the statuses. The cache is honest because what the next skill will read
  (`Believed`: the scratch of the command in a serial run, the shared one else) is where
  the robot is or nothing, until a skill moves the robot without telling it.
* `ServedTheorem`, `RestaurantTypeCorrect`: `ServiceInv` says phase by phase how much of
  the order in hand has been received and handed over (`Pending`), and that each line of
  the score is the capped sum over the orders (`Books`); it holds whichever setting,
  and when the step is run again with the orders kept.
* `OneOrderTheorem`, `PatienceTheorem`: as long as nothing was unsure, who has ordered
  sits at a handled point, so no sighting of theirs is new (`Known`); the places of a
  batch are distinct (`Visited`); the failures at a seat are at most what is counted at
  the first given-up spot near it (`Patient`), since that is the one `note_failure`
  finds again.
* `FollowTypeCorrect`: the types of the bag step hold only together with two
  facts (`TypeInv`): the microphone is held exactly while the robot speaks, and
  the main thread listens only in its own place (`HeldBySpeaker`, so the depth
  cannot exceed one); while the loop still runs a miss is left (`BudgetLeft`).
* `StillTheorem`: a velocity implies that the run is marked as having used them,
  and the only step that leads out of the follow is `BaseStop`
  (`OnlyBaseStopLeaves`), which looks at that mark.
* `ObeysOnlyTheHost`: every clip is honest wherever it is, in a recorder, in the
  main thread's own listening, in a queue, at the worker: without the robot's
  voice, and with a command only if one was given (`HonestClips`). It is inductive
  because nothing is heard while the microphone is held and the robot is audible
  only then (`HeardHonest`).
* `StreamTheorem`: a listener that is not attended by the main thread has a quiet
  recorder, and while `stop()` waits the recording is at least as old as the wait
  (`StreamInv`), because the robot does not speak then and the clock of the recording
  runs; so the join outlasts it.
* `FreshTheorem`, `RelockTheorem`: the counters of the lock mean what they count
  (`LockInv`): `miss` stays within the tolerance and is at least the number of ticks
  since the last match, `confirm` at most the number of matches in a row. With them a lock is fresh, and re-taking one takes
  `ConfirmTicks` matches.
* `HostLockImplements`: refinement with the identity for a mapping. Each tick of the
  selector hands `FollowLock` a box of its own (`SelectInBoxes`), so both theorems
  hold of it. `EnrolledTheorem`: whatever pass picked the box, its person beat every
  enrolled one by the margin (`IsHost`), which nobody enrolled can against their own
  vectors: `HostLockAssumption` says that the vectors tell enrolled people apart.
* `FacedTheorem`: in a tick that looks at faces, whoever shows another's is out of both
  later passes, and in the face pass is below the floor.
* `HriTypeCorrect`, `RecordsTheorem`: a record is written from the picture of whoever
  stands where the step looks. `Doors` and `Room` say, step by step, where the robot and
  everybody are unless a named cause came between: one guest at a time waits at the
  door and the host never does.
* `LabelsTheorem`: the face of somebody else adds nothing to a fused score, and clothes
  alone are below the floor; where faces are missing a look-alike's own record is a
  runner-up with the full score, so no label is given. The first attempt at this proof
  failed for a good reason: the property did not name two records without a face, nor a
  foreign face beside one's own clothes, among the causes, and the instance, in which
  only one guest dressed like the host, had hidden it; now all three may be mixed up.
* `SeatingTypeCorrect`, `OfferedTheorem`, `HeadOnTheorem`, `NoSeatTheorem`: in a view of the
  whole piece the regions are the cushions (`RegionsAreCushions`), so a free region is a
  cushion on which nobody was seen; a piece is taken only if everybody on it was seen
  (`NotTakenIfASeatIsFree`), thus in a whole view (`TakenIsWhole`). What is kept is what
  no kept entry of an earlier view is the same as (`KeptIs`), and every heading is asked
  for once (`Turns`), so a head-on view of the whole comes before any that cuts it off.
  The promises are carried by the pictures and the offer alone (`LooksFree`, `AllSeated`).
* `ManipulationTypes`, `RecordTheorem`: `RecordHasCause` is not inductive, because in
  the middle of a grasp the arm at work holds what the record does not know yet.
  `Work` says, phase by phase, how hand, record and `good` stand to each other:
  nothing is hidden outside "check", "tidy" and "record"; in "tidy" a success means
  something is (after a pick) or is not (after a place) between the fingers, or a
  cause has put the record wrong; a gripper opened for a grasp has put its old record
  wrong already, or did not open and still holds what it held.
* `TasksUseSkills`: refinement: a step of a task, of the agent or of the door is a
  step, a call or an answer of `Manipulation`, or leaves the arms alone. `TasksRecord`
  carries `RecordTheorem` over to whole tasks, whatever their programs.
* `ArmsTheorem`, and `TasksArms` over whole tasks: until a call fails, collision
  checking is off for the arm at work alone and only in the phases that come before
  a finally block (`OffOnlyAtWork`), so between calls it is off for none.

* `CountTheorem`: what is counted as loaded is in the dishwasher, but for one item a
  failed call, unless a drive failed or had no waypoint to go to. `CountInv`
  follows an object through the program of the dishwasher task: after a pick that said yes the item is in the hand for certain,
  unless a fault is to spare (`Certain`, `Sure`); after a place that said yes it is in the
  machine or a fault is to spare (`Spare`).

**Induction over data.** Sums over orders and nodes, the ranks of a sort and the choice of
the seats kept are defined by recursive functions or folds. Where a proof needs what
they compute, it looks at the least counterexample, a number (`LeastExists`, from
`WFMin` and `NatLessThanWellFounded`).

**Only model-checked**: liveness under fairness (`BacklogEvicted`, `StopTerminates`,
`EveryRunEnds`, `TaskEnds` of the Restaurant and of the reception, `TasksEnd`,
`WindsDown`), which is out of the prover's reach like ENABLED, and the deadlock checks. No
module with a theorem, nor one it uses, declares a RECURSIVE operator.

## 6. Where code and text disagree

`GpsrExecution_gap` is the finding of `PROJECT.json`: `plan.py` 64-67 promises a gap
for every noun that did not match; for find_object, deliver and count the room is
looked up without recording a miss (`parse.py` 195, 223, 254), and so are the
destination of follow and the origin of guide (227, 231).

The next ones are counterexamples of TLC, too. Each has its property in the module,
with a comment that says so; replacing the properties of the named configuration by
that one shows the trace.

* `PinProtectsWindow` with `Builders <- TwoBuilders` (`SnapshotBuffer`): `buffer.py`
  241 freezes the window for the body of `building()`. The pin does not count: of two
  overlapping builds, the worker's and a manual `observe()`, the first to leave clears
  it (254) and the other's frames are evicted; `load_window` skips them silently.
* `CapOnPerceptionOnly` (`SceneStore`): `store.py` 286-287 applies the cap to perception
  nodes only; lines 289 and 296 count map nodes, too, so with more map objects than the
  cap every perceived node is dropped at each build.
* `VectorIsOwn` (`SceneStore`): `store.py` 333-334 keeps "the previously cached name
  embedding" of a placeholder while the embedding server is down. `load()` pairs rows with
  nodes by position (796): after a crash between `nodes.json` and `embeddings.npy` of a
  build that reordered the nodes, a placeholder without a vector adopts another node's
  row, and the seeding keeps that.
* `NeverMoreTravel` (`GpsrSchedule`): `schedule.py` 12-16 says the order "removes the
  back-and-forth a strictly-serial run makes". With a guide from A to B and a search in B
  as one command and a drive to A as another, the serial run changes room twice (besides
  the guide's own way), the interleaved one three times: it returns to A, where it takes
  the robot to be still, and then to B. What does hold is `DetoursBounded`.
* `CacheHonest` with `Batches <- Walks` (`GpsrExecution`): `skills.py` 18-19 says
  `state["at"]` is where the robot is. `follow()` moves the robot and keeps the key, and a
  drive that fails half-way keeps the old one (233-236): the next navigate to the old
  place is skipped and reported as done.
* `OneOrderEach` (`Restaurant`): `subtasks.py` 517-520 says a still-waving customer cannot
  be served twice. The handled seats are local to `run()`, the orders are not: when the
  step raises after an order, `Task.run` (`tasks/base.py` 447-449) runs it again with an
  empty list. (`RaiseBound` has to allow a raise after an order in the default setting.)
* `TwistsAlone` (`Follow`): `navigation.py` 842-843 cancels the goal before a raw velocity,
  because it does not stop the planner. The goal of a search turn (869) is not remembered
  in `last_goto`: after a pulse the person found again is driven at with the goal live.
* `FlukeNeverCommits` (`HostLock`): `identity.py` 1435-1436 says a one-frame fluke on a
  look-alike never commits a lost lock. `_update` (1497) counts matches of anybody: one
  frame of the host and one of the look-alike commit to the look-alike.
* `GateNeverMisleads` (`HostLock`): `identity.py` 1178-1181 says the gated shortcut can
  never lock onto the wrong person. The margin against the others in view only sees the
  gated boxes (1183): a double near the last box is taken although the host outside the
  gate would have made the tick ambiguous.
* `HostRecordIsHost` (`HriTask`): `identity.py` 420-422 says a guest next to the robot cannot
  be enrolled as the host. `find_seated_person_bbox` (`seating.py` 503) takes the only
  person of the frame when nobody is matched to a seat.
* `RecordIsHeld` (`TableTasks`): `held.py` 92 says the record names what the arm holds. A
  pick opens the arm it was given without a look at the record, so what that arm held
  falls and the record stays until a place, which goes through the motion empty-handed.
* `RefusedIsNotThere` (`TableTasks`): `door.py` 366-372 takes a failed drive that ended at
  the goal for reached. The drive of the last round is not followed by that check.

Others were met while reading:

* `buffer.py` 208-209: the comment promises no entry without a file; a crash
  between the unlink and the index rewrite leaves one, and the next start skips it.
* The three files of the scene are each replaced atomically, not together
  (`store.py` 690, 757); rows are paired with nodes by position on load (796).
* `realtime_explore/config.toml` 78 says single-flight; `observe()` without a
  capture thread builds beside the pool's worker. Frames that were not buffered
  count towards a build (config.toml 77). `start()` after `stop()` captures but
  never builds: the executor is shut down (`service.py` 177).
* `tasks/GPSR/subtasks.py` 290 and `schedule.py` 5-6 say each room is visited
  once; plans that need kitchen, and office then kitchen, visit one room twice.
* `tasks/base.py`, `extract()`: the text says local back-ends skip structured
  output, `use_local` is not read.
* Restaurant: `approach_customer` says it cannot hop to another table, its
  radius is larger than the distance of tables (`skills.py` 584-586); a live
  caller known by its bearing is never blocked and never counted as a failure;
  `_lost_recover` scans without the blocked list; a short lift more than the
  handled radius from the seat is blocked nowhere; after a failed place the
  gripper still holds the item when the next is picked; two early returns of
  `live_approach_caller` leave the head's auto-tilt off.
* `walkie_world/scene/store.py` 526-527 says a room hard-filters a text query; when
  the vector search raises, the fall-back of line 566 is called without the room.
* Every build replays the newest window, so one frame may confirm an object that
  `walkie_world/config.toml` 18-19 wants seen several times (`service.py` 332).
* `tasks/skills/navigation.py` 726-727 says `on_lost` runs once; it runs at each new
  loss, as a sighting resets the count.
* GPSR: `go_to_named` takes the pose of the resolver's answer before it asks whether
  there is one, so its "honest failure" for an unresolved name is not reached; `_lead_with_reacquire` does not check for
  the [0,0,0] placeholder; the cache is compared with the name asked for, not with the
  anchor it resolved to; `resolve_place` drops a room hint it does not know and searches
  everywhere; `_ground_person_where` reads only the room.
* HRI: the early "place" of the bag step leaves the head's auto-tilt off
  (`subtasks.py` 584); without an `entrance` on the map `GoToDoor` ends in an
  unbound name where 112-113 promise a fall-back, and it goes on when the drive
  failed; `ReceiveBag` says it has the bag when it times out, and a retry opens the
  gripper again; a rerun of the introduction overwrites a known name or drink with
  nothing; `IntroduceGuests` points at the seat it offered when it does not see the
  guest; `locate_people` promises partial results on any failure, its call of
  `fused_scores` is unguarded; `PeopleStore.clear` empties its collections one after
  another.
* Seats: `llm_pick_seat` takes any index in range, a taken seat's too; the heuristic
  `pick_free_seat` does not look at whom the recogniser put where; a sofa cut off by the
  view is split into all its cushions, and a free one appears where a person sits;
  `scan_seats_sweep` ignores the answer of `rotate_to`, so the "central" view may be a
  side view; `wait_until_seated` takes a guest who still stands in view for seated.
* Following: `strafe_servo` (`navigation.py` 408-530) means to count an unavailable error
  as stalled; the next tick resets the count, so that bail-out is never reached, and its
  loop of zero velocities stops at the first that fails to publish.
* Manipulation: `creep_base_relative` and `execute_grasp_with_retry` say they never raise,
  the first odometry read of one and several calls of the other are unguarded;
  `pick_object` says so too, stow, lift and `rotate_to` may raise out of it; the untracked
  branch of `approach_object` always says it moved, and several returns leave the head's
  auto-tilt off; the re-scan of a place does not look at the minimum height again.
* Doors: the first round of `go_to_through_door` asks even when the first drive advanced;
  the callers that enter the arena pass `ask_even_if_open=False`, which the docstring's
  "arena-entry setting" contradicts.
* Inspection: `wait_for_exit_signal` "must never stall" and waits without a time-out;
  `demonstrate_safety_stop` says it was shown when nobody was seen.
* Agents: the asynchronous path of the tool grouping is not reached (every agent
  is called by `invoke`); the synchronous wrapper groups nothing.
* Devices: `stop()` of the speaker leaves its flag set, and a blocking `play`
  does not clear it; no caller does this today.

## 7. Not modelled

Open on the plan: the face tracker. Of the agents nothing is modelled but what they
may call: they are invoked synchronously, and of the tool grouping only the
asynchronous path, which no caller reaches, waits for anything. Of the HRI file the face archive, the search by caption
and the test tasks are left out; of the table tasks the sub-tasks no builder uses; of
the Restaurant the bring-up slices; of the scene store and the people store the pure
queries. Of the devices, non-blocking playback and its `stop()` are left out, as no task
uses them, and so is the typed input that replaces the microphone in development.
Numeric code (geometry, fusion, clustering, grasp selection, surface fitting), the HTTP
clients, prompts and language, and the visualisation are not modelled: their results
enter the models as free choices. Time is abstracted everywhere: a timeout is a step
that may happen.

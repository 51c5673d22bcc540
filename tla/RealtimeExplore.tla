-------------------------- MODULE RealtimeExplore --------------------------
(***************************************************************************)
(* The perception producer, services/realtime_explore/service.py: a        *)
(* capture thread appends frames to the snapshot buffer and decides when   *)
(* to submit a build; a pool of one worker replays the newest frames and   *)
(* folds them into the world; the main thread starts, stops and, on the    *)
(* manual path, captures and builds itself.                                *)
(*                                                                         *)
(* One object of interest stands for the scene: a frame either shows it or *)
(* not.  The buffer's files and pins are the business of SnapshotBuffer,   *)
(* the merge that of SceneStore.  Elapsed time is a free choice.           *)
(***************************************************************************)
EXTENDS Naturals, Sequences, FiniteSets

CONSTANTS
  Captures,    \* capture threads, one per successful start()
  Main,        \* the thread that calls start, stop and observe
  NoThread,    \* value of _thread when it is None
  EveryN,      \* WALKIE_EXPLORE_REBUILD_EVERY_N
  FirstN,      \* WALKIE_EXPLORE_FIRST_BUILD_N, at most EveryN
  BuildWindow, \* WALKIE_EXPLORE_BUILD_WINDOW; 0 is the whole buffer
  BufferCap,   \* WALKIE_EXPLORE_SNAPSHOT_CAP
  MapSeeded,   \* whether the map has seeded nodes into the world
  Manual,      \* whether main calls observe()
  MaxShots,    \* bound: camera frames
  MaxStarts    \* bound: calls of start() that create a thread

ASSUME ExploreAssumption ==
  /\ Main \notin Captures /\ NoThread \notin Captures \cup {Main}
  /\ EveryN \in Nat \ {0} /\ FirstN \in 1..EveryN
  /\ BuildWindow \in Nat /\ BufferCap \in Nat \ {0}
  /\ Manual \in BOOLEAN /\ MapSeeded \in BOOLEAN
  /\ MaxShots \in Nat /\ MaxStarts \in 0..Cardinality(Captures)

Tickers == Captures \cup {Main}

VARIABLES
  stopEvent,   \* _stop.is_set()
  thread,      \* _thread
  open,        \* _build_exec still accepts work
  stage,       \* where each ticker is in its loop, or main in stop/observe
  job,         \* state of the latest submitted build, _build_future
  queued,      \* earlier builds the pool has not started
  sinceBuild,  \* _since_build
  buffer,      \* frames in the buffer, oldest first: does it show the object?
  replay,      \* window each builder replays (the pool's worker or main)
  nObs,        \* n_obs of the object's node; 0: no node
  frames,      \* frames taken so far
  starts

control     == <<stopEvent, thread, open, starts>>
work        == <<job, queued, replay, nObs>>
ticks       == <<sinceBuild, buffer, frames>>
serviceVars == <<control, work, ticks, stage>>

Worker == "worker"
GoesTo(t, label) == stage' = [stage EXCEPT ![t] = label]

Latest(s, n) == SubSeq(s, IF n >= Len(s) THEN 1 ELSE Len(s) - n + 1, Len(s))
WindowOf(s) == IF BuildWindow = 0 THEN s ELSE Latest(s, BuildWindow)
Shown(s) == Cardinality({i \in 1..Len(s) : s[i]})

ServiceInit ==
  /\ stopEvent = FALSE /\ thread = NoThread /\ open = TRUE /\ starts = 0
  /\ stage = [t \in Tickers |-> IF t = Main THEN "idle" ELSE "unborn"]
  /\ job = "none" /\ queued = 0
  /\ replay = [b \in {Worker, Main} |-> <<>>]
  /\ nObs = 0
  /\ sinceBuild = 0 /\ buffer = <<>> /\ frames = 0

Alive(c) == stage[c] \notin {"unborn", "dead"}

-----------------------------------------------------------------------------
(* start(): a new thread, unless the one it knows of is alive. *)
Start ==
  /\ stage[Main] = "idle" /\ starts < MaxStarts
  /\ thread # NoThread => ~Alive(thread)
  /\ \E c \in Captures :
       /\ stage[c] = "unborn"
       /\ thread' = c
       /\ GoesTo(c, "loop")
  /\ stopEvent' = FALSE
  /\ starts' = starts + 1
  /\ UNCHANGED <<open, work, ticks>>

(* stop(): set the event, join for at most five seconds, drain the pool. *)
StopBegins ==
  /\ stage[Main] = "idle" /\ starts > 0
  /\ stopEvent' = TRUE
  /\ GoesTo(Main, "join")
  /\ UNCHANGED <<thread, open, starts, work, ticks>>

(* join returns when the thread is dead, or when its timeout expires on a
   thread that hangs in a camera or AI-server call. *)
StopJoins ==
  /\ stage[Main] = "join"
  /\ thread' = NoThread
  /\ open' = FALSE
  /\ GoesTo(Main, "drain")
  /\ UNCHANGED <<stopEvent, starts, work, ticks>>

(* Mutants: shutdown(wait=False); a drain that also waits for the thread. *)
StopReturnsEarly ==
  /\ stage[Main] = "drain"
  /\ GoesTo(Main, "idle")
  /\ UNCHANGED <<control, work, ticks>>

StopReturnsLate ==
  /\ stage[Main] = "drain"
  /\ job \in {"none", "done"} /\ queued = 0
  /\ \A c \in Captures : ~Alive(c)
  /\ GoesTo(Main, "idle")
  /\ UNCHANGED <<control, work, ticks>>

StopReturns ==
  /\ stage[Main] = "drain"
  /\ job \in {"none", "done"} /\ queued = 0
  /\ GoesTo(Main, "idle")
  /\ UNCHANGED <<control, work, ticks>>

-----------------------------------------------------------------------------
(* _run(): the event is read at the top of the loop only. *)
LoopChecks(c) ==
  /\ stage[c] = "loop"
  /\ GoesTo(c, IF stopEvent THEN "dead" ELSE "capture")
  /\ UNCHANGED <<control, work, ticks>>

(* After _capture_once a capture thread loops, main goes on to build. *)
AfterTick(t) == IF t = Main THEN "build" ELSE "loop"

(* observe(), the path without a capture thread: capture a frame on the caller's
   thread, then build there, beside whatever the capture submitted. *)
ObserveBegins ==
  /\ Manual /\ stage[Main] = "idle" /\ thread = NoThread
  /\ GoesTo(Main, "capture")
  /\ UNCHANGED <<control, work, ticks>>

(* _capture_once up to _buffer_frame: no usable frame; a frame with geometry
   but nothing to keep (or an append that fails); a frame that is buffered. *)
CaptureNothing(t) ==
  /\ stage[t] = "capture" /\ frames < MaxShots
  /\ frames' = frames + 1
  /\ GoesTo(t, AfterTick(t))
  /\ UNCHANGED <<control, work, sinceBuild, buffer>>

CaptureUnbuffered(t) ==
  /\ stage[t] = "capture" /\ frames < MaxShots
  /\ frames' = frames + 1
  /\ GoesTo(t, "count")
  /\ UNCHANGED <<control, work, sinceBuild, buffer>>

CaptureBuffered(t, shows) ==
  /\ stage[t] = "capture" /\ frames < MaxShots
  /\ frames' = frames + 1
  /\ buffer' = Latest(Append(buffer, shows), BufferCap)
  /\ GoesTo(t, "count")
  /\ UNCHANGED <<control, work, sinceBuild>>

(* `self._since_build += 1`, then the three early returns of _maybe_build: too
   few frames, too soon after the last build, a build still running. *)
Threshold == IF nObs = 0 /\ ~MapSeeded THEN FirstN ELSE EveryN
(* Mutant: a future that has not started does not count as running. *)
BuildStarted == job = "merge"
BuildRunning == job \in {"queued", "merge"}

CountAndDecide(t) ==
  /\ stage[t] = "count"
  /\ sinceBuild' = sinceBuild + 1
  /\ \E tooSoon \in BOOLEAN :
       GoesTo(t, IF sinceBuild' < Threshold \/ tooSoon \/ BuildRunning
               THEN AfterTick(t) ELSE "submit")
  /\ UNCHANGED <<control, work, buffer, frames>>

(* The counter is reset before submit(), which raises once the pool is shut
   down: _run logs it and goes on, observe() lets it out. *)
Submit(t) ==
  /\ stage[t] = "submit"
  /\ sinceBuild' = 0
  /\ IF open
     THEN /\ job' = "queued"
          /\ queued' = IF BuildRunning THEN queued + 1 ELSE queued
          /\ GoesTo(t, AfterTick(t))
     ELSE /\ UNCHANGED <<job, queued>>
          /\ GoesTo(t, IF t = Main THEN "idle" ELSE "loop")
  /\ UNCHANGED <<control, replay, nObs, buffer, frames>>

-----------------------------------------------------------------------------
(* _build_once(): nothing to do on an empty buffer; else replay a window, then
   hand what was seen to world.observe_objects. *)
Merged(window) == IF Shown(window) > 0 THEN nObs + Shown(window) ELSE nObs

JobEnds == IF queued > 0 THEN job' = "queued" /\ queued' = queued - 1
                         ELSE job' = "done" /\ UNCHANGED queued

WorkerLoads ==
  /\ job = "queued"
  /\ replay' = [replay EXCEPT ![Worker] = WindowOf(buffer)]
  /\ job' = "merge"
  /\ UNCHANGED <<control, queued, nObs, ticks, stage>>

WorkerMerges ==
  /\ job = "merge"
  /\ nObs' = Merged(replay[Worker])
  /\ replay' = [replay EXCEPT ![Worker] = <<>>]
  /\ JobEnds
  /\ UNCHANGED <<control, ticks, stage>>

(* build_scene raises: _safe_build logs it, observe() lets it out. *)
WorkerFails ==
  /\ job = "merge"
  /\ replay' = [replay EXCEPT ![Worker] = <<>>]
  /\ JobEnds
  /\ UNCHANGED <<control, nObs, ticks, stage>>

MainLoads ==
  /\ stage[Main] = "build"
  /\ replay' = [replay EXCEPT ![Main] = WindowOf(buffer)]
  /\ GoesTo(Main, "merge")
  /\ UNCHANGED <<control, job, queued, nObs, ticks>>

MainMerges ==
  /\ stage[Main] = "merge"
  /\ nObs' = Merged(replay[Main])
  /\ replay' = [replay EXCEPT ![Main] = <<>>]
  /\ GoesTo(Main, "idle")
  /\ UNCHANGED <<control, job, queued, ticks>>

MainFails ==
  /\ stage[Main] = "merge"
  /\ replay' = [replay EXCEPT ![Main] = <<>>]
  /\ GoesTo(Main, "idle")
  /\ UNCHANGED <<control, job, queued, nObs, ticks>>

Tick(t) ==
  \/ CaptureNothing(t) \/ CaptureUnbuffered(t)
  \/ \E shows \in BOOLEAN : CaptureBuffered(t, shows)
  \/ CountAndDecide(t) \/ Submit(t)

StopStep == StopJoins \/ StopReturns
WorkerStep == WorkerLoads \/ WorkerMerges \/ WorkerFails

ServiceNext ==
  \/ Start \/ StopBegins \/ StopStep
  \/ ObserveBegins \/ MainLoads \/ MainMerges \/ MainFails
  \/ \E c \in Captures : LoopChecks(c)
  \/ \E t \in Tickers : Tick(t)
  \/ WorkerStep

ServiceSpec == ServiceInit /\ [][ServiceNext]_serviceVars

(* The worker and main run; a capture thread may hang in a call for ever. *)
ServiceFairSpec == ServiceSpec /\ WF_serviceVars(StopStep) /\ WF_serviceVars(WorkerStep)

-----------------------------------------------------------------------------
(* Properties *)

ServiceTypeOK ==
  /\ stopEvent \in BOOLEAN /\ thread \in Captures \cup {NoThread} /\ open \in BOOLEAN
  /\ stage \in [Tickers -> {"unborn", "dead", "loop", "idle", "join", "drain",
                         "capture", "count", "submit", "build", "merge"}]
  /\ job \in {"none", "queued", "merge", "done"} /\ queued \in Nat
  /\ replay \in [{Worker, Main} -> Seq(BOOLEAN)]
  /\ buffer \in Seq(BOOLEAN) /\ Len(buffer) <= BufferCap
  /\ sinceBuild \in 0..MaxShots
  /\ frames \in 0..MaxShots /\ nObs \in Nat
  /\ starts \in 0..MaxStarts

(* "single-flight (one build at a time)": a second build is never submitted to
   the pool while one is queued or running there, whichever capture threads are
   still alive and whoever calls observe() without one. *)
SingleFlight == queued = 0

(* stop() drains: once it has returned, the world only changes if main builds
   by hand, however long a capture thread that missed the join lives on. *)
QuietAfterStop ==
  [][~open /\ stage[Main] = "idle" => nObs' = nObs]_serviceVars

(* stop() returns even when the capture thread hangs in a call. *)
StopTerminates == (stage[Main] = "join") ~> (stage[Main] = "idle")

=============================================================================

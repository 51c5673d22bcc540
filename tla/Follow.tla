------------------------------- MODULE Follow -------------------------------
(* Following the host with the bag: FollowHostAndDropBag (tasks/HRI/          *)
(* subtasks.py), follow_person (tasks/skills/navigation.py), CommandListener   *)
(* (tasks/skills/listening.py), the microphone's pause and the speaker that    *)
(* holds it (interfaces/devices).                                              *)
(*                                                                             *)
(* Three threads share one microphone and one robot: the main thread drives    *)
(* and speaks, a recorder captures clips, a worker has them transcribed and    *)
(* classified.  A step that raises is run again with a new listener, so there  *)
(* is one listener per attempt, and threads of the last may outlive it.        *)
EXTENDS Naturals, Sequences, FiniteSets

CONSTANTS
    Attempts,        \* runs of the step: max_retries + 1
    FollowTimeout,   \* HRI_FOLLOW_TIMEOUT_SEC, in ticks of the clock
    RecordTimeout,   \* HRI_FOLLOW_RECORD_TIMEOUT_SEC
    JoinMargin,      \* what stop() waits beyond the record timeout
    MaxLost,         \* HRI_FOLLOW_MAX_LOST
    CmdVel,          \* the settings of HRI_FOLLOW_CMDVEL: a set of booleans
    MaxClips,        \* bound on the clips one listener records
    MaxWords         \* bound on the words spoken in the room

ASSUME FollowAssumption ==
    /\ Attempts \in Nat \ {0}
    /\ {FollowTimeout, RecordTimeout, MaxLost} \subseteq Nat \ {0}
    /\ {JoinMargin, MaxClips, MaxWords} \subseteq Nat
    /\ CmdVel \subseteq BOOLEAN

Listeners == 1 .. Attempts
Sentinel == {"None"}                    \* what stop() puts to wake the worker
Sounds == {"chatter", "place", "robot"} \* what a clip may hold
Clips == SUBSET Sounds

VARIABLES
    main,        \* where the main thread is
    after,       \* where it goes when it has spoken
    attempt,     \* which run of the step this is
    reason,      \* why the robot stops where it is
    hasBag,      \* ctx.data["has_bag"]
    chase,       \* the locals of follow_person
    base,        \* what the base has been told to do
    speech,      \* where Speaker._play_stream is
    pauseDepth,  \* Microphone._pause_depth
    rec,         \* the recorder of each listener: [pc, clip, used, clips]
    ear,         \* the clip of the main thread's own ctx.listen
    wrk,         \* the worker of each listener: [pc, clip]
    queue,       \* CommandListener._queue
    stopSet,     \* CommandListener._stop
    triggered,   \* CommandListener.triggered
    elapsed,     \* time since follow_person set its deadline
    waited,      \* time spent in the current join
    words        \* what has been said in the room, and how much

mainVars == <<main, after, attempt, reason, hasBag>>
voiceVars == <<speech, pauseDepth>>
threadVars == <<rec, wrk, queue, stopSet, triggered>>
timeVars == <<elapsed, waited>>
vars == <<mainVars, chase, base, voiceVars, ear, threadVars, timeVars, words>>

(* The events of a microphone are set exactly while its depth is positive. *)
Paused == pauseDepth > 0

(* The robot can be heard from its first sample until the output has drained. *)
Audible == speech = "playing"

MainType ==
    /\ main \in {"begin", "say", "listen", "enter", "loop", "search", "ended",
                 "unwind", "stop", "joinRecorder", "joinWorker", "place", "done"}
    /\ after \in {"listen", "enter", "search", "unwind", "done"}
    /\ attempt \in Listeners
    /\ reason \in {"none", "told", "stopped", "lost", "timeout", "raised"}
    /\ hasBag \in BOOLEAN

DriveType ==
    /\ chase \in [lost : 0 .. MaxLost, cmdvelMode : BOOLEAN, usedCmdvel : BOOLEAN,
                  lastGoto : BOOLEAN, cmdvelOn : CmdVel]
    /\ base \in [twist : BOOLEAN, goal : BOOLEAN]

VoiceType ==
    /\ speech \in {"silent", "muted", "playing", "drained"}
    /\ pauseDepth \in 0 .. 1

RecorderState ==
    [pc : {"off", "top", "recording", "captured"}, clip : Clips, used : 0 .. RecordTimeout,
     clips : 0 .. MaxClips]

RecorderType == rec \in [Listeners -> RecorderState]

WorkerType ==
    /\ wrk \in [Listeners -> [pc : {"off", "get", "transcribing"}, clip : Clips]]
    /\ queue \in [Listeners -> Seq(Clips \cup {Sentinel})]
    /\ stopSet \in [Listeners -> BOOLEAN]
    /\ triggered \in [Listeners -> BOOLEAN]

RoomType ==
    /\ ear \in [open : BOOLEAN, clip : Clips]
    /\ elapsed \in 0 .. FollowTimeout
    /\ waited \in 0 .. RecordTimeout + JoinMargin
    /\ words \in [said : 0 .. MaxWords, now : {"none", "chatter", "place"}, place : BOOLEAN]

TypeOK ==
    MainType /\ DriveType /\ VoiceType /\ RecorderType /\ WorkerType /\ RoomType

(* What follow_person starts from.  *)
Locals(on) == [lost |-> 0, cmdvelMode |-> FALSE, usedCmdvel |-> FALSE, lastGoto |-> FALSE,
               cmdvelOn |-> on]

(* A recorder that is not running.  *)
Off == [pc |-> "off", clip |-> {}, used |-> 0, clips |-> 0]

Init ==
    /\ main = "begin" /\ after = "done" /\ attempt = 1 /\ reason = "none"
    /\ hasBag = TRUE
    /\ \E on \in CmdVel : chase = Locals(on)
    /\ base = [twist |-> FALSE, goal |-> FALSE]
    /\ speech = "silent" /\ pauseDepth = 0
    /\ rec = [l \in Listeners |-> Off]
    /\ ear = [open |-> FALSE, clip |-> {}]
    /\ wrk = [l \in Listeners |-> [pc |-> "off", clip |-> {}]]
    /\ queue = [l \in Listeners |-> <<>>]
    /\ stopSet = [l \in Listeners |-> FALSE]
    /\ triggered = [l \in Listeners |-> FALSE]
    /\ elapsed = 0 /\ waited = 0
    /\ words = [said |-> 0, now |-> "none", place |-> FALSE]

-----------------------------------------------------------------------------
(* The room: somebody speaks, a word ends; time passes; the base moves.  *)

Speak(w) ==
    /\ words.now = "none" /\ words.said < MaxWords
    /\ words' = [said |-> words.said + 1, now |-> w, place |-> words.place \/ w = "place"]
    /\ UNCHANGED <<mainVars, chase, base, voiceVars, ear, threadVars, timeVars>>

FallSilent ==
    /\ words.now # "none"
    /\ words' = [words EXCEPT !.now = "none"]
    /\ UNCHANGED <<mainVars, chase, base, voiceVars, ear, threadVars, timeVars>>

(* The base has reached its goal, or the cmd_vel watchdog has stopped it.  *)
Arrive ==
    /\ base.goal
    /\ base' = [base EXCEPT !.goal = FALSE]
    /\ UNCHANGED <<mainVars, chase, voiceVars, ear, threadVars, timeVars, words>>

Watchdog ==
    /\ base.twist
    /\ base' = [base EXCEPT !.twist = FALSE]
    /\ UNCHANGED <<mainVars, chase, voiceVars, ear, threadVars, timeVars, words>>

Earlier(n, bound) == IF n < bound THEN n + 1 ELSE bound

(* The deadline runs from before the acknowledgement to the end of the loop.  *)
Following == main \in {"enter", "loop", "search"}
                \/ (main = "say" /\ after \in {"enter", "search"})

Joining == main \in {"joinRecorder", "joinWorker"}

(* A recording past its timeout ends before time goes on, and a recorder does  *)
(* not take a unit of time to hand a clip over or to look at the stop flag.    *)
Prompt(l) ==
    /\ rec[l].pc = "recording" => rec[l].used < RecordTimeout
    /\ rec[l].pc = "captured" => FALSE
    /\ rec[l].pc = "top" => rec[l].clips = MaxClips /\ ~stopSet[l]

(* Time the robot speaks does not count against a recording.  *)
Tick ==
    /\ \A l \in Listeners : Prompt(l)
    /\ elapsed' = IF Following THEN Earlier(elapsed, FollowTimeout) ELSE elapsed
    /\ waited' = IF Joining THEN Earlier(waited, RecordTimeout + JoinMargin) ELSE waited
    /\ rec' = [l \in Listeners |->
                 IF rec[l].pc = "recording" /\ ~Paused
                 THEN [rec[l] EXCEPT !.used = @ + 1] ELSE rec[l]]
    /\ <<elapsed', waited', rec'>> # <<elapsed, waited, rec>>
    /\ UNCHANGED <<mainVars, chase, base, voiceVars, ear, wrk, queue, stopSet, triggered, words>>

-----------------------------------------------------------------------------
(* The speaker: a blocking play_stream mutes the microphone before the first   *)
(* sample and frees it when the output has drained.                            *)

Say(then) == main' = "say" /\ after' = then

Mute ==
    /\ main = "say" /\ speech = "silent"
    /\ speech' = "muted" /\ pauseDepth' = pauseDepth + 1
    /\ UNCHANGED <<mainVars, chase, base, ear, threadVars, timeVars, words>>

(* Mutant of Play: only opening the stream is muted.  *)
PlayUnmuted ==
    /\ speech = "muted"
    /\ speech' = "playing" /\ pauseDepth' = pauseDepth - 1
    /\ UNCHANGED <<mainVars, chase, base, ear, threadVars, timeVars, words>>

Play ==
    /\ speech = "muted"
    /\ speech' = "playing"
    /\ UNCHANGED <<mainVars, chase, base, pauseDepth, ear, threadVars, timeVars, words>>

Drain ==
    /\ speech = "playing"
    /\ speech' = "drained"
    /\ UNCHANGED <<mainVars, chase, base, pauseDepth, ear, threadVars, timeVars, words>>

(* Also when the stream broke off: it is closed, and silent, at once.  *)
Unmute ==
    /\ speech \in {"muted", "playing", "drained"}
    /\ speech' = "silent"
    /\ pauseDepth' = IF pauseDepth > 0 THEN pauseDepth - 1 ELSE 0
    /\ main' = after /\ after' = "done"
    /\ UNCHANGED <<attempt, reason, hasBag, chase, base, ear, threadVars, timeVars, words>>

(* TTS or the speaker failed before it opened: the text is only printed.  *)
SayNothing ==
    /\ main = "say" /\ speech = "silent"
    /\ main' = after /\ after' = "done"
    /\ UNCHANGED <<attempt, reason, hasBag, chase, base, voiceVars, ear, threadVars,
                   timeVars, words>>

-----------------------------------------------------------------------------
(* The microphone, the recorder and the worker.                                *)

Heard == (IF words.now = "none" THEN {} ELSE {words.now})
            \cup (IF Audible THEN {"robot"} ELSE {})

(* The callback of the input stream: what comes while paused is dropped.  *)
Chunk(l) ==
    /\ rec[l].pc = "recording" /\ ~Paused
    /\ rec' = [rec EXCEPT ![l].clip = @ \cup Heard]
    /\ UNCHANGED <<mainVars, chase, base, voiceVars, ear, wrk, queue, stopSet, triggered,
                   timeVars, words>>

Record(l) ==
    /\ rec[l].pc = "top" /\ ~stopSet[l] /\ rec[l].clips < MaxClips
    /\ rec' = [rec EXCEPT ![l] = [pc |-> "recording", clip |-> {}, used |-> 0,
                                  clips |-> @.clips + 1]]
    /\ UNCHANGED <<mainVars, chase, base, voiceVars, ear, wrk, queue, stopSet, triggered,
                   timeVars, words>>

(* Speech has ended, or the timeout: only the end of the stream, as recording   *)
(* does not look at the stop flag.                                              *)
RecordEnds(l) ==
    /\ rec[l].pc = "recording"
    /\ (rec[l].clip # {} /\ ~Paused) \/ rec[l].used = RecordTimeout
    /\ rec' = [rec EXCEPT ![l].pc = "captured", ![l].used = 0]
    /\ UNCHANGED <<mainVars, chase, base, voiceVars, ear, wrk, queue, stopSet, triggered,
                   timeVars, words>>

(* The device raised: the loop tries again.  *)
RecordFails(l) ==
    /\ rec[l].pc = "recording"
    /\ rec' = [rec EXCEPT ![l].pc = "top", ![l].clip = {}, ![l].used = 0]
    /\ UNCHANGED <<mainVars, chase, base, voiceVars, ear, wrk, queue, stopSet, triggered,
                   timeVars, words>>

(* A clip that heard nothing may be silence or hold no sample at all.  *)
HandOff(l) ==
    /\ rec[l].pc = "captured"
    /\ \E samples \in {TRUE, rec[l].clip # {}} :
          queue' = [queue EXCEPT ![l] = IF stopSet[l] \/ ~samples THEN @
                                        ELSE Append(@, rec[l].clip)]
    /\ rec' = [rec EXCEPT ![l].pc = "top", ![l].clip = {}]
    /\ UNCHANGED <<mainVars, chase, base, voiceVars, ear, wrk, stopSet, triggered, timeVars,
                   words>>

RecorderLeaves(l) ==
    /\ rec[l].pc = "top" /\ stopSet[l]
    /\ rec' = [rec EXCEPT ![l] = Off]
    /\ UNCHANGED <<mainVars, chase, base, voiceVars, ear, wrk, queue, stopSet, triggered,
                   timeVars, words>>

(* Where the worker's loop goes: it tests the flag, then waits for an item.  *)
Again(l) == IF stopSet[l] THEN "off" ELSE "get"

Get(l) ==
    /\ wrk[l].pc = "get" /\ queue[l] # <<>>
    /\ queue' = [queue EXCEPT ![l] = Tail(@)]
    /\ wrk' = [wrk EXCEPT ![l] = IF Head(queue[l]) = Sentinel
                                 THEN [pc |-> "off", clip |-> {}]
                                 ELSE [pc |-> "transcribing", clip |-> Head(queue[l])]]
    /\ UNCHANGED <<mainVars, chase, base, voiceVars, ear, rec, stopSet, triggered, timeVars,
                   words>>

(* A clip is understood as a command only if it holds one, or the robot's own   *)
(* voice, which speaks of the bag; it may always be missed.                     *)
Understood(clip) == {FALSE} \cup (IF clip \cap {"place", "robot"} # {} THEN {TRUE} ELSE {})

Transcribe(l) ==
    /\ wrk[l].pc = "transcribing"
    /\ \E place \in Understood(wrk[l].clip) :
          triggered' = [triggered EXCEPT ![l] = @ \/ place]
    /\ wrk' = [wrk EXCEPT ![l] = [pc |-> Again(l), clip |-> {}]]
    /\ UNCHANGED <<mainVars, chase, base, voiceVars, ear, rec, queue, stopSet, timeVars, words>>

-----------------------------------------------------------------------------
(* The main thread: FollowHostAndDropBag.run up to the follow.                 *)

(* A step that raises is run again, or given up (tasks/base.py).  *)
Fail ==
    IF attempt < Attempts
    THEN main' = "begin" /\ attempt' = attempt + 1
    ELSE main' = "done" /\ UNCHANGED attempt

Begin ==
    /\ main = "begin"
    /\ reason' = "none"
    /\ \/ ~hasBag /\ main' = "done" /\ UNCHANGED <<after, attempt>>
       \/ hasBag /\ Say("listen") /\ UNCHANGED attempt
       \/ hasBag /\ Fail /\ UNCHANGED after              \* the head does not answer
    /\ UNCHANGED <<hasBag, chase, base, voiceVars, ear, threadVars, timeVars, words>>

Listen ==
    /\ main = "listen" /\ ~ear.open
    /\ ear' = [open |-> TRUE, clip |-> {}]
    /\ UNCHANGED <<mainVars, chase, base, voiceVars, threadVars, timeVars, words>>

Hear ==
    /\ ear.open /\ ~Paused
    /\ ear' = [ear EXCEPT !.clip = @ \cup Heard]
    /\ UNCHANGED <<mainVars, chase, base, voiceVars, threadVars, timeVars, words>>

(* The answer: put it here, or lead the way; the deadline of follow_person runs *)
(* from before it acknowledges.                                                 *)
Answer ==
    /\ ear.open
    /\ ear' = [open |-> FALSE, clip |-> {}]
    /\ \E place \in Understood(ear.clip) :
          IF place
          THEN main' = "place" /\ reason' = "told" /\ UNCHANGED after
          ELSE Say("enter") /\ UNCHANGED reason
    /\ UNCHANGED <<attempt, hasBag, chase, base, voiceVars, threadVars, timeVars, words>>

(* CommandListener.start.  *)
Enter ==
    /\ main = "enter"
    /\ main' = "loop"
    /\ rec' = [rec EXCEPT ![attempt].pc = "top"]
    /\ wrk' = [wrk EXCEPT ![attempt].pc = "get"]
    /\ UNCHANGED <<after, attempt, reason, hasBag, chase, base, voiceVars, ear, queue, stopSet,
                   triggered, timeVars, words>>

-----------------------------------------------------------------------------
(* The loop of follow_person.                                                  *)

Going == main = "loop" /\ elapsed < FollowTimeout /\ ~triggered[attempt]

(* How far off the target of a tick is: the person as lifted and led by the     *)
(* fitted velocity, extrapolated from that velocity (MotionPredictor), or the   *)
(* last point while the grace lasts.  Unknown without odometry.                 *)
Bands == {"near", "between", "far", "unknown"}

(* The close-range regime, with hysteresis; without odometry it stays as it was. *)

Close(band) ==
    chase.cmdvelOn /\ (band = "near" \/ (band = "between" /\ chase.cmdvelMode))

ModeAfter(band) == IF band = "unknown" THEN chase.cmdvelMode ELSE Close(band)

(* approach_point_cmdvel: one velocity, held until the next command.  A goal is  *)
(* left as it is, live unless the tick has cancelled it.                         *)
Twisted == [twist |-> TRUE, goal |-> base.goal /\ ~chase.lastGoto]

(* approach_point: a goal that is not waited for.  Navigation may refuse it; one *)
(* cancelled for a pulse that then failed stays cancelled.                       *)
Sent(band) ==
    {[base EXCEPT !.goal = taken \/ (@ /\ ~(Close(band) /\ chase.lastGoto))] : taken \in BOOLEAN}

(* rotate_by without waiting: a turn is a goal too, or nothing without odometry. *)
Turned == {[base EXCEPT !.goal = @ \/ taken] : taken \in BOOLEAN}

(* A velocity pulse, after cancelling the goal if the last drive command was one. *)
Pulse(band) ==
    /\ Going /\ Close(band)
    /\ base' = Twisted
    /\ chase' = [chase EXCEPT !.lost = 0, !.cmdvelMode = TRUE, !.usedCmdvel = TRUE,
                              !.lastGoto = FALSE]
    /\ UNCHANGED <<mainVars, voiceVars, ear, threadVars, timeVars, words>>

(* Mutant of GoTo: the flag remembers only the last tick.  *)
GoToForgetting(band) ==
    /\ Going
    /\ base' \in Sent(band)
    /\ chase' = [chase EXCEPT !.lost = 0, !.cmdvelMode = ModeAfter(band), !.lastGoto = TRUE,
                              !.usedCmdvel = FALSE]
    /\ UNCHANGED <<mainVars, voiceVars, ear, threadVars, timeVars, words>>

(* Far off, without the regime, or where the pulse failed.  *)
GoTo(band) ==
    /\ Going
    /\ base' \in Sent(band)
    /\ chase' = [chase EXCEPT !.lost = 0, !.cmdvelMode = ModeAfter(band), !.lastGoto = TRUE]
    /\ UNCHANGED <<mainVars, voiceVars, ear, threadVars, timeVars, words>>

(* No detection, no prediction, the grace is over.  The first miss in a row is  *)
(* told to the host.                                                            *)
Miss ==
    /\ Going
    /\ chase' = [chase EXCEPT !.lost = @ + 1]
    /\ IF chase.lost = 0 THEN Say("search") ELSE main' = "search" /\ UNCHANGED after
    /\ UNCHANGED <<attempt, reason, hasBag, base, voiceVars, ear, threadVars, timeVars, words>>

(* The turn towards the side it was last seen on is a goal too (rotate_by).  *)
Search ==
    /\ main = "search"
    /\ IF chase.lost >= MaxLost
       THEN main' = "ended" /\ reason' = "lost" /\ UNCHANGED base
       ELSE /\ main' = "loop" /\ UNCHANGED reason
            /\ base' \in Turned
    /\ UNCHANGED <<after, attempt, hasBag, chase, voiceVars, ear, threadVars, timeVars, words>>

TimedOut ==
    /\ main = "loop" /\ ~Going
    /\ main' = "ended" /\ reason' = "timeout"
    /\ UNCHANGED <<after, attempt, hasBag, chase, base, voiceVars, ear, threadVars, timeVars,
                   words>>

(* After the loop the event has the last word: it was heard, so say so.  *)
Ended ==
    /\ main = "ended"
    /\ IF triggered[attempt]
       THEN Say("unwind") /\ reason' = "stopped"
       ELSE main' = "unwind" /\ UNCHANGED <<after, reason>>
    /\ UNCHANGED <<attempt, hasBag, chase, base, voiceVars, ear, threadVars, timeVars, words>>

(* Selecting or lifting the person raised.  *)
Raise ==
    /\ Going
    /\ main' = "unwind" /\ reason' = "raised"
    /\ UNCHANGED <<after, attempt, hasBag, chase, base, voiceVars, ear, threadVars, timeVars,
                   words>>

(* The way out: the base first (_follow_base_stop), then the listener's stop.  *)
BaseStop ==
    /\ main = "unwind"
    /\ main' = "stop"
    /\ base' = IF chase.usedCmdvel THEN [twist |-> FALSE, goal |-> FALSE] ELSE base
    /\ UNCHANGED <<after, attempt, reason, hasBag, chase, voiceVars, ear, threadVars, timeVars,
                   words>>

(* Mutant of Stop: nothing wakes the worker.  *)
StopSilently ==
    /\ main = "stop"
    /\ main' = "joinRecorder" /\ waited' = 0
    /\ stopSet' = [stopSet EXCEPT ![attempt] = TRUE]
    /\ UNCHANGED <<after, attempt, reason, hasBag, chase, base, voiceVars, ear, rec, wrk, queue,
                   triggered, elapsed, words>>

Stop ==
    /\ main = "stop"
    /\ main' = "joinRecorder" /\ waited' = 0
    /\ stopSet' = [stopSet EXCEPT ![attempt] = TRUE]
    /\ queue' = [queue EXCEPT ![attempt] = Append(@, Sentinel)]
    /\ UNCHANGED <<after, attempt, reason, hasBag, chase, base, voiceVars, ear, rec, wrk,
                   triggered, elapsed, words>>

(* Mutant of JoinRecorder: it waits a moment, not for a whole recording.  *)
JoinBriefly ==
    /\ main = "joinRecorder"
    /\ rec[attempt].pc = "off" \/ waited >= JoinMargin
    /\ main' = "joinWorker" /\ waited' = 0
    /\ UNCHANGED <<after, attempt, reason, hasBag, chase, base, voiceVars, ear, threadVars,
                   elapsed, words>>

JoinRecorder ==
    /\ main = "joinRecorder"
    /\ rec[attempt].pc = "off" \/ waited = RecordTimeout + JoinMargin
    /\ main' = "joinWorker" /\ waited' = 0
    /\ UNCHANGED <<after, attempt, reason, hasBag, chase, base, voiceVars, ear, threadVars,
                   elapsed, words>>

(* follow_person returns, and its locals are gone.  *)
JoinWorker ==
    /\ main = "joinWorker"
    /\ wrk[attempt].pc = "off" \/ waited = RecordTimeout + JoinMargin
    /\ waited' = 0 /\ elapsed' = 0
    /\ chase' = Locals(chase.cmdvelOn)
    /\ IF reason = "raised" THEN Fail ELSE main' = "place" /\ UNCHANGED attempt
    /\ UNCHANGED <<after, reason, hasBag, base, voiceVars, ear, threadVars, words>>

(* The head does not answer after the follow.  *)
HeadFails ==
    /\ main = "place" /\ reason # "told"
    /\ Fail
    /\ UNCHANGED <<after, reason, hasBag, chase, base, voiceVars, ear, threadVars, timeVars,
                   words>>

(* _place_bag: what the arm raises is swallowed.  *)
Place ==
    /\ main = "place"
    /\ hasBag' = FALSE
    /\ Say("done")
    /\ UNCHANGED <<attempt, reason, chase, base, voiceVars, ear, threadVars, timeVars, words>>

-----------------------------------------------------------------------------
Speaker == Mute \/ Play \/ Drain \/ Unmute \/ SayNothing

Main ==
    \/ Speaker \/ Begin \/ Listen \/ Answer \/ Enter
    \/ \E band \in Bands : Pulse(band) \/ GoTo(band)
    \/ Miss \/ Search \/ TimedOut \/ Ended \/ Raise
    \/ BaseStop \/ Stop \/ JoinRecorder \/ JoinWorker \/ HeadFails \/ Place

Recorder(l) == Record(l) \/ RecordEnds(l) \/ HandOff(l) \/ RecorderLeaves(l)

Worker(l) == Get(l) \/ Transcribe(l)

Room == FallSilent \/ \E w \in {"chatter", "place"} : Speak(w)

(* The step is over and so are its threads.  *)
Over ==
    /\ main = "done"
    /\ \A l \in Listeners : rec[l].pc = "off" /\ wrk[l].pc = "off"

(* Past its end the step waits for nothing, whatever its threads do.  *)
Rest == main = "done" /\ UNCHANGED vars

Next ==
    \/ Main \/ Hear \/ Tick \/ Room \/ Arrive \/ Watchdog \/ Rest
    \/ \E l \in Listeners : Recorder(l) \/ RecordFails(l) \/ Chunk(l) \/ Worker(l)

Spec == Init /\ [][Next]_vars

(* Threads are scheduled, calls to the server return, and time goes on.  *)
FairSpec ==
    /\ Spec
    /\ WF_vars(Main) /\ WF_vars(Tick)
    /\ \A l \in Listeners : WF_vars(Recorder(l)) /\ WF_vars(Worker(l))
=============================================================================

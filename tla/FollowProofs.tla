---------------------------- MODULE FollowProofs ----------------------------
(* What holds of the bag step for any number of attempts, clips and words, and  *)
(* for every setting of its timeouts.                                           *)
EXTENDS MCFollow, SequenceTheorems, FiniteSetTheorems, TLAPS

USE DEF mainVars, voiceVars, threadVars, timeVars, vars

LEMMA Settings ==
    /\ Attempts \in Nat /\ 1 \in 1 .. Attempts
    /\ FollowTimeout \in Nat /\ RecordTimeout \in Nat /\ JoinMargin \in Nat
    /\ MaxLost \in Nat /\ MaxLost > 0
    /\ MaxClips \in Nat /\ MaxWords \in Nat
  BY FollowAssumption

-----------------------------------------------------------------------------
(* Who changes what.                                                           *)

(* The main thread alone moves itself. *)
LEMMA MainChanges ==
    [Next]_vars =>
      \/ UNCHANGED mainVars
      \/ Unmute \/ SayNothing \/ Begin \/ Answer \/ Enter \/ Miss \/ Search
      \/ TimedOut \/ Ended \/ Raise \/ BaseStop \/ Stop \/ JoinRecorder
      \/ JoinWorker \/ HeadFails \/ Place
  BY DEF Next, Main, Speaker, Room, Recorder, Worker, Speak, FallSilent, Arrive, Watchdog, Tick,
     Mute, Play, Drain, Unmute, SayNothing, Begin, Listen, Hear, Answer, Enter, Miss, Search,
     TimedOut, Ended, Raise, BaseStop, Stop, JoinRecorder, JoinWorker, HeadFails, Place, Rest,
     Chunk, Record, RecordEnds, RecordFails, HandOff, RecorderLeaves, Get, Transcribe, Pulse,
     GoTo, Fail, Say

(* The base and the locals of the follow. *)
LEMMA DriveChanges ==
    [Next]_vars =>
      \/ UNCHANGED <<chase, base>>
      \/ Arrive \/ Watchdog \/ Miss \/ Search \/ BaseStop \/ JoinWorker
      \/ \E band \in Bands : Pulse(band) \/ GoTo(band)
  BY DEF Next, Main, Speaker, Room, Recorder, Worker, Speak, FallSilent, Arrive, Watchdog, Tick,
     Mute, Play, Drain, Unmute, SayNothing, Begin, Listen, Hear, Answer, Enter, Miss, Search,
     TimedOut, Ended, Raise, BaseStop, Stop, JoinRecorder, JoinWorker, HeadFails, Place, Rest,
     Chunk, Record, RecordEnds, RecordFails, HandOff, RecorderLeaves, Get, Transcribe, Pulse,
     GoTo, Fail, Say

(* The speaker holds and frees the microphone. *)
LEMMA VoiceChanges ==
    [Next]_vars =>
      \/ UNCHANGED voiceVars
      \/ Mute \/ Play \/ Drain \/ Unmute
  BY DEF Next, Main, Speaker, Room, Recorder, Worker, Speak, FallSilent, Arrive, Watchdog, Tick,
     Mute, Play, Drain, Unmute, SayNothing, Begin, Listen, Hear, Answer, Enter, Miss, Search,
     TimedOut, Ended, Raise, BaseStop, Stop, JoinRecorder, JoinWorker, HeadFails, Place, Rest,
     Chunk, Record, RecordEnds, RecordFails, HandOff, RecorderLeaves, Get, Transcribe, Pulse,
     GoTo, Fail, Say

(* The recorders. *)
LEMMA RecorderChanges ==
    [Next]_vars =>
      \/ UNCHANGED rec
      \/ Tick \/ Enter
      \/ \E l \in Listeners :
            Chunk(l) \/ Record(l) \/ RecordEnds(l) \/ RecordFails(l) \/ HandOff(l)
              \/ RecorderLeaves(l)
  BY DEF Next, Main, Speaker, Room, Recorder, Worker, Speak, FallSilent, Arrive, Watchdog, Tick,
     Mute, Play, Drain, Unmute, SayNothing, Begin, Listen, Hear, Answer, Enter, Miss, Search,
     TimedOut, Ended, Raise, BaseStop, Stop, JoinRecorder, JoinWorker, HeadFails, Place, Rest,
     Chunk, Record, RecordEnds, RecordFails, HandOff, RecorderLeaves, Get, Transcribe, Pulse,
     GoTo, Fail, Say

(* The queues and the workers. *)
LEMMA WorkerChanges ==
    [Next]_vars =>
      \/ UNCHANGED <<wrk, queue, stopSet, triggered>>
      \/ Enter \/ Stop
      \/ \E l \in Listeners : HandOff(l) \/ Get(l) \/ Transcribe(l)
  BY DEF Next, Main, Speaker, Room, Recorder, Worker, Speak, FallSilent, Arrive, Watchdog, Tick,
     Mute, Play, Drain, Unmute, SayNothing, Begin, Listen, Hear, Answer, Enter, Miss, Search,
     TimedOut, Ended, Raise, BaseStop, Stop, JoinRecorder, JoinWorker, HeadFails, Place, Rest,
     Chunk, Record, RecordEnds, RecordFails, HandOff, RecorderLeaves, Get, Transcribe, Pulse,
     GoTo, Fail, Say

(* The room, the clocks and the ear of the main thread. *)
LEMMA RoomChanges ==
    [Next]_vars =>
      \/ UNCHANGED <<ear, timeVars, words>>
      \/ FallSilent \/ Tick \/ Listen \/ Hear \/ Answer \/ Stop
      \/ JoinRecorder \/ JoinWorker
      \/ \E w \in {"chatter", "place"} : Speak(w)
  BY DEF Next, Main, Speaker, Room, Recorder, Worker, Speak, FallSilent, Arrive, Watchdog, Tick,
     Mute, Play, Drain, Unmute, SayNothing, Begin, Listen, Hear, Answer, Enter, Miss, Search,
     TimedOut, Ended, Raise, BaseStop, Stop, JoinRecorder, JoinWorker, HeadFails, Place, Rest,
     Chunk, Record, RecordEnds, RecordFails, HandOff, RecorderLeaves, Get, Transcribe, Pulse,
     GoTo, Fail, Say

-----------------------------------------------------------------------------
(* Types.                                                                      *)

(* Before and in the loop the search budget is not used up.  *)
BudgetLeft ==
    main \in {"begin", "listen", "enter", "loop", "place"}
        \/ (main = "say" /\ after \in {"listen", "enter"})
    => chase.lost < MaxLost

(* The microphone is held once, and exactly while the robot speaks; the ear is   *)
(* open only while the main thread listens.                                      *)
HeldBySpeaker ==
    /\ pauseDepth = IF speech = "silent" THEN 0 ELSE 1
    /\ speech # "silent" => main = "say"
    /\ ear.open => main = "listen"

TypeInv == TypeOK /\ HeldBySpeaker /\ BudgetLeft

LEMMA InitType == Init => TypeInv
<1> SUFFICES ASSUME Init PROVE TypeInv
  OBVIOUS
<1> USE Settings DEF Init, Listeners, Locals, Off, Clips
<1>1. MainType /\ DriveType /\ VoiceType /\ RoomType
  BY DEF MainType, DriveType, VoiceType, RoomType
<1>2. RecorderType
  BY DEF RecorderType, RecorderState
<1>3. WorkerType
  <2>1. <<>> \in Seq(Clips \cup {Sentinel})
    OBVIOUS
  <2> QED BY <2>1 DEF WorkerType
<1>4. HeldBySpeaker /\ BudgetLeft
  BY DEF HeldBySpeaker, BudgetLeft
<1> QED BY <1>1, <1>2, <1>3, <1>4 DEF TypeInv, TypeOK

LEMMA MainTyped == MainType /\ [Next]_vars => MainType'
<1> SUFFICES ASSUME MainType, [Next]_vars PROVE MainType'
  OBVIOUS
<1> USE Settings DEF MainType, Listeners
<1>1. CASE Unmute
  BY <1>1 DEF Unmute, Say, Fail
<1>2. CASE SayNothing
  BY <1>2 DEF SayNothing, Say, Fail
<1>3. CASE Begin
  BY <1>3 DEF Begin, Say, Fail
<1>4. CASE Answer
  BY <1>4 DEF Answer, Say, Fail
<1>5. CASE Enter
  BY <1>5 DEF Enter, Say, Fail
<1>6. CASE Miss
  BY <1>6 DEF Miss, Say, Fail
<1>7. CASE Search
  BY <1>7 DEF Search, Say, Fail
<1>8. CASE TimedOut
  BY <1>8 DEF TimedOut, Say, Fail
<1>9. CASE Ended
  BY <1>9 DEF Ended, Say, Fail
<1>10. CASE Raise
  BY <1>10 DEF Raise, Say, Fail
<1>11. CASE BaseStop
  BY <1>11 DEF BaseStop, Say, Fail
<1>12. CASE Stop
  BY <1>12 DEF Stop, Say, Fail
<1>13. CASE JoinRecorder
  BY <1>13 DEF JoinRecorder, Say, Fail
<1>14. CASE JoinWorker
  BY <1>14 DEF JoinWorker, Say, Fail
<1>15. CASE HeadFails
  BY <1>15 DEF HeadFails, Say, Fail
<1>16. CASE Place
  BY <1>16 DEF Place, Say, Fail
<1>17. CASE UNCHANGED mainVars
  BY <1>17
<1> QED BY <1>1, <1>2, <1>3, <1>4, <1>5, <1>6, <1>7, <1>8, <1>9, <1>10, <1>11, <1>12, <1>13, <1>14, <1>15, <1>16, <1>17, MainChanges

LEMMA DriveTyped == TypeInv /\ [Next]_vars => DriveType'
<1> SUFFICES ASSUME TypeInv, [Next]_vars PROVE DriveType'
  OBVIOUS
<1> USE Settings DEF TypeInv, TypeOK, DriveType
<1>1. CASE Arrive
  BY <1>1 DEF Arrive
<1>2. CASE Watchdog
  BY <1>2 DEF Watchdog
<1>3. CASE Miss
  BY <1>3 DEF Miss, Going, BudgetLeft
<1>4. CASE Search
  BY <1>4 DEF Search, Turned
<1>5. CASE BaseStop
  BY <1>5 DEF BaseStop
<1>6. CASE JoinWorker
  <2>1. chase.cmdvelOn \in CmdVel
    OBVIOUS
  <2>2. chase' = Locals(chase.cmdvelOn) /\ UNCHANGED base
    BY <1>6 DEF JoinWorker
  <2>3. chase' \in [lost : 0 .. MaxLost, cmdvelMode : BOOLEAN, usedCmdvel : BOOLEAN,
                   lastGoto : BOOLEAN, cmdvelOn : CmdVel]
    BY <2>1, <2>2 DEF Locals
  <2> QED BY <2>2, <2>3
<1>7. ASSUME NEW band \in Bands, Pulse(band) PROVE DriveType'
  <2>1. chase' = [lost |-> 0, cmdvelMode |-> TRUE, usedCmdvel |-> TRUE, lastGoto |-> FALSE,
                  cmdvelOn |-> chase.cmdvelOn]
    BY <1>7 DEF Pulse
  <2>2. chase' \in [lost : 0 .. MaxLost, cmdvelMode : BOOLEAN, usedCmdvel : BOOLEAN,
                   lastGoto : BOOLEAN, cmdvelOn : CmdVel]
    BY <2>1
  <2>3. base' \in [twist : BOOLEAN, goal : BOOLEAN]
    BY <1>7 DEF Pulse, Twisted
  <2> QED BY <2>2, <2>3
<1>8. ASSUME NEW band \in Bands, GoTo(band) PROVE DriveType'
  <2>1. chase.cmdvelMode \in BOOLEAN /\ ModeAfter(band) \in BOOLEAN
    BY DEF ModeAfter, Close
  <2>2. chase' \in [lost : 0 .. MaxLost, cmdvelMode : BOOLEAN, usedCmdvel : BOOLEAN,
                   lastGoto : BOOLEAN, cmdvelOn : CmdVel]
    <3>1. chase' = [lost |-> 0, cmdvelMode |-> ModeAfter(band),
                    usedCmdvel |-> chase.usedCmdvel, lastGoto |-> TRUE,
                    cmdvelOn |-> chase.cmdvelOn]
      BY <1>8 DEF GoTo
    <3> QED BY <2>1, <3>1
  <2>3. base' \in [twist : BOOLEAN, goal : BOOLEAN]
    <3>1. PICK taken \in BOOLEAN :
            base' = [base EXCEPT !.goal = taken \/ (@ /\ ~(Close(band) /\ chase.lastGoto))]
      BY <1>8 DEF GoTo, Sent
    <3> QED BY <3>1
  <2> QED BY <2>2, <2>3
<1>9. CASE UNCHANGED <<chase, base>>
  BY <1>9
<1> QED BY <1>1, <1>2, <1>3, <1>4, <1>5, <1>6, <1>7, <1>8, <1>9, DriveChanges

LEMMA VoiceTyped == VoiceType /\ HeldBySpeaker /\ [Next]_vars => VoiceType'
<1> SUFFICES ASSUME VoiceType /\ HeldBySpeaker, [Next]_vars PROVE VoiceType'
  OBVIOUS
<1> USE DEF VoiceType, HeldBySpeaker
<1>1. CASE Mute
  BY <1>1 DEF Mute
<1>2. CASE Play
  BY <1>2 DEF Play
<1>3. CASE Drain
  BY <1>3 DEF Drain
<1>4. CASE Unmute
  BY <1>4 DEF Unmute
<1>5. CASE UNCHANGED voiceVars
  BY <1>5
<1> QED BY <1>1, <1>2, <1>3, <1>4, <1>5, VoiceChanges

(* A state of a recorder with some of its fields replaced.  *)
LEMMA RecorderFields ==
    ASSUME NEW s \in RecorderState
    PROVE  /\ [s EXCEPT !.pc = "top"] \in RecorderState
           /\ [s EXCEPT !.pc = "captured"] \in RecorderState
           /\ [s EXCEPT !.clip = {}] \in RecorderState
           /\ [s EXCEPT !.used = 0] \in RecorderState
           /\ s.used < RecordTimeout => [s EXCEPT !.used = @ + 1] \in RecorderState
           /\ \A c \in Clips : [s EXCEPT !.clip = @ \cup c] \in RecorderState
<1>1. {} \in Clips
  BY DEF Clips
<1>2. 0 \in 0 .. RecordTimeout
  BY Settings
<1>3. [s EXCEPT !.pc = "top"] \in RecorderState /\ [s EXCEPT !.pc = "captured"] \in RecorderState
  BY DEF RecorderState
<1>4. [s EXCEPT !.clip = {}] \in RecorderState
  BY <1>1 DEF RecorderState
<1>5. [s EXCEPT !.used = 0] \in RecorderState
  BY <1>2 DEF RecorderState
<1>6. ASSUME s.used < RecordTimeout PROVE [s EXCEPT !.used = @ + 1] \in RecorderState
  <2>1. s.used + 1 \in 0 .. RecordTimeout
    BY <1>6, Settings DEF RecorderState
  <2> QED BY <2>1 DEF RecorderState
<1>7. ASSUME NEW c \in Clips PROVE [s EXCEPT !.clip = @ \cup c] \in RecorderState
  <2>1. s.clip \cup c \in Clips
    BY DEF RecorderState, Clips
  <2> QED BY <2>1 DEF RecorderState
<1> QED BY <1>3, <1>4, <1>5, <1>6, <1>7

LEMMA HeardTyped == RoomType => Heard \in Clips
  BY DEF RoomType, Heard, Clips, Sounds

LEMMA RecorderTyped == TypeOK /\ [Next]_vars => RecorderType'
<1> SUFFICES ASSUME TypeOK, [Next]_vars PROVE RecorderType'
  OBVIOUS
<1>0. rec \in [Listeners -> RecorderState]
  BY DEF TypeOK, RecorderType
<1>1. CASE Tick
  <2>1. ASSUME NEW k \in Listeners
        PROVE  (IF rec[k].pc = "recording" /\ ~Paused
                THEN [rec[k] EXCEPT !.used = @ + 1] ELSE rec[k]) \in RecorderState
    <3>1. rec[k] \in RecorderState
      BY <1>0
    <3>2. rec[k].pc = "recording" => rec[k].used < RecordTimeout
      BY <1>1 DEF Tick, Prompt
    <3> QED BY <3>1, <3>2, RecorderFields
  <2> QED BY <1>1, <2>1 DEF Tick, RecorderType
<1>2. CASE Enter
  <2>1. [rec[attempt] EXCEPT !.pc = "top"] \in RecorderState
    <3>1. rec[attempt] \in RecorderState
      BY <1>0 DEF TypeOK, MainType
    <3> QED BY <3>1, RecorderFields
  <2> QED BY <1>0, <1>2, <2>1 DEF Enter, RecorderType
<1>3. ASSUME NEW l \in Listeners, Chunk(l) PROVE RecorderType'
  <2>1. [rec[l] EXCEPT !.clip = @ \cup Heard] \in RecorderState
    <3>1. rec[l] \in RecorderState /\ Heard \in Clips
      BY <1>0, HeardTyped DEF TypeOK
    <3> QED BY <3>1, RecorderFields
  <2> QED BY <1>0, <1>3, <2>1 DEF Chunk, RecorderType
<1>4. ASSUME NEW l \in Listeners, Record(l) PROVE RecorderType'
  <2>1. [pc |-> "recording", clip |-> {}, used |-> 0, clips |-> rec[l].clips + 1]
          \in RecorderState
    <3>1. rec[l] \in RecorderState /\ rec[l].clips < MaxClips
      BY <1>0, <1>4 DEF Record
    <3>2. rec[l].clips + 1 \in 0 .. MaxClips
      BY <3>1, Settings DEF RecorderState
    <3> QED BY <3>2, Settings DEF RecorderState, Clips
  <2> QED BY <1>0, <1>4, <2>1 DEF Record, RecorderType
<1>5. ASSUME NEW l \in Listeners, RecordEnds(l) PROVE RecorderType'
  <2>1. [[rec[l] EXCEPT !.pc = "captured"] EXCEPT !.used = 0] \in RecorderState
    BY <1>0, RecorderFields
  <2> QED BY <1>0, <1>5, <2>1 DEF RecordEnds, RecorderType
<1>6. ASSUME NEW l \in Listeners, RecordFails(l) PROVE RecorderType'
  <2>1. [[[rec[l] EXCEPT !.pc = "top"] EXCEPT !.clip = {}] EXCEPT !.used = 0] \in RecorderState
    BY <1>0, RecorderFields
  <2> QED BY <1>0, <1>6, <2>1 DEF RecordFails, RecorderType
<1>7. ASSUME NEW l \in Listeners, HandOff(l) PROVE RecorderType'
  <2>1. [[rec[l] EXCEPT !.pc = "top"] EXCEPT !.clip = {}] \in RecorderState
    BY <1>0, RecorderFields
  <2> QED BY <1>0, <1>7, <2>1 DEF HandOff, RecorderType
<1>8. ASSUME NEW l \in Listeners, RecorderLeaves(l) PROVE RecorderType'
  <2>1. Off \in RecorderState
    BY Settings DEF Off, RecorderState, Clips
  <2> QED BY <1>0, <1>8, <2>1 DEF RecorderLeaves, RecorderType
<1>9. CASE UNCHANGED rec
  BY <1>0, <1>9 DEF RecorderType
<1> QED BY <1>1, <1>2, <1>3, <1>4, <1>5, <1>6, <1>7, <1>8, <1>9, RecorderChanges

LEMMA WorkerTyped == WorkerType /\ MainType /\ RecorderType /\ [Next]_vars => WorkerType'
<1> SUFFICES ASSUME WorkerType /\ MainType /\ RecorderType, [Next]_vars PROVE WorkerType'
  OBVIOUS
<1> USE DEF WorkerType
<1>1. CASE Enter
  BY <1>1 DEF Enter
<1>2. CASE Stop
  <2>1. attempt \in Listeners /\ queue[attempt] \in Seq(Clips \cup {Sentinel})
    BY DEF MainType
  <2>2. Append(queue[attempt], Sentinel) \in Seq(Clips \cup {Sentinel})
    BY <2>1, AppendProperties
  <2>3. queue' \in [Listeners -> Seq(Clips \cup {Sentinel})]
    BY <1>2, <2>1, <2>2 DEF Stop
  <2>4. stopSet' \in [Listeners -> BOOLEAN]
    BY <1>2, <2>1 DEF Stop
  <2>5. wrk' \in [Listeners -> [pc : {"off", "get", "transcribing"}, clip : Clips]]
    BY <1>2 DEF Stop
  <2>6. triggered' \in [Listeners -> BOOLEAN]
    BY <1>2 DEF Stop
  <2> QED BY <2>3, <2>4, <2>5, <2>6
<1>3. ASSUME NEW l \in Listeners, HandOff(l) PROVE WorkerType'
  <2>1. rec[l].clip \in Clips \cup {Sentinel} /\ queue[l] \in Seq(Clips \cup {Sentinel})
    BY DEF RecorderType, RecorderState
  <2>2. Append(queue[l], rec[l].clip) \in Seq(Clips \cup {Sentinel})
    BY <2>1, AppendProperties
  <2>3. PICK samples \in {TRUE, rec[l].clip # {}} :
          queue' = [queue EXCEPT ![l] = IF stopSet[l] \/ ~samples THEN @
                                        ELSE Append(@, rec[l].clip)]
    BY <1>3 DEF HandOff
  <2>4. queue' \in [Listeners -> Seq(Clips \cup {Sentinel})]
    BY <2>1, <2>2, <2>3
  <2> QED BY <1>3, <2>4 DEF HandOff
<1>4. ASSUME NEW l \in Listeners, Get(l) PROVE WorkerType'
  <2>1. /\ queue[l] \in Seq(Clips \cup {Sentinel}) /\ queue[l] # <<>>
        /\ Head(queue[l]) \in Clips \cup {Sentinel}
        /\ Tail(queue[l]) \in Seq(Clips \cup {Sentinel})
    BY <1>4, HeadTailProperties DEF Get
  <2>2. queue' \in [Listeners -> Seq(Clips \cup {Sentinel})]
    BY <1>4, <2>1 DEF Get
  <2>3. (IF Head(queue[l]) = Sentinel THEN [pc |-> "off", clip |-> {}]
         ELSE [pc |-> "transcribing", clip |-> Head(queue[l])])
           \in [pc : {"off", "get", "transcribing"}, clip : Clips]
    BY <2>1 DEF Clips
  <2>4. wrk' \in [Listeners -> [pc : {"off", "get", "transcribing"}, clip : Clips]]
    BY <1>4, <2>3 DEF Get
  <2> QED BY <1>4, <2>2, <2>4 DEF Get
<1>5. ASSUME NEW l \in Listeners, Transcribe(l) PROVE WorkerType'
  <2>1. [pc |-> Again(l), clip |-> {}] \in [pc : {"off", "get", "transcribing"}, clip : Clips]
    BY DEF Again, Clips
  <2>2. wrk' \in [Listeners -> [pc : {"off", "get", "transcribing"}, clip : Clips]]
    BY <1>5, <2>1 DEF Transcribe
  <2>3. PICK place \in Understood(wrk[l].clip) :
          triggered' = [triggered EXCEPT ![l] = @ \/ place]
    BY <1>5 DEF Transcribe
  <2>4. triggered' \in [Listeners -> BOOLEAN]
    BY <2>3
  <2> QED BY <1>5, <2>2, <2>4 DEF Transcribe
<1>6. CASE UNCHANGED <<wrk, queue, stopSet, triggered>>
  BY <1>6
<1> QED BY <1>1, <1>2, <1>3, <1>4, <1>5, <1>6, WorkerChanges

LEMMA RoomTyped == TypeOK /\ [Next]_vars => RoomType'
<1> SUFFICES ASSUME TypeOK, [Next]_vars PROVE RoomType'
  OBVIOUS
<1> USE Settings DEF TypeOK, RoomType
<1>1. CASE FallSilent
  BY <1>1 DEF FallSilent
<1>2. CASE Tick
  BY <1>2 DEF Tick, Earlier
<1>3. CASE Listen
  BY <1>3 DEF Listen, Clips
<1>4. CASE Hear
  <2>1. Heard \in Clips
    BY HeardTyped
  <2> QED BY <1>4, <2>1 DEF Hear, Clips
<1>5. CASE Answer
  BY <1>5 DEF Answer, Clips
<1>6. CASE Stop
  BY <1>6 DEF Stop
<1>7. CASE JoinRecorder
  BY <1>7 DEF JoinRecorder
<1>8. CASE JoinWorker
  BY <1>8 DEF JoinWorker
<1>9. ASSUME NEW w \in {"chatter", "place"}, Speak(w) PROVE RoomType'
  BY <1>9 DEF Speak
<1>10. CASE UNCHANGED <<ear, timeVars, words>>
  BY <1>10
<1> QED BY <1>1, <1>2, <1>3, <1>4, <1>5, <1>6, <1>7, <1>8, <1>9, <1>10, RoomChanges

LEMMA HeldKept == TypeOK /\ HeldBySpeaker /\ [Next]_vars => HeldBySpeaker'
<1> SUFFICES ASSUME TypeOK, HeldBySpeaker, [Next]_vars PROVE HeldBySpeaker'
  OBVIOUS
<1> USE DEF HeldBySpeaker
<1>1. (pauseDepth = IF speech = "silent" THEN 0 ELSE 1)'
  <2>1. CASE Mute
    BY <2>1 DEF Mute
  <2>2. CASE Play
    BY <2>2 DEF Play
  <2>3. CASE Drain
    BY <2>3 DEF Drain
  <2>4. CASE Unmute
    BY <2>4 DEF Unmute
  <2>5. CASE UNCHANGED voiceVars
    BY <2>5
  <2> QED BY <2>1, <2>2, <2>3, <2>4, <2>5, VoiceChanges
<1>2. (speech # "silent" => main = "say")'
  <2>1. speech' # speech => Mute \/ Play \/ Drain \/ Unmute
    BY VoiceChanges
  <2>2. main = "say" /\ main' # "say" => Unmute \/ SayNothing
    BY MainChanges DEF Begin, Answer, Enter, Miss, Search, TimedOut, Ended, Raise, BaseStop,
       Stop, JoinRecorder, JoinWorker, HeadFails, Place, Going
  <2> QED BY <2>1, <2>2 DEF Mute, Play, Drain, Unmute, SayNothing
<1>3. (ear.open => main = "listen")'
  <2>1. ear'.open /\ ~ear.open => Listen
    BY RoomChanges DEF TypeOK, RoomType, FallSilent, Tick, Listen, Hear, Answer, Stop,
       JoinRecorder, JoinWorker, Speak
  <2>2. main = "listen" /\ main' # "listen" => Answer
    BY MainChanges DEF Begin, Answer, Enter, Miss, Search, TimedOut, Ended, Raise, BaseStop,
       Stop, JoinRecorder, JoinWorker, HeadFails, Place, Going, SayNothing, Unmute
  <2> QED BY <2>1, <2>2 DEF Listen, Answer
<1> QED BY <1>1, <1>2, <1>3

LEMMA BudgetKept == TypeInv /\ [Next]_vars => BudgetLeft'
<1> SUFFICES ASSUME TypeInv, [Next]_vars PROVE BudgetLeft'
  OBVIOUS
<1> USE Settings DEF TypeInv, BudgetLeft
<1>1. CASE UNCHANGED <<chase, base>>
  <2>1. CASE UNCHANGED mainVars
    BY <1>1, <2>1
  <2>2. CASE JoinWorker
    BY <2>2 DEF JoinWorker, Locals
  <2>3. CASE ~ JoinWorker /\ ~ UNCHANGED mainVars
    <3>1. chase'.lost = chase.lost /\ chase.lost \in Nat /\ MaxLost \in Nat
      BY <1>1 DEF TypeOK, DriveType
    <3>2. after \in {"listen", "enter", "search", "unwind", "done"}
      BY DEF TypeOK, MainType
    <3>3. CASE Unmute \/ SayNothing
      BY <3>1, <3>2, <3>3 DEF Unmute, SayNothing, HeldBySpeaker
    <3>4. CASE Begin \/ Answer \/ Enter \/ Miss \/ TimedOut \/ Ended \/ Raise
      BY <3>1, <3>4 DEF Begin, Answer, Enter, Miss, TimedOut, Ended, Raise, Going, Fail, Say,
         TypeInv, HeldBySpeaker
    <3>5. CASE Search
      BY <3>1, <3>5 DEF Search
    <3>6. CASE BaseStop \/ Stop \/ JoinRecorder \/ HeadFails \/ Place
      BY <3>1, <3>6 DEF BaseStop, Stop, JoinRecorder, HeadFails, Place, Fail, Say
    <3> QED BY <2>3, <3>3, <3>4, <3>5, <3>6, MainChanges
  <2> QED BY <2>1, <2>2, <2>3
<1>2. CASE Arrive \/ Watchdog
  BY <1>2 DEF Arrive, Watchdog
<1>3. CASE Miss
  BY <1>3 DEF Miss, Say
<1>4. CASE Search
  BY <1>4 DEF Search, TypeOK, DriveType
<1>5. CASE BaseStop
  BY <1>5 DEF BaseStop
<1>6. CASE JoinWorker
  BY <1>6 DEF JoinWorker, Locals
<1>7. ASSUME NEW band \in Bands, Pulse(band) PROVE BudgetLeft'
  BY <1>7 DEF Pulse, TypeOK, DriveType
<1>8. ASSUME NEW band \in Bands, GoTo(band) PROVE BudgetLeft'
  BY <1>8 DEF GoTo, TypeOK, DriveType
<1> QED BY <1>1, <1>2, <1>3, <1>4, <1>5, <1>6, <1>7, <1>8, DriveChanges

LEMMA NextType == TypeInv /\ [Next]_vars => TypeInv'
<1> SUFFICES ASSUME TypeInv, [Next]_vars PROVE TypeInv'
  OBVIOUS
<1>1. TypeOK /\ HeldBySpeaker
  BY DEF TypeInv
<1>2. MainType' /\ DriveType' /\ VoiceType'
  BY <1>1, MainTyped, DriveTyped, VoiceTyped DEF TypeOK
<1>3. RecorderType' /\ WorkerType' /\ RoomType'
  BY <1>1, RecorderTyped, WorkerTyped, RoomTyped DEF TypeOK
<1>4. HeldBySpeaker' /\ BudgetLeft'
  BY <1>1, HeldKept, BudgetKept
<1> QED BY <1>2, <1>3, <1>4 DEF TypeInv, TypeOK

(* The state of the bag step is of its type whatever the threads, the room and   *)
(* the base do: among others the follow never counts more misses than its budget *)
(* (tasks/skills/navigation.py) and the microphone is held at most once.         *)
THEOREM FollowTypeCorrect == Spec => []TypeOK
<1>1. TypeInv => TypeOK
  BY DEF TypeInv
<1> QED BY <1>1, InitType, NextType, PTL DEF Spec

-----------------------------------------------------------------------------
(* The base after the follow.                                                  *)

(* The part of the step in which the follow does not drive: where BaseIsStill    *)
(* binds.                                                                        *)
Away ==
    ~ (Following \/ main \in {"ended", "unwind"} \/ (main = "say" /\ after = "unwind"))

(* A velocity is commanded only by a run that knows it has used them.            *)
StillInv == BaseIsStill /\ (base.twist => chase.usedCmdvel)

LEMMA OnlyBaseStopLeaves == TypeInv /\ [Next]_vars /\ Away' => Away \/ BaseStop
<1> SUFFICES ASSUME TypeInv, [Next]_vars, Away', ~Away PROVE BaseStop
  OBVIOUS
<1>1. ear.open => main = "listen"
  BY DEF TypeInv, HeldBySpeaker
<1>2. speech # "silent" => main = "say"
  BY DEF TypeInv, HeldBySpeaker
<1> USE <1>1, <1>2 DEF Away, Following
<1>3. CASE UNCHANGED mainVars
  BY <1>3
<1>4. CASE Unmute \/ SayNothing
  BY <1>4 DEF Unmute, SayNothing
<1>5. CASE Begin \/ Answer \/ Enter \/ Miss \/ Search \/ TimedOut \/ Ended \/ Raise
  BY <1>5 DEF Begin, Answer, Enter, Miss, Search, TimedOut, Ended, Raise, Going, Fail, Say
<1>6. CASE Stop \/ JoinRecorder \/ JoinWorker \/ HeadFails \/ Place
  BY <1>6 DEF Stop, JoinRecorder, JoinWorker, HeadFails, Place, Fail, Say
<1> QED BY <1>3, <1>4, <1>5, <1>6, MainChanges

LEMMA NextStill == TypeInv /\ StillInv /\ [Next]_vars => StillInv'
<1> SUFFICES ASSUME TypeInv, StillInv, [Next]_vars PROVE StillInv'
  OBVIOUS
<1>1. (base.twist => chase.usedCmdvel) /\ DriveType
  BY DEF StillInv, TypeInv, TypeOK
<1>2. Away => ~ base.twist /\ (chase.usedCmdvel => ~ base.goal)
  BY DEF StillInv, BaseIsStill, Away
<1> DEFINE Still ==
      /\ base.twist => chase.usedCmdvel
      /\ Away => ~ base.twist /\ (chase.usedCmdvel => ~ base.goal)
<1>3. SUFFICES Still'
  BY DEF StillInv, BaseIsStill, Away
<1> USE <1>1, <1>2, OnlyBaseStopLeaves DEF DriveType
<1>4. CASE BaseStop
  BY <1>4 DEF BaseStop
<1>5. CASE UNCHANGED <<chase, base>> /\ ~ BaseStop
  BY <1>5
<1>6. CASE Arrive \/ Watchdog
  BY <1>6 DEF Arrive, Watchdog, BaseStop
<1>7. CASE Miss \/ Search
  BY <1>7 DEF Miss, Search, Turned, Going, Away, Following, Say
<1>8. CASE JoinWorker
  BY <1>8 DEF JoinWorker, Locals, Away, Following, BaseStop
<1>9. ASSUME NEW band \in Bands, Pulse(band) \/ GoTo(band) PROVE Still'
  BY <1>9 DEF Pulse, GoTo, Twisted, Sent, Going, Away, Following
<1> QED BY <1>4, <1>5, <1>6, <1>7, <1>8, <1>9, DriveChanges

(* When the robot does anything else than following - puts the bag down, speaks   *)
(* its last words, or starts the step again after an exception - no velocity is   *)
(* left commanded and no goal of a run that used velocities is live               *)
(* (_follow_base_stop, tasks/skills/navigation.py).                               *)
THEOREM StillTheorem == Spec => []BaseIsStill
<1>1. Init => StillInv
  BY DEF Init, StillInv, BaseIsStill, Locals
<1>2. StillInv => BaseIsStill
  BY DEF StillInv
<1> QED BY <1>1, <1>2, InitType, NextType, NextStill, PTL DEF Spec

-----------------------------------------------------------------------------
(* The robot and its own voice.                                                *)

(* A clip without the robot's voice, and with a command only if one was given.  *)
Honest(clip) == "robot" \notin clip /\ ("place" \in clip => words.place)

(* Every clip is honest, wherever it is on its way from the microphone to the    *)
(* classifier, and so is every conclusion drawn from one.                        *)
HonestClips ==
    /\ Honest(ear.clip)
    /\ \A l \in Listeners : Honest(rec[l].clip)
    /\ \A l \in Listeners : Honest(wrk[l].clip)
    /\ \A l \in Listeners : \A i \in 1 .. Len(queue[l]) : Honest(queue[l][i])
    /\ \A l \in Listeners : triggered[l] => words.place

HonestInv == HonestClips /\ (words.now = "place" => words.place) /\ StoppedByHost

LEMMA WordsRemain ==
    TypeInv /\ [Next]_vars =>
      /\ words.place => words'.place
      /\ (words.now = "place" => words.place) => (words'.now = "place" => words'.place)
<1> SUFFICES ASSUME TypeInv, [Next]_vars
             PROVE  /\ words.place => words'.place
                    /\ (words.now = "place" => words.place)
                         => (words'.now = "place" => words'.place)
  OBVIOUS
<1>1. words \in [said : 0 .. MaxWords, now : {"none", "chatter", "place"}, place : BOOLEAN]
  BY DEF TypeInv, TypeOK, RoomType
<1>2. CASE UNCHANGED words
  BY <1>2
<1>3. CASE FallSilent
  BY <1>1, <1>3 DEF FallSilent
<1>4. ASSUME NEW w \in {"chatter", "place"}, Speak(w)
      PROVE  words'.now = w /\ words'.place = (words.place \/ w = "place")
  BY <1>4 DEF Speak
<1> QED BY <1>2, <1>3, <1>4, RoomChanges DEF Tick, Listen, Hear, Answer, Stop, JoinRecorder,
           JoinWorker

(* What is heard while the microphone is free is not the robot.  *)
LEMMA HeardHonest ==
    ASSUME HeldBySpeaker, RoomType, words.now = "place" => words.place, ~ Paused
    PROVE  Honest(Heard)
<1>1. ~ Audible
  BY DEF HeldBySpeaker, Paused, Audible
<1>2. words.now \in {"none", "chatter", "place"}
  BY DEF RoomType
<1> QED BY <1>1, <1>2 DEF Heard, Honest

(* A command is understood only in a clip that holds one.  *)
LEMMA UnderstoodHonest ==
    ASSUME NEW clip, Honest(clip), TRUE \in Understood(clip)
    PROVE  words.place
  BY DEF Honest, Understood

LEMMA NextHonestClips == TypeInv /\ HonestInv /\ [Next]_vars => HonestClips'
<1> SUFFICES ASSUME TypeInv, HonestInv, [Next]_vars PROVE HonestClips'
  OBVIOUS
<1>0. ASSUME NEW clip, Honest(clip) PROVE "robot" \notin clip /\ ("place" \in clip => words'.place)
  BY <1>0, WordsRemain DEF Honest
<1>1. HonestClips /\ TypeOK /\ RoomType /\ HeldBySpeaker /\ (words.now = "place" => words.place)
  BY DEF HonestInv, TypeInv, TypeOK
<1>2. Honest(ear.clip)'
  <2>1. CASE ear' = ear
    BY <1>0, <1>1, <2>1 DEF HonestClips, Honest
  <2>2. CASE Listen \/ Answer
    BY <2>2 DEF Listen, Answer, Honest
  <2>3. CASE Hear
    <3>1. Honest(Heard) /\ Honest(ear.clip)
      BY <1>1, <2>3, HeardHonest DEF Hear, HonestClips
    <3>2. ear'.clip = ear.clip \cup Heard /\ words' = words
      BY <1>1, <2>3 DEF Hear, TypeOK, RoomType
    <3> QED BY <3>1, <3>2 DEF Honest
  <2> QED BY <2>1, <2>2, <2>3, RoomChanges DEF FallSilent, Tick, Stop, JoinRecorder, JoinWorker,
             Speak
<1>3. ASSUME NEW l \in Listeners PROVE Honest(rec[l].clip)'
  <2>0. rec \in [Listeners -> RecorderState]
    BY <1>1 DEF TypeOK, RecorderType
  <2>1. ASSUME rec'[l].clip = rec[l].clip PROVE Honest(rec[l].clip)'
    BY <1>0, <1>1, <2>1 DEF HonestClips, Honest
  <2>2. ASSUME rec'[l].clip = {} PROVE Honest(rec[l].clip)'
    BY <2>2 DEF Honest
  <2>3. CASE Tick
    BY <2>0, <2>1, <2>3 DEF Tick, RecorderState
  <2>4. CASE Enter
    BY <2>0, <2>1, <2>4 DEF Enter, RecorderState
  <2>5. ASSUME NEW k \in Listeners, Chunk(k) PROVE Honest(rec[l].clip)'
    <3>1. Honest(Heard) /\ Honest(rec[l].clip)
      BY <1>1, <2>5, HeardHonest DEF Chunk, HonestClips
    <3>2. rec'[l].clip \in {rec[l].clip, rec[l].clip \cup Heard} /\ words' = words
      BY <2>0, <2>5 DEF Chunk, RecorderState
    <3> QED BY <3>1, <3>2 DEF Honest
  <2>6. ASSUME NEW k \in Listeners,
               Record(k) \/ RecordEnds(k) \/ RecordFails(k) \/ HandOff(k) \/ RecorderLeaves(k)
        PROVE  Honest(rec[l].clip)'
    <3>1. CASE k # l
      BY <2>0, <2>1, <2>6, <3>1 DEF Record, RecordEnds, RecordFails, HandOff, RecorderLeaves
    <3>2. CASE k = l /\ RecordEnds(k)
      BY <2>0, <2>1, <3>2 DEF RecordEnds, RecorderState
    <3>3. CASE k = l /\ ~ RecordEnds(k)
      BY <2>0, <2>2, <2>6, <3>3 DEF Record, RecordFails, HandOff, RecorderLeaves, Off,
         RecorderState
    <3> QED BY <3>1, <3>2, <3>3
  <2>7. CASE UNCHANGED rec
    BY <2>1, <2>7
  <2> QED BY <2>3, <2>4, <2>5, <2>6, <2>7, RecorderChanges
<1>4. ASSUME NEW l \in Listeners PROVE Honest(wrk[l].clip)'
  <2>0. wrk \in [Listeners -> [pc : {"off", "get", "transcribing"}, clip : Clips]]
    BY <1>1 DEF TypeOK, WorkerType
  <2>1. ASSUME wrk'[l].clip = wrk[l].clip PROVE Honest(wrk[l].clip)'
    BY <1>0, <1>1, <2>1 DEF HonestClips, Honest
  <2>2. ASSUME wrk'[l].clip = {} PROVE Honest(wrk[l].clip)'
    BY <2>2 DEF Honest
  <2>3. CASE Enter
    BY <2>0, <2>1, <2>3 DEF Enter
  <2>4. ASSUME NEW k \in Listeners, Get(k) PROVE Honest(wrk[l].clip)'
    <3>1. queue[k] \in Seq(Clips \cup {Sentinel}) /\ queue[k] # <<>>
      BY <1>1, <2>4 DEF TypeOK, WorkerType, Get
    <3>2. Honest(Head(queue[k]))
      BY <1>1, <3>1 DEF HonestClips
    <3>3. wrk'[l].clip \in {wrk[l].clip, {}, Head(queue[k])} /\ words' = words
      BY <2>0, <2>4 DEF Get
    <3> QED BY <2>1, <2>2, <3>2, <3>3 DEF Honest
  <2>5. ASSUME NEW k \in Listeners, Transcribe(k) PROVE Honest(wrk[l].clip)'
    BY <2>0, <2>1, <2>2, <2>5 DEF Transcribe
  <2>6. ASSUME wrk' = wrk PROVE Honest(wrk[l].clip)'
    BY <2>1, <2>6
  <2> QED BY <2>3, <2>4, <2>5, <2>6, WorkerChanges DEF Stop, HandOff
<1>5. ASSUME NEW l \in Listeners, NEW i \in 1 .. Len(queue'[l]) PROVE Honest(queue[l][i])'
  <2>0. queue \in [Listeners -> Seq(Clips \cup {Sentinel})]
    BY <1>1 DEF TypeOK, WorkerType
  <2>1. ASSUME queue'[l] = queue[l] PROVE Honest(queue[l][i])'
    <3>1. Honest(queue[l][i])
      BY <1>1, <2>1 DEF HonestClips
    <3> QED BY <1>0, <2>1, <3>1 DEF Honest
  <2>2. ASSUME NEW clip, Honest(clip), queue'[l] = Append(queue[l], clip), words' = words
        PROVE  Honest(queue[l][i])'
    <3>1. \/ i \in 1 .. Len(queue[l]) /\ queue'[l][i] = queue[l][i]
          \/ queue'[l][i] = clip
      BY <2>0, <2>2
    <3> QED BY <1>1, <2>2, <3>1 DEF HonestClips, Honest
  <2>3. CASE Stop
    <3>1. Honest(Sentinel)
      BY DEF Honest, Sentinel
    <3>2. queue'[l] = queue[l] \/ queue'[l] = Append(queue[l], Sentinel)
      BY <2>0, <2>3 DEF Stop
    <3> QED BY <2>1, <2>2, <2>3, <3>1, <3>2 DEF Stop
  <2>4. ASSUME NEW k \in Listeners, HandOff(k) PROVE Honest(queue[l][i])'
    <3>1. Honest(rec[k].clip)
      BY <1>1 DEF HonestClips
    <3>2. k = l => queue'[l] \in {queue[l], Append(queue[l], rec[k].clip)}
      BY <2>0, <2>4 DEF HandOff
    <3>3. k # l => queue'[l] = queue[l]
      BY <2>0, <2>4 DEF HandOff
    <3> QED BY <2>1, <2>2, <2>4, <3>1, <3>2, <3>3 DEF HandOff
  <2>5. ASSUME NEW k \in Listeners, Get(k) PROVE Honest(queue[l][i])'
    <3>1. CASE k # l
      BY <2>0, <2>1, <2>5, <3>1 DEF Get
    <3>2. CASE k = l
      <4>1. queue'[l] = Tail(queue[l]) /\ queue[l] # <<>> /\ words' = words
        BY <2>0, <2>5, <3>2 DEF Get
      <4>2. i + 1 \in 1 .. Len(queue[l]) /\ queue'[l][i] = queue[l][i + 1]
        BY <2>0, <4>1
      <4> QED BY <1>1, <4>1, <4>2 DEF HonestClips, Honest
    <3> QED BY <3>1, <3>2
  <2>6. ASSUME queue' = queue PROVE Honest(queue[l][i])'
    BY <2>1, <2>6
  <2> QED BY <2>3, <2>4, <2>5, <2>6, WorkerChanges DEF Enter, Transcribe
<1>6. ASSUME NEW l \in Listeners PROVE (triggered[l] => words.place)'
  <2>0. triggered \in [Listeners -> BOOLEAN]
    BY <1>1 DEF TypeOK, WorkerType
  <2>1. ASSUME triggered'[l] = triggered[l] PROVE (triggered[l] => words.place)'
    BY <1>1, <2>1, WordsRemain DEF HonestClips
  <2>2. ASSUME NEW k \in Listeners, Transcribe(k) PROVE (triggered[l] => words.place)'
    <3>1. PICK place \in Understood(wrk[k].clip) :
            triggered' = [triggered EXCEPT ![k] = @ \/ place]
      BY <2>2 DEF Transcribe
    <3>2. CASE place = TRUE
      <4>1. words.place
        BY <1>1, <3>1, <3>2, UnderstoodHonest DEF HonestClips
      <4> QED BY <4>1, WordsRemain
    <3>3. CASE place = FALSE
      BY <2>0, <2>1, <3>1, <3>3
    <3> QED BY <3>1, <3>2, <3>3 DEF Understood
  <2>3. ASSUME triggered' = triggered PROVE (triggered[l] => words.place)'
    BY <2>1, <2>3
  <2> QED BY <2>2, <2>3, WorkerChanges DEF Enter, Stop, HandOff, Get
<1> QED BY <1>2, <1>3, <1>4, <1>5, <1>6 DEF HonestClips

LEMMA NextHonest == TypeInv /\ HonestInv /\ [Next]_vars => HonestInv'
<1> SUFFICES ASSUME TypeInv, HonestInv, [Next]_vars PROVE HonestInv'
  OBVIOUS
<1>1. StoppedByHost /\ HonestClips /\ TypeOK
  BY DEF HonestInv, TypeInv
<1>2. StoppedByHost'
  <2>1. ASSUME reason' = reason \/ reason' \notin {"told", "stopped"} PROVE StoppedByHost'
    BY <1>1, <2>1, WordsRemain DEF StoppedByHost
  <2>2. CASE Answer
    <3>1. PICK place \in Understood(ear.clip) : reason' # reason => place
      BY <2>2 DEF Answer
    <3>2. CASE place = TRUE
      <4>1. words.place
        BY <1>1, <3>1, <3>2, UnderstoodHonest DEF HonestClips
      <4> QED BY <4>1, WordsRemain DEF StoppedByHost
    <3>3. CASE place = FALSE
      BY <2>1, <3>1, <3>3
    <3> QED BY <3>1, <3>2, <3>3 DEF Understood
  <2>3. CASE Ended
    <3>1. triggered[attempt] => words.place
      BY <1>1 DEF HonestClips, TypeOK, MainType
    <3> QED BY <2>1, <2>3, <3>1, WordsRemain DEF Ended, StoppedByHost
  <2> QED BY <2>1, <2>2, <2>3, MainChanges DEF Unmute, SayNothing, Begin, Enter, Miss, Search,
             TimedOut, Raise, BaseStop, Stop, JoinRecorder, JoinWorker, HeadFails, Place
<1> QED BY <1>2, NextHonestClips, WordsRemain DEF HonestInv

(* The robot stops for a spoken command, or puts the bag down at once, only if    *)
(* somebody gave one: its own voice never reaches the classifier, however the     *)
(* recorder, the queue, the worker and the speech of the main thread interleave,  *)
(* and however many listeners there were.                                         *)
THEOREM ObeysOnlyTheHost == Spec => []StoppedByHost
<1>1. Init => HonestInv
  BY DEF Init, HonestInv, HonestClips, Honest, StoppedByHost, Off
<1>2. HonestInv => StoppedByHost
  BY DEF HonestInv
<1> QED BY <1>1, <1>2, InitType, NextType, NextHonest, PTL DEF Spec

-----------------------------------------------------------------------------
(* One input stream at a time.                                                 *)

(* From start() until the join of its recorder a listener is attended: stop()    *)
(* will be called, or has been and is waiting.                                   *)
Attended ==
    main \in {"loop", "search", "ended", "unwind", "stop", "joinRecorder"}
        \/ (main = "say" /\ after \in {"search", "unwind"})

(* A recorder that does not record and never will again.  *)
Quiet(l) == rec[l].pc # "recording" /\ (rec[l].pc = "off" \/ stopSet[l])

(* While stop() waits the robot does not speak, so that the clock of a recording *)
(* does not fall behind the clock of the join.                                   *)
StreamInv ==
    /\ \A l \in Listeners : l # attempt \/ ~ Attended => Quiet(l)
    /\ main = "joinRecorder" =>
         /\ stopSet[attempt]
         /\ rec[attempt].pc = "recording" => rec[attempt].used >= waited

(* A quiet recorder stays quiet until its listener is started.  *)
LEMMA QuietKept ==
    ASSUME TypeInv, [Next]_vars, ~ Enter, NEW l \in Listeners, Quiet(l)
    PROVE  Quiet(l)'
<1>1. rec \in [Listeners -> RecorderState] /\ stopSet \in [Listeners -> BOOLEAN]
      /\ attempt \in Listeners
  BY DEF TypeInv, TypeOK, RecorderType, WorkerType, MainType
<1>2. stopSet[l] => stopSet'[l]
  BY <1>1, WorkerChanges DEF Stop, HandOff, Get, Transcribe, Enter
<1>3. rec[l].pc # "recording" /\ (rec[l].pc = "off" \/ stopSet[l])
  BY DEF Quiet
<1>4. rec'[l].pc # "recording" /\ (rec'[l].pc = "off" \/ stopSet[l])
  <2>1. CASE Tick
    BY <1>1, <1>3, <2>1 DEF Tick
  <2>2. ASSUME NEW k \in Listeners, Chunk(k) \/ RecordEnds(k) \/ RecordFails(k)
        PROVE  rec'[l] = rec[l]
    BY <1>1, <1>3, <2>2 DEF Chunk, RecordEnds, RecordFails
  <2>3. ASSUME NEW k \in Listeners, Record(k)
        PROVE  rec'[l] = rec[l]
    BY <1>1, <1>3, <2>3 DEF Record
  <2>4. ASSUME NEW k \in Listeners, HandOff(k) \/ RecorderLeaves(k)
        PROVE  rec'[l].pc \in {rec[l].pc, "off"} \/ (rec[l].pc = "captured" /\ rec'[l].pc = "top")
    <3>1. CASE k # l
      BY <1>1, <2>4, <3>1 DEF HandOff, RecorderLeaves
    <3>2. CASE HandOff(l)
      BY <1>1, <3>2 DEF HandOff, RecorderState
    <3>3. CASE RecorderLeaves(l)
      BY <1>1, <3>3 DEF RecorderLeaves, Off
    <3> QED BY <2>4, <3>1, <3>2, <3>3
  <2>5. CASE UNCHANGED rec
    BY <1>3, <2>5
  <2> QED BY <1>3, <2>1, <2>2, <2>3, <2>4, <2>5, RecorderChanges
<1> QED BY <1>2, <1>4 DEF Quiet

(* A listener is attended from its start on, and given up after the join; the    *)
(* step is run again only when there is none to attend to.                       *)
LEMMA AttendedKept ==
    ASSUME TypeInv, [Next]_vars
    PROVE  /\ Attended' /\ ~ Attended => Enter
           /\ Attended /\ ~ Attended' => JoinRecorder
           /\ Attended => attempt' = attempt
           /\ attempt' # attempt => ~ Attended /\ ~ Attended'
           /\ main' = "joinRecorder" => main = "joinRecorder" \/ Stop
<1>1. speech # "silent" => main = "say"
  BY DEF TypeInv, HeldBySpeaker
<1>2. ear.open => main = "listen"
  BY DEF TypeInv, HeldBySpeaker
<1>3. main \in {"begin", "say", "listen", "enter", "loop", "search", "ended", "unwind", "stop",
                "joinRecorder", "joinWorker", "place", "done"}
      /\ after \in {"listen", "enter", "search", "unwind", "done"}
  BY DEF TypeInv, TypeOK, MainType
<1> USE <1>1, <1>2, <1>3 DEF Attended
<1>4. CASE UNCHANGED mainVars
  BY <1>4
<1>5. CASE Unmute \/ SayNothing
  BY <1>5 DEF Unmute, SayNothing
<1>6. CASE Begin
  BY <1>6 DEF Begin, Fail, Say
<1>7. CASE Answer \/ Enter \/ Miss \/ Search
  BY <1>7 DEF Answer, Enter, Miss, Search, Going, Say
<1>8. CASE TimedOut \/ Ended \/ Raise \/ BaseStop \/ Stop
  BY <1>8 DEF TimedOut, Ended, Raise, BaseStop, Stop, Going, Say
<1>9. CASE JoinRecorder \/ Place
  BY <1>9 DEF JoinRecorder, Place, Say
<1>10. CASE JoinWorker \/ HeadFails
  BY <1>10 DEF JoinWorker, HeadFails, Fail
<1> QED BY <1>4, <1>5, <1>6, <1>7, <1>8, <1>9, <1>10, MainChanges

(* The join waits for longer than a recording may take.  *)
LEMMA RecorderJoined ==
    ASSUME JoinMargin > 0, TypeInv, StreamInv, JoinRecorder
    PROVE  Quiet(attempt)
<1>1. main = "joinRecorder" /\ (rec[attempt].pc = "off" \/ waited = RecordTimeout + JoinMargin)
  BY DEF JoinRecorder
<1>2. stopSet[attempt] /\ (rec[attempt].pc = "recording" => rec[attempt].used >= waited)
  BY <1>1 DEF StreamInv
<1>3. rec[attempt].used \in 0 .. RecordTimeout
  BY DEF TypeInv, TypeOK, MainType, RecorderType, RecorderState
<1>4. RecordTimeout + JoinMargin > rec[attempt].used
  BY <1>3, Settings
<1> QED BY <1>1, <1>2, <1>3, <1>4, Settings DEF Quiet

(* The two clocks, the one of the recording and the one of the join.  *)
LEMMA ClocksAgree ==
    ASSUME TypeInv, StreamInv, [Next]_vars, main = "joinRecorder", main' = "joinRecorder"
    PROVE  /\ stopSet'[attempt]
           /\ rec'[attempt].pc = "recording" => rec'[attempt].used >= waited'
<1>1. rec \in [Listeners -> RecorderState] /\ stopSet \in [Listeners -> BOOLEAN]
      /\ attempt \in Listeners /\ waited \in Nat
  BY Settings DEF TypeInv, TypeOK, RecorderType, WorkerType, MainType, RoomType
<1>2. stopSet[attempt] /\ (rec[attempt].pc = "recording" => rec[attempt].used >= waited)
  BY DEF StreamInv
<1>3. ~ Paused
  BY DEF TypeInv, HeldBySpeaker, Paused
<1>4. stopSet'[attempt]
  BY <1>1, <1>2, WorkerChanges DEF Stop, HandOff, Get, Transcribe, Enter
<1>5. waited' = waited \/ Tick
  BY RoomChanges DEF FallSilent, Listen, Hear, Answer, Stop, JoinRecorder, JoinWorker, Speak
<1>6. CASE Tick
  <2>1. waited' <= waited + 1
    BY <1>1, <1>6, Settings DEF Tick, Earlier, TypeInv, TypeOK, RoomType
  <2>2. rec'[attempt] = IF rec[attempt].pc = "recording"
                        THEN [rec[attempt] EXCEPT !.used = @ + 1] ELSE rec[attempt]
    BY <1>1, <1>3, <1>6 DEF Tick
  <2>3. rec[attempt].used \in Nat /\ waited' \in Nat
    BY <1>1, <1>6, Settings DEF RecorderState, Tick, Earlier
  <2>4. rec'[attempt].pc = "recording" =>
          rec[attempt].pc = "recording" /\ rec'[attempt].used = rec[attempt].used + 1
    BY <1>1, <2>2 DEF RecorderState
  <2> QED BY <1>1, <1>2, <1>4, <2>1, <2>3, <2>4
<1>7. CASE ~ Tick
  <2>1. CASE UNCHANGED rec
    BY <1>2, <1>4, <1>5, <1>7, <2>1
  <2>2. ASSUME NEW k \in Listeners, Chunk(k)
        PROVE  rec'[attempt].pc = rec[attempt].pc /\ rec'[attempt].used = rec[attempt].used
    BY <1>1, <2>2 DEF Chunk, RecorderState
  <2>3. ASSUME NEW k \in Listeners,
               Record(k) \/ RecordEnds(k) \/ RecordFails(k) \/ HandOff(k) \/ RecorderLeaves(k)
        PROVE  rec'[attempt] = rec[attempt] \/ rec'[attempt].pc # "recording"
    BY <1>1, <1>2, <2>3 DEF Record, RecordEnds, RecordFails, HandOff, RecorderLeaves, Off,
       RecorderState
  <2>4. ~ Enter
    BY DEF Enter
  <2> QED BY <1>2, <1>4, <1>5, <1>7, <2>1, <2>2, <2>3, <2>4, RecorderChanges
<1> QED BY <1>6, <1>7

LEMMA NextStream ==
    ASSUME JoinMargin > 0, TypeInv, StreamInv, [Next]_vars
    PROVE  StreamInv'
<1>1. attempt \in Listeners /\ attempt' \in Listeners /\ rec \in [Listeners -> RecorderState]
      /\ stopSet \in [Listeners -> BOOLEAN]
  BY NextType DEF TypeInv, TypeOK, MainType, RecorderType, WorkerType
<1>2. ASSUME NEW l \in Listeners, l # attempt' \/ ~ Attended' PROVE Quiet(l)'
  <2>1. CASE Enter
    <3>1. attempt' = attempt /\ Attended' /\ l # attempt
      BY <1>2, <2>1 DEF Enter, Attended
    <3>2. Quiet(l) /\ rec'[l] = rec[l] /\ stopSet'[l] = stopSet[l]
      BY <1>1, <2>1, <3>1 DEF StreamInv, Enter
    <3> QED BY <3>2 DEF Quiet
  <2>2. CASE ~ Enter
    <3>1. Quiet(l)
      <4>1. CASE l # attempt \/ ~ Attended
        BY <4>1 DEF StreamInv
      <4>2. CASE l = attempt /\ Attended
        <5>1. attempt' = attempt /\ ~ Attended'
          BY <1>2, <4>2, AttendedKept
        <5> QED BY <4>2, <5>1, AttendedKept, RecorderJoined
      <4> QED BY <4>1, <4>2
    <3> QED BY <2>2, <3>1, QuietKept
  <2> QED BY <2>1, <2>2
<1>3. ASSUME main' = "joinRecorder"
      PROVE  /\ stopSet'[attempt']
             /\ rec'[attempt'].pc = "recording" => rec'[attempt'].used >= waited'
  <2>1. CASE Stop
    <3>1. stopSet'[attempt] /\ attempt' = attempt /\ rec' = rec /\ waited' = 0
      BY <1>1, <2>1 DEF Stop
    <3>2. rec[attempt].used \in Nat
      BY <1>1, Settings DEF RecorderState
    <3> QED BY <3>1, <3>2
  <2>2. CASE main = "joinRecorder"
    <3>1. attempt' = attempt
      BY <2>2, AttendedKept DEF Attended
    <3> QED BY <1>3, <2>2, <3>1, ClocksAgree
  <2> QED BY <1>3, <2>1, <2>2, AttendedKept
<1> QED BY <1>2, <1>3 DEF StreamInv

(* At most the attended listener records, and nobody while the step listens.  *)
LEMMA OneStreamAtATime == TypeInv /\ StreamInv => OneStream
<1> SUFFICES ASSUME TypeInv, StreamInv PROVE OneStream
  OBVIOUS
<1> DEFINE busy == {l \in Listeners : rec[l].pc = "recording"}
<1>1. attempt \in Listeners /\ (ear.open => main = "listen")
  BY DEF TypeInv, TypeOK, MainType, HeldBySpeaker
<1>2. \A l \in busy : l = attempt /\ Attended
  BY DEF StreamInv, Quiet
<1>3. busy = {} \/ (busy = {attempt} /\ Attended)
  BY <1>2
<1>4. Cardinality({}) = 0
  BY FS_EmptySet
<1>5. Cardinality({attempt}) = 1
  BY FS_Singleton
<1>6. Attended => ~ ear.open
  BY <1>1 DEF Attended
<1> HIDE DEF busy
<1>7. Cardinality(busy) + (IF ear.open THEN 1 ELSE 0) <= 1
  BY <1>3, <1>4, <1>5, <1>6
<1> QED BY <1>7 DEF OneStream, busy

(* Whenever stop() has given up its joins - the step being over, or run again     *)
(* after an exception - no recorder holds an input stream that the next ctx.listen *)
(* would meet, if the join waits at all beyond the timeout of a recording          *)
(* (CommandListener.stop, tasks/skills/listening.py), however long the robot's own  *)
(* speech had stretched the recording.                                             *)
THEOREM StreamTheorem ==
    ASSUME JoinMargin > 0
    PROVE  Spec => []OneStream
<1>1. Init => StreamInv
  BY DEF Init, StreamInv, Quiet, Off
<1>2. TypeInv /\ StreamInv /\ [Next]_vars => StreamInv'
  BY NextStream
<1> QED BY <1>1, <1>2, InitType, NextType, OneStreamAtATime, PTL DEF Spec
=============================================================================

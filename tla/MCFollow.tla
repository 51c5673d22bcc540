------------------------------ MODULE MCFollow ------------------------------
(* Properties of Follow and the definitions its configurations use.            *)
EXTENDS Follow

(* The robot puts the bag down at a spoken command only if somebody in the room *)
(* gave it: never because the microphone, through the recorder, the queue and   *)
(* the transcription, took up the robot's own words (Microphone.pause and       *)
(* Speaker._mic_muted).                                                         *)
StoppedByHost == reason \in {"told", "stopped"} => words.place

(* One input stream can be open at a time (CommandListener's docstring): when   *)
(* stop() has given up its joins, no recorder is left that could meet the next  *)
(* ctx.listen, however long the robot's speech stretched the last recording.    *)
OneStream ==
    Cardinality({l \in Listeners : rec[l].pc = "recording"}) + (IF ear.open THEN 1 ELSE 0) <= 1

(* Outside the follow no velocity is left commanded, and the goal of a run that *)
(* used raw velocities is cancelled, by whichever way the loop ended and        *)
(* whatever its last command was (_follow_base_stop).                           *)
BaseIsStill ==
    ~ (Following \/ main \in {"ended", "unwind"} \/ (main = "say" /\ after = "unwind")) =>
       /\ ~ base.twist
       /\ chase.usedCmdvel => ~ base.goal

(* A raw velocity is never commanded over a live goal, whose controller would   *)
(* keep publishing its own (follow_person, the comment at its nav.cancel).  The *)
(* code falsifies it (README, section 6), and no run checks it.                 *)
TwistsAlone == [][\A band \in Bands : Pulse(band) => ~ base'.goal]_vars

(* The step ends, and so do the threads of every listener it started.  *)
WindsDown == <>Over
=============================================================================

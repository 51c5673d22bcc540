----------------------------- MODULE FollowLock -----------------------------
(***************************************************************************)
(* The lock FollowSelector keeps on the person being followed              *)
(* (tasks/HRI/identity.py).  Once a tick it is given the box the frame      *)
(* matched, or none, and answers where to drive; who matched, and why, is   *)
(* the business of HostLock.                                                *)
(***************************************************************************)
EXTENDS Naturals

CONSTANTS
  Boxes,          \* where a match may be
  NoBox,          \* no match: None
  ConfirmTicks,   \* HRI_FOLLOW_LOCK_CONFIRM_TICKS
  MissTolerance,  \* HRI_FOLLOW_LOCK_MISS_TOLERANCE
  FaceEvery       \* HRI_FOLLOW_FACE_EVERY_N

ASSUME FollowLockAssumption ==
  /\ NoBox \notin Boxes
  /\ ConfirmTicks \in Nat \ {0} /\ MissTolerance \in Nat /\ FaceEvery \in Nat \ {0}

VARIABLES
  locked, everLocked,
  confirm,  \* matching ticks in a row, while there is no lock
  miss,     \* ticks in a row without a match, while there is one
  lastBox,  \* where the attire pass looks first
  tick,     \* counted modulo FaceEvery
  answer,   \* what the selector returned
  hits,     \* ticks in a row with a match, up to ConfirmTicks (history)
  gaps      \* ticks in a row without, up to MissTolerance + 1 (history)

lock == <<locked, everLocked, confirm, miss, lastBox, tick, answer>>
vars == <<lock, hits, gaps>>

Init ==
  /\ locked = FALSE /\ everLocked = FALSE
  /\ confirm = 0 /\ miss = 0 /\ tick = 0
  /\ lastBox = NoBox /\ answer = NoBox
  /\ hits = 0 /\ gaps = 0

RunFace == ~locked \/ tick = 0
Reacquiring == everLocked /\ ~locked

-----------------------------------------------------------------------------
(* FollowSelector._update, one action for each of its ways. *)

(* Mutant: a lost lock is taken again as readily as the first one. *)
NeededAtOnce == 1

(* The first lock is taken at once, one that was lost has to be confirmed. *)
Needed == IF everLocked THEN ConfirmTicks ELSE 1

NothingFound(box) ==
  /\ ~locked /\ box = NoBox
  /\ confirm' = 0 /\ lastBox' = NoBox /\ answer' = NoBox
  /\ UNCHANGED <<locked, everLocked, miss>>

Confirming(box) ==
  /\ ~locked /\ box # NoBox /\ confirm + 1 < Needed
  /\ confirm' = confirm + 1 /\ lastBox' = box /\ answer' = NoBox
  /\ UNCHANGED <<locked, everLocked, miss>>

Commit(box) ==
  /\ ~locked /\ box # NoBox /\ confirm + 1 >= Needed
  /\ confirm' = confirm + 1 /\ lastBox' = box /\ answer' = box
  /\ locked' = TRUE /\ everLocked' = TRUE /\ miss' = 0

Hold(box) ==
  /\ locked /\ box # NoBox
  /\ miss' = 0 /\ lastBox' = box /\ answer' = box
  /\ UNCHANGED <<locked, everLocked, confirm>>

(* Mutant: the lock never lapses. *)
CoastForever(box) ==
  /\ locked /\ box = NoBox
  /\ miss' = miss /\ answer' = NoBox
  /\ UNCHANGED <<locked, everLocked, confirm, lastBox>>

Coast(box) ==
  /\ locked /\ box = NoBox /\ miss < MissTolerance
  /\ miss' = miss + 1 /\ answer' = NoBox
  /\ UNCHANGED <<locked, everLocked, confirm, lastBox>>

Lose(box) ==
  /\ locked /\ box = NoBox /\ miss >= MissTolerance
  /\ miss' = miss + 1 /\ answer' = NoBox
  /\ locked' = FALSE /\ confirm' = 0 /\ lastBox' = NoBox
  /\ UNCHANGED everLocked

Tick(box) ==
  /\ \/ NothingFound(box) \/ Confirming(box) \/ Commit(box)
     \/ Hold(box) \/ Coast(box) \/ Lose(box)
  /\ tick' = (tick + 1) % FaceEvery
  /\ hits' = IF box = NoBox THEN 0 ELSE IF hits < ConfirmTicks THEN hits + 1 ELSE hits
  /\ gaps' = IF box # NoBox THEN 0 ELSE IF gaps <= MissTolerance THEN gaps + 1 ELSE gaps

Next == \E box \in Boxes \cup {NoBox} : Tick(box)
Spec == Init /\ [][Next]_vars

-----------------------------------------------------------------------------
TypeOK ==
  /\ locked \in BOOLEAN /\ everLocked \in BOOLEAN
  /\ confirm \in Nat /\ miss \in Nat /\ hits \in Nat /\ gaps \in Nat
  /\ lastBox \in Boxes \cup {NoBox} /\ answer \in Boxes \cup {NoBox}
  /\ tick \in 0..(FaceEvery - 1)

(* A lock stands on recent evidence: the person matched in this tick or in     *)
(* one of the MissTolerance ticks before it, and there is a box to look near   *)
(* (_update's miss tolerance, and every path that drops the lock).             *)
LockIsFresh == locked => gaps <= MissTolerance /\ lastBox # NoBox

(* A lock that was lost is not taken again before ConfirmTicks ticks in a row  *)
(* have matched, whatever was counted before the loss.                         *)
RelockIsEarned == [][Reacquiring /\ locked' => hits' >= ConfirmTicks]_vars

=============================================================================

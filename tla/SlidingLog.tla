----------------------------- MODULE SlidingLog -----------------------------
(***************************************************************************)
(* What the on-disk snapshot ring buffer promises to whoever reopens it:   *)
(* the durable log is a window that only slides forward.  A step drops     *)
(* some of the oldest frames and adds frames newer than everything the log *)
(* ever held; no frame comes back, changes place, or is dropped while an   *)
(* older one stays.                                                        *)
(*                                                                         *)
(* Frames are numbered in the order they were captured.                    *)
(***************************************************************************)
EXTENDS Naturals, Sequences

VARIABLES
  log,      \* the durable frames, oldest first
  newest    \* the largest frame number the log has ever held

logVars == <<log, newest>>

Increasing(s) == \A i, j \in 1..Len(s) : i < j => s[i] < s[j]

Init == log = <<>> /\ newest = 0

(* k frames leave at the old end, the frames of `fresh` join at the new end. *)
Slide(k, fresh) ==
  /\ Increasing(fresh)
  /\ \A i \in 1..Len(fresh) : fresh[i] > newest
  /\ log' = SubSeq(log, k + 1, Len(log)) \o fresh
  /\ newest' = IF fresh = <<>> THEN newest ELSE fresh[Len(fresh)]

(* The frames of the next log that the present one does not hold are `fresh`;
   the present frames missing from it are a prefix. *)
Next ==
  \E k \in 0..Len(log) :
    \E m \in 0..Len(log') :
      Slide(k, SubSeq(log', m + 1, Len(log')))

Spec == Init /\ [][Next]_logVars
=============================================================================

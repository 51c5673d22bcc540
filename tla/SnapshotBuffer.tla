--------------------------- MODULE SnapshotBuffer ---------------------------
(***************************************************************************)
(* The on-disk snapshot ring buffer of the perception producer,            *)
(* services/realtime_explore/buffer.py.  The capture thread appends one    *)
(* snapshot per tick; a build worker pins the id list, replays a window of *)
(* sidecar files and releases the pin.  One lock serialises the index list *)
(* and the writes to disk, but the replay reads the sidecars without it.   *)
(*                                                                         *)
(* A snapshot is the number of its capture: ids are fresh uuids, so the    *)
(* number only adds the order of capture.  Pixels, poses and detections    *)
(* are left out; what matters is which file is where.  Every write to disk *)
(* is a step of its own, because the process can die between two of them.  *)
(***************************************************************************)
EXTENDS Naturals, Sequences, Functions

CONSTANTS
  Capture,      \* the capture thread
  Builders,     \* threads that may be inside _build_once
  Cap,          \* ring capacity in snapshots (WALKIE_EXPLORE_SNAPSHOT_CAP)
  Window,       \* newest snapshots a build replays (WALKIE_EXPLORE_BUILD_WINDOW)
  MaxFrames,    \* bound: snapshots captured in a behaviour
  MaxCrashes,   \* bound: process deaths
  MaxFaults,    \* bound: writes that raise (disk full)
  NoOne         \* lock value when nobody holds it

ASSUME BufferAssumption ==
  /\ Capture \notin Builders
  /\ NoOne \notin Builders \cup {Capture}
  /\ Cap \in Nat
  /\ Window \in Nat
  /\ MaxFrames \in Nat /\ MaxCrashes \in Nat /\ MaxFaults \in Nat

Threads == Builders \cup {Capture}

VARIABLES
  sidecars,   \* snap_<id>.npz files on disk
  index,      \* index.jsonl on disk, oldest first
  entries,    \* SnapshotBuffer._entries, the in-memory mirror of the index
  pinned,     \* SnapshotBuffer._pinned is not None (its ids are never read)
  lock,       \* SnapshotBuffer._lock: its holder, or NoOne
  pc,         \* what each thread does next
  frozen,     \* ids the with-body of building() was given, per builder
  todo,       \* window entries a builder has still to load
  loaded,     \* snapshots a builder has loaded, oldest first
  next,       \* number of the next snapshot
  lost,       \* indexed snapshots found without a sidecar at some restart
  newest,     \* largest id ever in the index (history)
  crashes, faults

disk     == <<sidecars, index, newest>>
memory   == <<entries, pinned, lock>>
replays  == <<frozen, todo, loaded>>
budget   == <<lost, crashes, faults>>
vars     == <<disk, memory, replays, pc, next, budget>>

LastOf(s, n) == SubSeq(s, IF n >= Len(s) THEN 1 ELSE Len(s) - n + 1, Len(s))

(* Steps under the lock: "evict" and "rewrite", shared by append and by the
   release of a pin; "commit" belongs to append alone. *)
Locked == {"commit", "evict", "rewrite"}
(* A builder between the entry of the with-body and its exit. *)
InBody == {"window", "load"}

Init ==
  /\ sidecars = {} /\ index = <<>> /\ entries = <<>> /\ newest = 0
  /\ pinned = FALSE /\ lock = NoOne
  /\ pc = [t \in Threads |-> "idle"]
  /\ frozen = [b \in Builders |-> {}]
  /\ todo = [b \in Builders |-> <<>>]
  /\ loaded = [b \in Builders |-> <<>>]
  /\ next = 1
  /\ lost = {} /\ crashes = 0 /\ faults = 0

Goto(t, label) == pc' = [pc EXCEPT ![t] = label]

-----------------------------------------------------------------------------
(* append(): the sidecar first, then the entry, the eviction and the index. *)

AppendSave ==
  /\ pc[Capture] = "idle" /\ lock = NoOne /\ next <= MaxFrames
  /\ lock' = Capture
  /\ sidecars' = sidecars \cup {next}
  /\ next' = next + 1
  /\ Goto(Capture, "commit")
  /\ UNCHANGED <<index, newest, entries, pinned, replays, budget>>

(* savez raises: the frame is dropped by _buffer_frame; a truncated file may
   stay on disk, but nothing will ever name it. *)
AppendSaveFails ==
  /\ pc[Capture] = "idle" /\ lock = NoOne /\ next <= MaxFrames
  /\ faults < MaxFaults
  /\ faults' = faults + 1
  /\ sidecars' \in {sidecars, sidecars \cup {next}}
  /\ next' = next + 1
  /\ UNCHANGED <<index, newest, memory, replays, pc, lost, crashes>>

AppendCommit ==
  /\ pc[Capture] = "commit"
  /\ entries' = Append(entries, next - 1)
  /\ Goto(Capture, "evict")
  /\ UNCHANGED <<disk, pinned, lock, replays, next, budget>>

-----------------------------------------------------------------------------
(* _evict_locked() and _rewrite_index(), run by whoever holds the lock. *)

(* Mutants: the pin is not looked at; the file of the wrong entry goes. *)
EvictThroughPin(t) ==
  /\ pc[t] = "evict" /\ Len(entries) > Cap
  /\ entries' = Tail(entries)
  /\ sidecars' = sidecars \ {Head(entries)}
  /\ UNCHANGED <<index, newest, pinned, lock, replays, pc, next, budget>>

EvictWrongFile(t) ==
  /\ pc[t] = "evict" /\ ~pinned /\ Len(entries) > Cap
  /\ entries' = Tail(entries)
  /\ sidecars' = sidecars \ {entries[2]}
  /\ UNCHANGED <<index, newest, pinned, lock, replays, pc, next, budget>>

EvictOne(t) ==
  /\ pc[t] = "evict" /\ ~pinned /\ Len(entries) > Cap
  /\ entries' = Tail(entries)
  /\ sidecars' = sidecars \ {Head(entries)}
  /\ UNCHANGED <<index, newest, pinned, lock, replays, pc, next, budget>>

EvictDone(t) ==
  /\ pc[t] = "evict"
  /\ pinned \/ Len(entries) <= Cap
  /\ Goto(t, "rewrite")
  /\ UNCHANGED <<disk, memory, replays, next, budget>>

(* Mutant: the index is written newest first. *)
RewriteReversed(t) ==
  /\ pc[t] = "rewrite"
  /\ index' = [i \in 1..Len(entries) |-> entries[Len(entries) + 1 - i]]
  /\ newest' = IF entries = <<>> THEN newest ELSE entries[Len(entries)]
  /\ lock' = NoOne
  /\ Goto(t, "idle")
  /\ UNCHANGED <<sidecars, entries, pinned, replays, next, budget>>

Rewrite(t) ==
  /\ pc[t] = "rewrite"
  /\ index' = entries
  /\ newest' = IF entries = <<>> THEN newest ELSE entries[Len(entries)]
  /\ lock' = NoOne
  /\ Goto(t, "idle")
  /\ UNCHANGED <<sidecars, entries, pinned, replays, next, budget>>

(* The index write raises before os.replace: the old index stays. *)
RewriteFails(t) ==
  /\ pc[t] = "rewrite" /\ faults < MaxFaults
  /\ faults' = faults + 1
  /\ lock' = NoOne
  /\ Goto(t, "idle")
  /\ UNCHANGED <<disk, entries, pinned, replays, next, lost, crashes>>

-----------------------------------------------------------------------------
(* building() around load_window(), as _build_once uses them. *)

EnterBuilding(b) ==
  /\ pc[b] = "idle" /\ lock = NoOne
  /\ entries # <<>>
  /\ pinned' = TRUE
  /\ frozen' = [frozen EXCEPT ![b] = Range(entries)]
  /\ loaded' = [loaded EXCEPT ![b] = <<>>]
  /\ Goto(b, "window")
  /\ UNCHANGED <<disk, entries, lock, todo, next, budget>>

(* load_window copies the entry list under the lock, after the pin. *)
CopyWindow(b) ==
  /\ pc[b] = "window" /\ lock = NoOne
  /\ todo' = [todo EXCEPT ![b] = IF Window = 0 THEN entries ELSE LastOf(entries, Window)]
  /\ Goto(b, "load")
  /\ UNCHANGED <<disk, memory, frozen, loaded, next, budget>>

(* One sidecar is decoded without the lock; a missing one is skipped. *)
LoadOne(b) ==
  /\ pc[b] = "load" /\ todo[b] # <<>>
  /\ todo' = [todo EXCEPT ![b] = Tail(@)]
  /\ loaded' = [loaded EXCEPT
       ![b] = IF Head(todo[b]) \in sidecars THEN Append(@, Head(todo[b])) ELSE @]
  /\ UNCHANGED <<disk, memory, frozen, pc, next, budget>>

(* Decoding raises something load_window does not expect: the error leaves the
   with-body, whose finally clause still releases the pin. *)
LoadRaises(b) ==
  /\ pc[b] = "load" /\ todo[b] # <<>> /\ faults < MaxFaults
  /\ faults' = faults + 1
  /\ todo' = [todo EXCEPT ![b] = <<>>]
  /\ loaded' = [loaded EXCEPT ![b] = <<>>]
  /\ UNCHANGED <<disk, memory, frozen, pc, next, lost, crashes>>

(* Mutant: the pin is dropped without the eviction it held up. *)
ExitWithoutEvicting(b) ==
  /\ pc[b] = "load" /\ todo[b] = <<>> /\ lock = NoOne
  /\ pinned' = FALSE
  /\ Goto(b, "idle")
  /\ UNCHANGED <<disk, entries, lock, replays, next, budget>>

ExitBuilding(b) ==
  /\ pc[b] = "load" /\ todo[b] = <<>> /\ lock = NoOne
  /\ lock' = b
  /\ pinned' = FALSE
  /\ Goto(b, "evict")
  /\ UNCHANGED <<disk, entries, replays, next, budget>>

-----------------------------------------------------------------------------
(* The process dies and the next one opens the buffer: __init__ reads the
   index back; pins, locks and half-done replays are gone. *)
Restart ==
  /\ crashes < MaxCrashes
  /\ crashes' = crashes + 1
  /\ entries' = index
  /\ lost' = lost \cup (Range(index) \ sidecars)
  /\ pinned' = FALSE /\ lock' = NoOne
  /\ pc' = [t \in Threads |-> "idle"]
  /\ frozen' = [b \in Builders |-> {}]
  /\ todo' = [b \in Builders |-> <<>>]
  /\ loaded' = [b \in Builders |-> <<>>]
  /\ UNCHANGED <<disk, next, faults>>

LockedStep(t) == EvictOne(t) \/ EvictDone(t) \/ Rewrite(t)
BuildStep(b)  == CopyWindow(b) \/ LoadOne(b) \/ ExitBuilding(b)

Next ==
  \/ AppendSave \/ AppendSaveFails \/ AppendCommit
  \/ \E t \in Threads : LockedStep(t) \/ RewriteFails(t)
  \/ \E b \in Builders : EnterBuilding(b) \/ BuildStep(b) \/ LoadRaises(b)
  \/ Restart

Spec == Init /\ [][Next]_vars

(* A thread inside the buffer's code keeps running; nothing says that another
   frame comes, that a build starts, that a write fails or the process dies. *)
Fairness ==
  /\ WF_vars(AppendCommit)
  /\ \A t \in Threads : WF_vars(LockedStep(t))
  /\ \A b \in Builders : WF_vars(BuildStep(b))

FairSpec == Spec /\ Fairness

-----------------------------------------------------------------------------
(* Properties *)

TypeOK ==
  /\ sidecars \subseteq 1..MaxFrames
  /\ index \in Seq(1..MaxFrames) /\ entries \in Seq(1..MaxFrames)
  /\ pinned \in BOOLEAN
  /\ lock \in Threads \cup {NoOne}
  /\ pc \in [Threads -> Locked \cup InBody \cup {"idle"}]
  /\ frozen \in [Builders -> SUBSET (1..MaxFrames)]
  /\ todo \in [Builders -> Seq(1..MaxFrames)]
  /\ loaded \in [Builders -> Seq(1..MaxFrames)]
  /\ next \in 1..(MaxFrames + 1) /\ newest \in 0..MaxFrames
  /\ lost \subseteq 1..MaxFrames
  /\ crashes \in 0..MaxCrashes /\ faults \in 0..MaxFaults

(* building(): from the entry of the with-body to its exit, no step of any
   thread unlinks the sidecar of an id that was in the frozen list. *)
PinProtectsWindow ==
  [][\A b \in Builders :
       pc[b] \in InBody /\ pc'[b] \in InBody => frozen[b] \cap sidecars \subseteq sidecars']_vars

(* A frame whose capture was recorded is readable while the index list still
   names it, unless a restart already found its file gone: eviction removes
   the name before the file, and append names the file only once it is whole. *)
NamedFramesReadable == Range(entries) \ lost \subseteq sidecars

(* A pin is always released, and the backlog it let build up is evicted, unless
   the process dies first: frames captured during a build do not accumulate. *)
BacklogEvicted ==
  \A k \in 0..MaxCrashes :
    (crashes = k /\ pinned /\ Len(entries) > Cap)
      ~> (crashes > k \/ (~pinned /\ Len(entries) <= Cap))

(* The durable index behaves as a log that only slides forward. *)
Durable == INSTANCE SlidingLog WITH log <- index
SlidesForward == Durable!Spec
=============================================================================

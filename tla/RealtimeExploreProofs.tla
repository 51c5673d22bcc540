------------------------ MODULE RealtimeExploreProofs ------------------------
(***************************************************************************)
(* What holds of the snapshot buffer and of the producer that fills it,    *)
(* for every capacity, window, cadence, number of threads, starts, frames, *)
(* crashes and failed writes.                                              *)
(***************************************************************************)
EXTENDS SnapshotBuffer, RealtimeExplore, SequenceTheorems, TLAPS

-----------------------------------------------------------------------------
(* The buffer.                                                             *)

(* Only the holder of the lock runs the steps the lock protects. *)
LockInv == \A t \in Threads : pc[t] \in Locked => lock = t

(* While a build is inside building(), the pin is held. *)
PinInv == \A b \in Builders : pc[b] \in InBody => pinned

Ascending(s) == \A i, j \in 1..Len(s) : i < j => s[i] < s[j]

(* Names are given in the order of capture, and none is given twice. *)
OrderInv ==
  /\ Ascending(entries) /\ Ascending(index)
  /\ \A i \in 1..Len(index) : index[i] < next
  /\ \A i \in 1..Len(entries) : entries[i] < next
  /\ pc[Capture] = "commit" =>
       /\ next - 1 \in sidecars
       /\ \A i \in 1..Len(entries) : entries[i] < next - 1

-----------------------------------------------------------------------------
(* The window load_window replays is a sequence of snapshots. *)
LEMMA WindowType ==
  ASSUME NEW S, NEW s \in Seq(S), NEW n \in Nat
  PROVE  LastOf(s, n) \in Seq(S)
  BY DEF LastOf

(* What a sequence names is in its type. *)
LEMMA RangeType ==
  ASSUME NEW S, NEW s \in Seq(S)
  PROVE  Range(s) \subseteq S
  BY DEF Range

(* The number handed to append() by the step before it is one of a frame. *)
TypeInv == TypeOK /\ (pc[Capture] = "commit" => next > 1)

LEMMA InitType == Init => TypeInv
<1> SUFFICES ASSUME Init PROVE TypeInv
  OBVIOUS
<1> USE BufferAssumption DEF Init, Threads
<1>1. /\ sidecars \subseteq 1..MaxFrames
      /\ index \in Seq(1..MaxFrames) /\ entries \in Seq(1..MaxFrames)
      /\ pinned \in BOOLEAN /\ lock \in Threads \cup {NoOne}
  BY EmptySeq
<1>2. pc \in [Threads -> Locked \cup InBody \cup {"idle"}] /\ pc[Capture] # "commit"
  OBVIOUS
<1>3. frozen \in [Builders -> SUBSET (1..MaxFrames)]
  OBVIOUS
<1>4. todo \in [Builders -> Seq(1..MaxFrames)] /\ loaded \in [Builders -> Seq(1..MaxFrames)]
  <2>1. <<>> \in Seq(1..MaxFrames)
    OBVIOUS
  <2> QED BY <2>1
<1>5. /\ next \in 1..(MaxFrames + 1) /\ newest \in 0..MaxFrames
      /\ lost \subseteq 1..MaxFrames
      /\ crashes \in 0..MaxCrashes /\ faults \in 0..MaxFaults
  OBVIOUS
<1> QED BY <1>1, <1>2, <1>3, <1>4, <1>5 DEF TypeInv, TypeOK

LEMMA NextType == TypeInv /\ [Next]_vars => TypeInv'
<1> SUFFICES ASSUME TypeInv, [Next]_vars PROVE TypeInv'
  OBVIOUS
<1> USE BufferAssumption DEF Threads, Locked, InBody, TypeInv, TypeOK, Goto,
                             disk, memory, replays, budget
<1>1. CASE AppendSave
  BY <1>1 DEF AppendSave
<1>2. CASE AppendSaveFails
  BY <1>2 DEF AppendSaveFails
<1>3. CASE AppendCommit
  <2>1. next - 1 \in 1..MaxFrames
    BY <1>3 DEF AppendCommit
  <2> QED BY <1>3, <2>1 DEF AppendCommit
<1>4. ASSUME NEW t \in Threads, EvictOne(t) PROVE TypeInv'
  <2>1. entries # <<>>
    BY <1>4 DEF EvictOne
  <2>2. Tail(entries) \in Seq(1..MaxFrames)
    BY <2>1, HeadTailProperties
  <2> QED BY <1>4, <2>2 DEF EvictOne
<1>5. ASSUME NEW t \in Threads, EvictDone(t) PROVE TypeInv'
  BY <1>5 DEF EvictDone
<1>6. ASSUME NEW t \in Threads, Rewrite(t) PROVE TypeInv'
  BY <1>6 DEF Rewrite
<1>7. ASSUME NEW t \in Threads, RewriteFails(t) PROVE TypeInv'
  BY <1>7 DEF RewriteFails
<1>8. ASSUME NEW b \in Builders, EnterBuilding(b) PROVE TypeInv'
  BY <1>8, RangeType DEF EnterBuilding
<1>9. ASSUME NEW b \in Builders, CopyWindow(b) PROVE TypeInv'
  BY <1>9, WindowType DEF CopyWindow
<1>10. ASSUME NEW b \in Builders, LoadOne(b) PROVE TypeInv'
  <2>0. todo[b] \in Seq(1..MaxFrames) /\ todo[b] # <<>>
    BY <1>10 DEF LoadOne
  <2>1. Tail(todo[b]) \in Seq(1..MaxFrames) /\ Head(todo[b]) \in 1..MaxFrames
    BY <2>0, HeadTailProperties
  <2>2. Append(loaded[b], Head(todo[b])) \in Seq(1..MaxFrames)
    BY <2>1
  <2>3. todo' \in [Builders -> Seq(1..MaxFrames)]
    BY <1>10, <2>1 DEF LoadOne
  <2>4. loaded' \in [Builders -> Seq(1..MaxFrames)]
    BY <1>10, <2>2 DEF LoadOne
  <2> QED BY <1>10, <2>3, <2>4 DEF LoadOne
<1>11. ASSUME NEW b \in Builders, LoadRaises(b) PROVE TypeInv'
  BY <1>11 DEF LoadRaises
<1>12. ASSUME NEW b \in Builders, ExitBuilding(b) PROVE TypeInv'
  BY <1>12 DEF ExitBuilding
<1>13. CASE Restart
  <2>1. /\ pc' \in [Threads -> Locked \cup InBody \cup {"idle"}]
        /\ frozen' \in [Builders -> SUBSET (1..MaxFrames)]
    BY <1>13 DEF Restart
  <2>2. <<>> \in Seq(1..MaxFrames)
    OBVIOUS
  <2>3. /\ todo' \in [Builders -> Seq(1..MaxFrames)]
        /\ loaded' \in [Builders -> Seq(1..MaxFrames)]
    BY <1>13, <2>2 DEF Restart
  <2>4. lost' \subseteq 1..MaxFrames
    BY <1>13, RangeType DEF Restart
  <2>5. pc'[Capture] # "commit" /\ lock' \in Threads \cup {NoOne} /\ pinned' \in BOOLEAN
    BY <1>13 DEF Restart
  <2>6. crashes' \in 0..MaxCrashes
    BY <1>13 DEF Restart
  <2> QED BY <1>13, <2>1, <2>3, <2>4, <2>5, <2>6 DEF Restart
<1>14. CASE UNCHANGED vars
  BY <1>14 DEF vars
<1> QED
  BY <1>1, <1>2, <1>3, <1>4, <1>5, <1>6, <1>7, <1>8, <1>9, <1>10, <1>11,
     <1>12, <1>13, <1>14 DEF Next, LockedStep, BuildStep

(* Every step keeps every variable of the buffer in its type: in particular
   the index and every window only ever name captured frames. *)
THEOREM TypeCorrect == Spec => []TypeOK
<1>1. TypeInv => TypeOK
  BY DEF TypeInv
<1> QED
  BY <1>1, InitType, NextType, PTL DEF Spec
-----------------------------------------------------------------------------
(* Mutual exclusion of the locked sections of append() and building(). *)
LEMMA NextLock == TypeOK /\ LockInv /\ [Next]_vars => LockInv'
<1> SUFFICES ASSUME TypeOK, LockInv, [Next]_vars PROVE LockInv'
  OBVIOUS
<1> USE BufferAssumption DEF Threads, Locked, InBody, TypeOK, LockInv, Goto,
                             disk, memory, replays, budget
<1>1. CASE AppendSave
  BY <1>1 DEF AppendSave
<1>2. CASE AppendSaveFails
  BY <1>2 DEF AppendSaveFails
<1>3. CASE AppendCommit
  BY <1>3 DEF AppendCommit
<1>4. ASSUME NEW t \in Threads, EvictOne(t) \/ EvictDone(t) PROVE LockInv'
  BY <1>4 DEF EvictOne, EvictDone
<1>5. ASSUME NEW t \in Threads, Rewrite(t) \/ RewriteFails(t) PROVE LockInv'
  BY <1>5 DEF Rewrite, RewriteFails
<1>6. ASSUME NEW b \in Builders, EnterBuilding(b) \/ CopyWindow(b) PROVE LockInv'
  BY <1>6 DEF EnterBuilding, CopyWindow
<1>7. ASSUME NEW b \in Builders, LoadOne(b) \/ LoadRaises(b) PROVE LockInv'
  BY <1>7 DEF LoadOne, LoadRaises
<1>8. ASSUME NEW b \in Builders, ExitBuilding(b) PROVE LockInv'
  BY <1>8 DEF ExitBuilding
<1>9. CASE Restart
  BY <1>9 DEF Restart
<1>10. CASE UNCHANGED vars
  BY <1>10 DEF vars
<1> QED
  BY <1>1, <1>2, <1>3, <1>4, <1>5, <1>6, <1>7, <1>8, <1>9, <1>10
  DEF Next, LockedStep, BuildStep

(* With at most one build at a time, the pin is held from the entry of the
   with-body to its exit; a second build would release it too early. *)
LEMMA NextPin ==
  ASSUME \A b, c \in Builders : b = c
  PROVE  TypeOK /\ PinInv /\ [Next]_vars => PinInv'
<1> SUFFICES ASSUME TypeOK, PinInv, [Next]_vars PROVE PinInv'
  OBVIOUS
<1> USE BufferAssumption DEF Threads, Locked, InBody, TypeOK, PinInv, Goto,
                             disk, memory, replays, budget
<1>1. CASE AppendSave \/ AppendSaveFails \/ AppendCommit
  BY <1>1 DEF AppendSave, AppendSaveFails, AppendCommit
<1>2. ASSUME NEW t \in Threads, EvictOne(t) \/ EvictDone(t) PROVE PinInv'
  BY <1>2 DEF EvictOne, EvictDone
<1>3. ASSUME NEW t \in Threads, Rewrite(t) \/ RewriteFails(t) PROVE PinInv'
  BY <1>3 DEF Rewrite, RewriteFails
<1>4. ASSUME NEW b \in Builders, EnterBuilding(b) \/ CopyWindow(b) PROVE PinInv'
  BY <1>4 DEF EnterBuilding, CopyWindow
<1>5. ASSUME NEW b \in Builders, LoadOne(b) \/ LoadRaises(b) PROVE PinInv'
  BY <1>5 DEF LoadOne, LoadRaises
<1>6. ASSUME NEW b \in Builders, ExitBuilding(b) PROVE PinInv'
  BY <1>6 DEF ExitBuilding
<1>7. CASE Restart
  BY <1>7 DEF Restart
<1>8. CASE UNCHANGED vars
  BY <1>8 DEF vars
<1> QED
  BY <1>1, <1>2, <1>3, <1>4, <1>5, <1>6, <1>7, <1>8
  DEF Next, LockedStep, BuildStep

(* building(): while at most one build runs, no step of any thread unlinks a
   file of the frozen list before the with-body is left. *)
THEOREM PinTheorem ==
  ASSUME \A b, c \in Builders : b = c
  PROVE  Spec => PinProtectsWindow
<1>1. Init => TypeInv /\ PinInv
  BY InitType DEF Init, PinInv, InBody, Threads
<1>2. TypeInv /\ PinInv /\ [Next]_vars => (TypeInv /\ PinInv)'
  BY NextType, NextPin DEF TypeInv
<1>3. TypeInv /\ PinInv /\ [Next]_vars =>
        [\A b \in Builders :
           pc[b] \in InBody /\ pc'[b] \in InBody => frozen[b] \cap sidecars \subseteq sidecars']_vars
  <2> SUFFICES ASSUME TypeInv, PinInv, Next,
                      NEW b \in Builders, pc[b] \in InBody, pc'[b] \in InBody
               PROVE  sidecars \subseteq sidecars'
    OBVIOUS
  <2> USE DEF disk, memory, replays, budget
  <2>1. CASE AppendSave \/ AppendSaveFails \/ AppendCommit
    BY <2>1 DEF AppendSave, AppendSaveFails, AppendCommit
  <2>2. ASSUME NEW t \in Threads, EvictOne(t) PROVE FALSE
    BY <2>2 DEF EvictOne, PinInv
  <2>3. ASSUME NEW t \in Threads, EvictDone(t) \/ Rewrite(t) \/ RewriteFails(t)
        PROVE  sidecars' = sidecars
    BY <2>3 DEF EvictDone, Rewrite, RewriteFails
  <2>4. ASSUME NEW c \in Builders,
               EnterBuilding(c) \/ BuildStep(c) \/ LoadRaises(c)
        PROVE  sidecars' = sidecars
    BY <2>4 DEF EnterBuilding, BuildStep, CopyWindow, LoadOne, ExitBuilding, LoadRaises
  <2>5. CASE Restart
    BY <2>5 DEF Restart
  <2> QED BY <2>1, <2>2, <2>3, <2>4, <2>5 DEF Next, LockedStep
<1> QED
  BY <1>1, <1>2, <1>3, PTL DEF Spec, PinProtectsWindow
-----------------------------------------------------------------------------
(* The two ends of the entry list: what append adds is newer than the rest,
   and what eviction takes is named nowhere else in the list. *)
LEMMA AppendAscending ==
  ASSUME NEW s \in Seq(1..MaxFrames), NEW n \in 1..MaxFrames,
         Ascending(s), \A i \in 1..Len(s) : s[i] < n
  PROVE  /\ Ascending(Append(s, n))
         /\ \A i \in 1..Len(Append(s, n)) : Append(s, n)[i] <= n
         /\ Range(Append(s, n)) \subseteq Range(s) \cup {n}
<1> DEFINE r == Append(s, n)
<1>1. /\ Len(r) = Len(s) + 1
      /\ \A i \in 1..Len(s) : r[i] = s[i]
      /\ r[Len(s) + 1] = n
      /\ Len(s) \in Nat /\ DOMAIN s = 1..Len(s)
      /\ DOMAIN r = 1..Len(r)
  BY AppendProperties, LenProperties
<1>2. \A i \in 1..Len(s) : s[i] \in 1..MaxFrames
  BY ElementOfSeq
<1> HIDE DEF r
<1>3. \A i \in 1..Len(r) : i \in 1..Len(s) \/ i = Len(s) + 1
  BY <1>1
<1>4. Ascending(r)
  <2> SUFFICES ASSUME NEW i \in 1..Len(r), NEW j \in 1..Len(r), i < j
               PROVE  r[i] < r[j]
    BY DEF Ascending
  <2>1. i \in 1..Len(s)
    BY <1>1, <1>3
  <2>2. CASE j \in 1..Len(s)
    BY <2>1, <2>2, <1>1 DEF Ascending
  <2>3. CASE j = Len(s) + 1
    BY <2>1, <2>3, <1>1
  <2> QED BY <2>2, <2>3, <1>3
<1>5. \A i \in 1..Len(r) : r[i] <= n
  BY <1>1, <1>2, <1>3
<1>6. Range(r) \subseteq Range(s) \cup {n}
  BY <1>1, <1>3 DEF Range
<1> QED BY <1>4, <1>5, <1>6 DEF r

LEMMA TailAscending ==
  ASSUME NEW s \in Seq(1..MaxFrames), s # <<>>, Ascending(s)
  PROVE  /\ Ascending(Tail(s))
         /\ \A i \in 1..Len(Tail(s)) : \E j \in 1..Len(s) : Tail(s)[i] = s[j]
         /\ Range(Tail(s)) \subseteq Range(s) \ {Head(s)}
<1> DEFINE r == Tail(s)
<1>1. /\ Len(r) = Len(s) - 1
      /\ \A i \in 1..Len(r) : r[i] = s[i + 1]
      /\ Len(s) \in Nat /\ Len(s) > 0 /\ Len(r) \in Nat
      /\ DOMAIN s = 1..Len(s) /\ DOMAIN r = 1..Len(r)
  BY HeadTailProperties, LenProperties, EmptySeq
<1>2. \A i \in 1..Len(s) : s[i] \in 1..MaxFrames
  BY ElementOfSeq
<1>3. Head(s) = s[1]
  OBVIOUS
<1> HIDE DEF r
<1>4. \A i \in 1..Len(r) : i + 1 \in 1..Len(s) /\ s[1] < s[i + 1]
  BY <1>1 DEF Ascending
<1>5. Ascending(r)
  <2> SUFFICES ASSUME NEW i \in 1..Len(r), NEW j \in 1..Len(r), i < j
               PROVE  r[i] < r[j]
    BY DEF Ascending
  <2>1. i + 1 \in 1..Len(s) /\ j + 1 \in 1..Len(s) /\ i + 1 < j + 1
    BY <1>1
  <2>2. s[i + 1] < s[j + 1]
    BY <2>1 DEF Ascending
  <2> QED BY <2>2, <1>1
<1>6. \A i \in 1..Len(r) : \E j \in 1..Len(s) : r[i] = s[j]
  BY <1>1, <1>4
<1>7. Range(r) \subseteq Range(s) \ {Head(s)}
  <2> SUFFICES ASSUME NEW i \in 1..Len(r)
               PROVE  r[i] \in Range(s) /\ r[i] # s[1]
    BY <1>1, <1>3 DEF Range
  <2>1. s[1] \in 1..MaxFrames /\ s[i + 1] \in 1..MaxFrames
    BY <1>1, <1>2, <1>4
  <2> QED BY <2>1, <1>1, <1>4 DEF Range
<1> QED BY <1>5, <1>6, <1>7 DEF r

(* What the eviction and the index write need to know of the list. *)
OrdInv == TypeInv /\ LockInv /\ OrderInv

LEMMA NextOrder == OrdInv /\ [Next]_vars => OrderInv'
<1> SUFFICES ASSUME OrdInv, [Next]_vars PROVE OrderInv'
  OBVIOUS
<1> USE BufferAssumption DEF OrdInv, Goto, disk, memory, replays, budget
<1>0. /\ entries \in Seq(1..MaxFrames) /\ index \in Seq(1..MaxFrames)
      /\ next \in 1..(MaxFrames + 1) /\ pc \in [Threads -> Locked \cup InBody \cup {"idle"}]
      /\ Capture \in Threads /\ \A b \in Builders : b # Capture
      /\ \A i \in 1..Len(entries) : entries[i] \in 1..MaxFrames
      /\ \A i \in 1..Len(index) : index[i] \in 1..MaxFrames
  BY ElementOfSeq DEF TypeInv, TypeOK, Threads
<1>1. CASE AppendSave
  <2>1. /\ entries' = entries /\ index' = index /\ next' = next + 1
        /\ next \in sidecars' /\ pc'[Capture] = "commit"
    BY <1>1, <1>0 DEF AppendSave
  <2>2. Ascending(entries') /\ Ascending(index')
    BY <2>1 DEF OrderInv
  <2>3. \A i \in 1..Len(entries) : entries[i] < next
    BY DEF OrderInv
  <2>4. /\ \A i \in 1..Len(index') : index'[i] < next'
        /\ \A i \in 1..Len(entries') : entries'[i] < next'
    BY <2>1, <1>0 DEF OrderInv
  <2>5. next' - 1 = next
    BY <2>1, <1>0
  <2> QED BY <2>1, <2>2, <2>3, <2>4, <2>5 DEF OrderInv
<1>2. CASE AppendSaveFails
  <2>1. /\ entries' = entries /\ index' = index /\ next' = next + 1
        /\ pc'[Capture] = "idle"
    BY <1>2 DEF AppendSaveFails
  <2>2. /\ \A i \in 1..Len(index') : index'[i] < next'
        /\ \A i \in 1..Len(entries') : entries'[i] < next'
    BY <2>1, <1>0 DEF OrderInv
  <2> QED BY <2>1, <2>2 DEF OrderInv, Ascending
<1>3. CASE AppendCommit
  <2>1. /\ entries' = Append(entries, next - 1) /\ index' = index /\ next' = next
        /\ pc'[Capture] = "evict" /\ next - 1 \in 1..MaxFrames
        /\ \A i \in 1..Len(entries) : entries[i] < next - 1
    BY <1>3, <1>0 DEF AppendCommit, TypeInv, OrderInv
  <2>2. Ascending(entries') /\ \A i \in 1..Len(entries') : entries'[i] <= next - 1
    BY <2>1, <1>0, AppendAscending DEF OrderInv
  <2>3. entries' \in Seq(1..MaxFrames)
    BY <2>1, <1>0, AppendProperties
  <2>4. \A i \in 1..Len(entries') : entries'[i] < next'
    BY <2>1, <2>2, <2>3, <1>0, ElementOfSeq
  <2> QED BY <2>1, <2>2, <2>4 DEF OrderInv, Ascending
<1>4. ASSUME NEW t \in Threads, EvictOne(t) PROVE OrderInv'
  <2>1. entries # <<>>
    BY <1>4, <1>0 DEF EvictOne
  <2>2. pc[Capture] # "commit"
    BY <1>4, <1>0 DEF EvictOne, LockInv, Locked
  <2>3. entries' = Tail(entries) /\ index' = index /\ next' = next /\ pc' = pc
    BY <1>4 DEF EvictOne
  <2>4. /\ Ascending(entries')
        /\ \A i \in 1..Len(entries') : \E j \in 1..Len(entries) : entries'[i] = entries[j]
    BY <2>1, <2>3, <1>0, TailAscending DEF OrderInv
  <2> QED BY <2>2, <2>3, <2>4 DEF OrderInv, Ascending
<1>5. ASSUME NEW t \in Threads, EvictDone(t) \/ RewriteFails(t) PROVE OrderInv'
  <2>1. /\ entries' = entries /\ index' = index /\ next' = next /\ sidecars' = sidecars
        /\ pc'[Capture] = "commit" => pc[Capture] = "commit"
    BY <1>5, <1>0 DEF EvictDone, RewriteFails
  <2> QED BY <2>1 DEF OrderInv, Ascending
<1>6. ASSUME NEW t \in Threads, Rewrite(t) PROVE OrderInv'
  <2>1. /\ entries' = entries /\ index' = entries /\ next' = next /\ sidecars' = sidecars
        /\ pc'[Capture] = "commit" => pc[Capture] = "commit"
    BY <1>6, <1>0 DEF Rewrite
  <2> QED BY <2>1 DEF OrderInv, Ascending
<1>7. ASSUME NEW b \in Builders, EnterBuilding(b) \/ BuildStep(b) \/ LoadRaises(b)
      PROVE  OrderInv'
  <2>1. /\ entries' = entries /\ index' = index /\ next' = next /\ sidecars' = sidecars
        /\ pc'[Capture] = pc[Capture]
    BY <1>7, <1>0
    DEF EnterBuilding, BuildStep, CopyWindow, LoadOne, ExitBuilding, LoadRaises
  <2> QED BY <2>1 DEF OrderInv, Ascending
<1>8. CASE Restart
  <2>1. entries' = index /\ index' = index /\ next' = next /\ pc'[Capture] = "idle"
    BY <1>8, <1>0 DEF Restart
  <2> QED BY <2>1 DEF OrderInv, Ascending
<1>9. CASE UNCHANGED vars
  BY <1>9 DEF vars, OrderInv, Ascending
<1> QED
  BY <1>1, <1>2, <1>3, <1>4, <1>5, <1>6, <1>7, <1>8, <1>9 DEF Next, LockedStep

LEMMA NextReadable ==
  OrdInv /\ NamedFramesReadable /\ [Next]_vars => NamedFramesReadable'
<1> SUFFICES ASSUME OrdInv, NamedFramesReadable, [Next]_vars PROVE NamedFramesReadable'
  OBVIOUS
<1> USE BufferAssumption DEF OrdInv, disk, memory, replays, budget
<1>0. /\ entries \in Seq(1..MaxFrames) /\ next \in 1..(MaxFrames + 1)
  BY DEF TypeInv, TypeOK
<1>1. CASE AppendSave \/ AppendSaveFails
  <2>1. entries' = entries /\ lost' = lost /\ sidecars \subseteq sidecars'
    BY <1>1 DEF AppendSave, AppendSaveFails
  <2> QED BY <2>1 DEF NamedFramesReadable
<1>2. CASE AppendCommit
  <2>1. /\ entries' = Append(entries, next - 1) /\ lost' = lost /\ sidecars' = sidecars
        /\ next - 1 \in 1..MaxFrames /\ next - 1 \in sidecars
        /\ \A i \in 1..Len(entries) : entries[i] < next - 1
    BY <1>2, <1>0 DEF AppendCommit, TypeInv, OrderInv
  <2>2. Range(entries') \subseteq Range(entries) \cup {next - 1}
    BY <2>1, <1>0, AppendAscending DEF OrderInv
  <2> QED BY <2>1, <2>2 DEF NamedFramesReadable
<1>3. ASSUME NEW t \in Threads, EvictOne(t) PROVE NamedFramesReadable'
  <2>1. entries # <<>> /\ entries' = Tail(entries) /\ lost' = lost
        /\ sidecars' = sidecars \ {Head(entries)}
    BY <1>3, <1>0 DEF EvictOne
  <2>2. Range(entries') \subseteq Range(entries) \ {Head(entries)}
    BY <2>1, <1>0, TailAscending DEF OrderInv
  <2> QED BY <2>1, <2>2 DEF NamedFramesReadable
<1>4. ASSUME NEW t \in Threads, EvictDone(t) \/ Rewrite(t) \/ RewriteFails(t)
      PROVE  NamedFramesReadable'
  <2>1. entries' = entries /\ lost' = lost /\ sidecars' = sidecars
    BY <1>4 DEF EvictDone, Rewrite, RewriteFails
  <2> QED BY <2>1 DEF NamedFramesReadable
<1>5. ASSUME NEW b \in Builders, EnterBuilding(b) \/ BuildStep(b) \/ LoadRaises(b)
      PROVE  NamedFramesReadable'
  <2>1. entries' = entries /\ lost' = lost /\ sidecars' = sidecars
    BY <1>5 DEF EnterBuilding, BuildStep, CopyWindow, LoadOne, ExitBuilding, LoadRaises
  <2> QED BY <2>1 DEF NamedFramesReadable
<1>6. CASE Restart
  BY <1>6 DEF Restart, NamedFramesReadable
<1>7. CASE UNCHANGED vars
  BY <1>7 DEF vars, NamedFramesReadable
<1> QED
  BY <1>1, <1>2, <1>3, <1>4, <1>5, <1>6, <1>7 DEF Next, LockedStep

(* A file is gone only if its name left the list first, or a restart found it
   gone: for any number of concurrent builds. *)
THEOREM ReadableTheorem == Spec => []NamedFramesReadable
<1>1. Init => OrdInv /\ NamedFramesReadable
  <2>1. Init => LockInv
    BY DEF Init, LockInv, Locked, Threads
  <2>2. Init => OrderInv /\ NamedFramesReadable
    BY BufferAssumption
    DEF Init, OrderInv, Ascending, NamedFramesReadable, Range, Threads
  <2> QED BY <2>1, <2>2, InitType DEF OrdInv
<1>2. OrdInv /\ NamedFramesReadable /\ [Next]_vars => (OrdInv /\ NamedFramesReadable)'
  BY NextType, NextLock, NextOrder, NextReadable DEF OrdInv, TypeInv
<1> QED
  BY <1>1, <1>2, PTL DEF Spec
-----------------------------------------------------------------------------
(* The list in memory is the index without its k oldest frames, followed by  *)
(* frames newer than any the index ever held.                                *)
Keeps(k) ==
  /\ Len(index) - k <= Len(entries)
  /\ \A i \in 1..(Len(index) - k) : entries[i] = index[k + i]
  /\ \A i \in 1..Len(entries) : i > Len(index) - k => entries[i] > newest

(* However many index writes fail and however often the buffer is reopened,  *)
(* the list has not left the index behind it.                                *)
SlideInv ==
  /\ newest < next
  /\ pc[Capture] = "commit" => newest < next - 1
  /\ index # <<>> => newest = index[Len(index)]
  /\ \E k \in 0..Len(index) : Keeps(k)

(* Only the lists, their newest frame and the place of the capture thread     *)
(* matter to it.                                                              *)
LEMMA SlideKept ==
  ASSUME SlideInv, entries' = entries, index' = index, newest' = newest,
         next' \in {next, next + 1}, next \in Nat, newest \in Nat,
         pc'[Capture] = "commit" =>
           (pc[Capture] = "commit" /\ next' = next) \/ next' = next + 1
  PROVE  SlideInv'
<1>1. newest' < next'
  BY DEF SlideInv
<1>2. pc'[Capture] = "commit" => newest' < next' - 1
  <2>1. newest < next
    BY DEF SlideInv
  <2>2. pc[Capture] = "commit" => newest < next - 1
    BY DEF SlideInv
  <2> SUFFICES ASSUME pc'[Capture] = "commit" PROVE newest < next' - 1
    OBVIOUS
  <2>3. CASE next' = next + 1
    BY <2>1, <2>3
  <2>4. CASE pc[Capture] = "commit" /\ next' = next
    BY <2>2, <2>4
  <2> QED BY <2>3, <2>4
<1>3. index' # <<>> => newest' = index'[Len(index')]
  BY DEF SlideInv
<1>4. PICK k \in 0..Len(index) : Keeps(k)
  BY DEF SlideInv
<1>5. k \in 0..Len(index') /\ Keeps(k)'
  BY <1>4 DEF Keeps
<1> QED BY <1>1, <1>2, <1>3, <1>5 DEF SlideInv

LEMMA AppendSlides == OrdInv /\ SlideInv /\ AppendCommit => SlideInv'
<1> SUFFICES ASSUME OrdInv, SlideInv, AppendCommit PROVE SlideInv'
  OBVIOUS
<1>0. /\ entries \in Seq(1..MaxFrames) /\ index \in Seq(1..MaxFrames)
      /\ next \in 1..(MaxFrames + 1) /\ newest \in Nat /\ MaxFrames \in Nat
      /\ pc \in [Threads -> Locked \cup InBody \cup {"idle"}] /\ Capture \in Threads
  BY BufferAssumption DEF OrdInv, TypeInv, TypeOK, Threads
<1>1. /\ entries' = Append(entries, next - 1) /\ index' = index /\ newest' = newest
      /\ next' = next /\ pc'[Capture] = "evict" /\ next - 1 \in 1..MaxFrames
      /\ newest < next - 1
  BY <1>0 DEF AppendCommit, OrdInv, TypeInv, SlideInv, Goto, disk
<1>2. PICK k \in 0..Len(index) : Keeps(k)
  BY DEF SlideInv
<1>3. /\ Len(entries') = Len(entries) + 1
      /\ \A i \in 1..Len(entries) : entries'[i] = entries[i]
      /\ entries'[Len(entries) + 1] = next - 1
      /\ Len(entries) \in Nat /\ Len(index) \in Nat
  BY <1>0, <1>1, AppendProperties, LenProperties
<1>4. Keeps(k)'
  <2>1. Len(index) - k <= Len(entries')
    BY <1>2, <1>3 DEF Keeps
  <2>2. ASSUME NEW i \in 1..(Len(index) - k) PROVE entries'[i] = index[k + i]
    BY <1>2, <1>3 DEF Keeps
  <2>3. ASSUME NEW i \in 1..Len(entries'), i > Len(index) - k PROVE entries'[i] > newest
    <3>1. CASE i = Len(entries) + 1
      BY <3>1, <1>0, <1>1, <1>3
    <3>2. CASE i \in 1..Len(entries)
      BY <3>2, <2>3, <1>2, <1>3 DEF Keeps
    <3> QED BY <3>1, <3>2, <1>3
  <2> QED BY <2>1, <2>2, <2>3, <1>1 DEF Keeps
<1> QED BY <1>0, <1>1, <1>4 DEF SlideInv

(* The oldest frame leaves: from the part the index has, or, when that is gone, *)
(* before the index ever had it.                                                *)
LEMMA EvictSlides ==
  ASSUME NEW t \in Threads, OrdInv, SlideInv, EvictOne(t)
  PROVE  SlideInv'
<1>0. /\ entries \in Seq(1..MaxFrames) /\ index \in Seq(1..MaxFrames)
      /\ next \in 1..(MaxFrames + 1) /\ newest \in Nat /\ MaxFrames \in Nat
  BY BufferAssumption DEF OrdInv, TypeInv, TypeOK, Threads
<1>1. /\ entries' = Tail(entries) /\ entries # <<>> /\ index' = index /\ newest' = newest
      /\ next' = next /\ pc' = pc
  BY <1>0, BufferAssumption DEF EvictOne, budget
<1>2. PICK k \in 0..Len(index) : Keeps(k)
  BY DEF SlideInv
<1>3. /\ Len(entries') = Len(entries) - 1
      /\ \A i \in 1..Len(entries') : entries'[i] = entries[i + 1]
      /\ Len(entries) \in Nat /\ Len(index) \in Nat /\ Len(entries) > 0
  BY <1>0, <1>1, HeadTailProperties, LenProperties, EmptySeq
<1>4. \E j \in 0..Len(index) : Keeps(j)'
  <2>1. CASE k < Len(index)
    <3>1. k + 1 \in 0..Len(index)
      BY <2>1, <1>3
    <3>2. Len(index) - (k + 1) <= Len(entries')
      BY <1>2, <1>3 DEF Keeps
    <3>3. ASSUME NEW i \in 1..(Len(index) - (k + 1)) PROVE entries'[i] = index[(k + 1) + i]
      <4>1. i + 1 \in 1..(Len(index) - k) /\ i \in 1..Len(entries')
        BY <3>2, <3>3, <1>3, <2>1
      <4>2. entries[i + 1] = index[k + (i + 1)] /\ k + (i + 1) = (k + 1) + i
        BY <4>1, <1>2 DEF Keeps
      <4> QED BY <4>1, <4>2, <1>3
    <3>4. ASSUME NEW i \in 1..Len(entries'), i > Len(index) - (k + 1)
          PROVE  entries'[i] > newest
      BY <3>4, <1>2, <1>3 DEF Keeps
    <3> QED BY <3>1, <3>2, <3>3, <3>4, <1>1 DEF Keeps
  <2>2. CASE k = Len(index)
    <3>1. ASSUME NEW i \in 1..Len(entries') PROVE entries'[i] > newest
      BY <3>1, <2>2, <1>2, <1>3 DEF Keeps
    <3>2. Len(index) - k = 0 /\ Len(entries') \in Nat
      BY <2>2, <1>3
    <3> QED BY <3>1, <3>2, <1>1, <1>2 DEF Keeps
  <2> QED BY <2>1, <2>2, <1>3
<1> QED BY <1>1, <1>4 DEF SlideInv

(* The index is what the list was: nothing is dropped and nothing is new.       *)
LEMMA Caught ==
  ASSUME index \in Seq(1..MaxFrames), entries = index
  PROVE  \E k \in 0..Len(index) : Keeps(k)
<1>1. Len(index) \in Nat
  BY LenProperties
<1>2. 0 \in 0..Len(index) /\ Keeps(0)
  BY <1>1 DEF Keeps
<1> QED BY <1>2

LEMMA RewriteSlides ==
  ASSUME NEW t \in Threads, OrdInv, SlideInv, Rewrite(t)
  PROVE  SlideInv'
<1>0. /\ entries \in Seq(1..MaxFrames)
      /\ next \in 1..(MaxFrames + 1) /\ newest \in Nat /\ MaxFrames \in Nat
      /\ Len(entries) \in Nat
  BY BufferAssumption, LenProperties DEF OrdInv, TypeInv, TypeOK, Threads
<1>1. /\ index' = entries /\ entries' = entries /\ next' = next
      /\ newest' = IF entries = <<>> THEN newest ELSE entries[Len(entries)]
  BY DEF Rewrite
<1>2. pc'[Capture] # "commit"
  BY BufferAssumption DEF Rewrite, Goto, OrdInv, TypeInv, TypeOK, LockInv, Locked, Threads
<1>3. newest' < next'
  <2>1. CASE entries = <<>>
    BY <2>1, <1>1 DEF SlideInv
  <2>2. CASE entries # <<>>
    <3>1. Len(entries) \in 1..Len(entries)
      BY <2>2, <1>0, EmptySeq
    <3> QED BY <3>1, <2>2, <1>1 DEF OrdInv, OrderInv
  <2> QED BY <2>1, <2>2
<1>4. \E k \in 0..Len(index') : Keeps(k)'
  BY <1>0, <1>1, Caught, LenProperties DEF Keeps
<1> QED BY <1>1, <1>2, <1>3, <1>4 DEF SlideInv

LEMMA NextSlide == OrdInv /\ SlideInv /\ [Next]_vars => SlideInv'
<1> SUFFICES ASSUME OrdInv, SlideInv, [Next]_vars PROVE SlideInv'
  OBVIOUS
<1>0. /\ index \in Seq(1..MaxFrames) /\ next \in Nat /\ newest \in Nat
      /\ pc \in [Threads -> Locked \cup InBody \cup {"idle"}]
      /\ Capture \in Threads /\ \A b \in Builders : b # Capture
  BY BufferAssumption DEF OrdInv, TypeInv, TypeOK, Threads
<1> USE DEF Goto, disk, memory, replays, budget
<1>1. CASE AppendSave
  <2>1. /\ entries' = entries /\ index' = index /\ newest' = newest /\ next' = next + 1
    BY <1>1 DEF AppendSave
  <2> QED BY <2>1, <1>0, SlideKept
<1>2. CASE AppendSaveFails
  <2>1. /\ entries' = entries /\ index' = index /\ newest' = newest /\ next' = next + 1
    BY <1>2 DEF AppendSaveFails
  <2> QED BY <2>1, <1>0, SlideKept
<1>3. CASE AppendCommit
  BY <1>3, AppendSlides
<1>4. ASSUME NEW t \in Threads, EvictOne(t) PROVE SlideInv'
  BY <1>4, EvictSlides
<1>5. ASSUME NEW t \in Threads, EvictDone(t) \/ RewriteFails(t) PROVE SlideInv'
  <2>1. /\ entries' = entries /\ index' = index /\ newest' = newest /\ next' = next
        /\ pc'[Capture] = "commit" => pc[Capture] = "commit"
    BY <1>5, <1>0 DEF EvictDone, RewriteFails
  <2> QED BY <2>1, <1>0, SlideKept
<1>6. ASSUME NEW t \in Threads, Rewrite(t) PROVE SlideInv'
  BY <1>6, RewriteSlides
<1>7. ASSUME NEW b \in Builders, EnterBuilding(b) \/ BuildStep(b) \/ LoadRaises(b)
      PROVE  SlideInv'
  <2>1. /\ entries' = entries /\ index' = index /\ newest' = newest /\ next' = next
        /\ pc'[Capture] = pc[Capture]
    BY <1>7, <1>0
    DEF EnterBuilding, BuildStep, CopyWindow, LoadOne, ExitBuilding, LoadRaises
  <2> QED BY <2>1, <1>0, SlideKept
<1>8. CASE Restart
  <2>1. /\ entries' = index /\ index' = index /\ newest' = newest /\ next' = next
        /\ pc'[Capture] = "idle"
    BY <1>8, <1>0 DEF Restart
  <2>2. \E k \in 0..Len(index') : Keeps(k)'
    BY <2>1, <1>0, Caught, LenProperties DEF Keeps
  <2> QED BY <2>1, <2>2 DEF SlideInv
<1>9. CASE UNCHANGED vars
  <2>1. /\ entries' = entries /\ index' = index /\ newest' = newest /\ next' = next
        /\ pc' = pc
    BY <1>9 DEF vars
  <2> QED BY <2>1, <1>0, SlideKept
<1> QED
  BY <1>1, <1>2, <1>3, <1>4, <1>5, <1>6, <1>7, <1>8, <1>9 DEF Next, LockedStep

(* What is left of a sequence without its first m.                              *)
LEMMA Newer ==
  ASSUME NEW S, NEW s \in Seq(S), NEW m \in 0..Len(s)
  PROVE  LET r == SubSeq(s, m + 1, Len(s))
         IN /\ r \in Seq(S) /\ Len(r) = Len(s) - m
            /\ \A i \in 1..Len(r) : r[i] = s[m + i]
  BY LenProperties, SubSeqProperties

(* Two sequences whose parts agree, one of them taken apart.                    *)
LEMMA TakenApart ==
  ASSUME NEW S, NEW s \in Seq(S), NEW r \in Seq(S), NEW k \in 0..Len(r),
         Len(r) - k <= Len(s),
         \A i \in 1..(Len(r) - k) : s[i] = r[k + i]
  PROVE  s = SubSeq(r, k + 1, Len(r)) \o SubSeq(s, (Len(r) - k) + 1, Len(s))
<1> DEFINE m == Len(r) - k
           old == SubSeq(r, k + 1, Len(r))
           new == SubSeq(s, m + 1, Len(s))
<1>1. Len(r) \in Nat /\ Len(s) \in Nat /\ m \in 0..Len(s)
  BY LenProperties
<1>2. /\ old \in Seq(S) /\ Len(old) = m
      /\ \A i \in 1..m : old[i] = r[k + i] /\ s[i] = r[k + i]
  BY <1>1, Newer
<1>3. /\ new \in Seq(S) /\ Len(new) = Len(s) - m
      /\ \A i \in 1..(Len(s) - m) : new[i] = s[m + i]
  <2> HIDE DEF m
  <2> QED BY <1>1, Newer
<1> HIDE DEF old, new, m
<1> DEFINE both == old \o new
<1>4. /\ both \in Seq(S) /\ Len(both) = Len(s)
      /\ \A i \in 1..Len(s) : both[i] = IF i <= m THEN old[i] ELSE new[i - m]
  BY <1>1, <1>2, <1>3, ConcatProperties
<1> HIDE DEF both
<1>5. ASSUME NEW i \in 1..Len(s) PROVE both[i] = s[i]
  <2>1. CASE i <= m
    <3>1. i \in 1..m
      BY <2>1, <1>1
    <3> QED BY <3>1, <2>1, <1>2, <1>4
  <2>2. CASE ~(i <= m)
    <3>1. i - m \in 1..(Len(s) - m) /\ m + (i - m) = i
      BY <2>2, <1>1
    <3>2. both[i] = new[i - m]
      BY <2>2, <1>4
    <3>3. new[i - m] = s[m + (i - m)]
      BY <3>1, <1>3
    <3> QED BY <3>1, <3>2, <3>3
  <2> QED BY <2>1, <2>2, Zenon
<1>6. s = both
  BY <1>4, <1>5, SeqEqual
<1> QED BY <1>6 DEF old, new, m, both

(* Writing the index is one slide of the durable log.                           *)
LEMMA RewriteIsSlide ==
  ASSUME NEW t \in Threads, OrdInv, SlideInv, Rewrite(t)
  PROVE  Durable!Next
<1>0. /\ entries \in Seq(1..MaxFrames) /\ index \in Seq(1..MaxFrames)
      /\ newest \in Nat /\ MaxFrames \in Nat
      /\ Len(entries) \in Nat /\ Len(index) \in Nat
  BY BufferAssumption, LenProperties DEF OrdInv, TypeInv, TypeOK, Threads
<1>1. /\ index' = entries
      /\ newest' = IF entries = <<>> THEN newest ELSE entries[Len(entries)]
  BY DEF Rewrite
<1>2. PICK k \in 0..Len(index) : Keeps(k)
  BY DEF SlideInv
<1> DEFINE m == Len(index) - k
           fresh == SubSeq(entries, m + 1, Len(entries))
<1>3. /\ m \in 0..Len(entries) /\ k \in 0..Len(index)
      /\ \A i \in 1..m : entries[i] = index[k + i]
      /\ \A i \in 1..Len(entries) : i > m => entries[i] > newest
  BY <1>0, <1>2 DEF Keeps
<1>4. /\ Len(fresh) = Len(entries) - m
      /\ \A i \in 1..Len(fresh) : fresh[i] = entries[m + i]
      /\ fresh \in Seq(1..MaxFrames)
  <2> HIDE DEF m
  <2> QED BY <1>0, <1>3, Newer
<1>5. entries = SubSeq(index, k + 1, Len(index)) \o fresh
  <2>1. /\ k \in 0..Len(index) /\ Len(index) - k <= Len(entries)
        /\ \A i \in 1..(Len(index) - k) : entries[i] = index[k + i]
    BY <1>2 DEF Keeps
  <2> QED BY <1>0, <2>1, TakenApart
<1> HIDE DEF m, fresh
<1>6. Durable!Increasing(fresh)
  <2>1. ASSUME NEW i \in 1..Len(fresh), NEW j \in 1..Len(fresh), i < j
        PROVE  fresh[i] < fresh[j]
    <3>1. m + i \in 1..Len(entries) /\ m + j \in 1..Len(entries) /\ m + i < m + j
      BY <2>1, <1>0, <1>3, <1>4
    <3> QED BY <3>1, <1>4 DEF OrdInv, OrderInv, Ascending
  <2> QED BY <2>1 DEF Durable!Increasing
<1>7. ASSUME NEW i \in 1..Len(fresh) PROVE fresh[i] > newest
  <2>1. m + i \in 1..Len(entries) /\ m + i > m
    BY <1>0, <1>3, <1>4
  <2> QED BY <2>1, <1>3, <1>4
<1>8. newest' = IF fresh = <<>> THEN newest ELSE fresh[Len(fresh)]
  <2>1. CASE Len(fresh) = 0
    <3>1. fresh = <<>> /\ m = Len(entries)
      BY <2>1, <1>0, <1>3, <1>4, EmptySeq
    <3>2. CASE entries = <<>>
      BY <3>1, <3>2, <1>1
    <3>3. CASE entries # <<>>
      <4>1. Len(entries) \in 1..m /\ m > 0
        BY <3>1, <3>3, <1>0, <1>3, EmptySeq
      <4>2. entries[Len(entries)] = index[Len(index)] /\ index # <<>>
        <5>1. m \in 1..m /\ entries[m] = index[k + m]
          BY <4>1, <3>1, <1>0, <1>3
        <5>2. k + m = Len(index) /\ Len(index) > 0
          BY <4>1, <1>0, <1>3 DEF m
        <5> QED BY <5>1, <5>2, <3>1, <1>0, EmptySeq
      <4>3. newest = index[Len(index)]
        BY <4>2 DEF SlideInv
      <4> QED BY <3>1, <3>3, <4>2, <4>3, <1>1
    <3> QED BY <3>2, <3>3
  <2>2. CASE Len(fresh) > 0
    <3>1. Len(fresh) \in 1..Len(fresh) /\ m + Len(fresh) = Len(entries)
      BY <2>2, <1>0, <1>3, <1>4
    <3>2. fresh # <<>> /\ entries # <<>>
      BY <2>2, <3>1, <1>0, <1>3, EmptySeq
    <3> QED BY <3>1, <3>2, <1>1, <1>4
  <2> QED BY <2>1, <2>2, <1>0, <1>3, <1>4
<1>9. Durable!Slide(k, fresh)
  BY <1>1, <1>5, <1>6, <1>7, <1>8 DEF Durable!Slide
<1>10. fresh = SubSeq(index', m + 1, Len(index')) /\ m \in 0..Len(index')
  BY <1>1, <1>3 DEF fresh
<1> QED BY <1>2, <1>9, <1>10 DEF Durable!Next

(* The durable index is a log that only slides forward, through any number of   *)
(* restarts and failed writes and with any number of builds at once: whoever    *)
(* reopens the buffer finds no frame that had left it, and none out of place.   *)
THEOREM SlideTheorem == Spec => SlidesForward
<1> USE DEF disk, memory, replays, budget
<1>1. Init => Durable!Init
  BY DEF Init, Durable!Init
<1>2. Init => OrdInv /\ SlideInv
  <2>1. Init => LockInv
    BY DEF Init, LockInv, Locked, Threads
  <2>2. Init => OrderInv
    BY BufferAssumption DEF Init, OrderInv, Ascending, Threads
  <2>3. Init => SlideInv
    BY BufferAssumption DEF Init, SlideInv, Keeps, Threads
  <2> QED BY <2>1, <2>2, <2>3, InitType DEF OrdInv
<1>3. OrdInv /\ SlideInv /\ [Next]_vars => (OrdInv /\ SlideInv)'
  BY NextType, NextLock, NextOrder, NextSlide DEF OrdInv, TypeInv
<1>4. OrdInv /\ SlideInv /\ [Next]_vars => [Durable!Next]_Durable!logVars
  <2> SUFFICES ASSUME OrdInv, SlideInv, [Next]_vars
               PROVE  [Durable!Next]_Durable!logVars
    OBVIOUS
  <2>1. ASSUME NEW t \in Threads, Rewrite(t) PROVE Durable!Next
    BY <2>1, RewriteIsSlide
  <2>2. CASE AppendSave \/ AppendSaveFails \/ AppendCommit
    BY <2>2 DEF AppendSave, AppendSaveFails, AppendCommit, Durable!logVars
  <2>3. ASSUME NEW t \in Threads, EvictOne(t) \/ EvictDone(t) \/ RewriteFails(t)
        PROVE  UNCHANGED Durable!logVars
    BY <2>3 DEF EvictOne, EvictDone, RewriteFails, Durable!logVars
  <2>4. ASSUME NEW b \in Builders, EnterBuilding(b) \/ BuildStep(b) \/ LoadRaises(b)
        PROVE  UNCHANGED Durable!logVars
    BY <2>4 DEF EnterBuilding, BuildStep, CopyWindow, LoadOne, ExitBuilding, LoadRaises,
                Durable!logVars
  <2>5. CASE Restart
    BY <2>5 DEF Restart, Durable!logVars
  <2>6. CASE UNCHANGED vars
    BY <2>6 DEF vars, Durable!logVars
  <2> QED BY <2>1, <2>2, <2>3, <2>4, <2>5, <2>6 DEF Next, LockedStep
<1> QED
  BY <1>1, <1>2, <1>3, <1>4, PTL DEF Spec, SlidesForward, Durable!Spec

-----------------------------------------------------------------------------
(* The producer: the pool has one build at a time, and nothing reaches the *)
(* world once stop() has returned.  SingleFlight is not inductive: between *)
(* the decision to build and the submission another thread might submit.   *)
(* It does not, because while the pool is open only one thread ticks       *)
(* (OneTicker), which is what the check of start() and the shutdown in     *)
(* stop() amount to, so that the decision still holds when it is acted on  *)
(* (DecisionHolds).                                                        *)

Shapes ==
  /\ thread \in Captures \cup {NoThread}
  /\ stage \in [Tickers -> {"unborn", "dead", "loop", "idle", "join", "drain",
                         "capture", "count", "submit", "build", "merge"}]
  /\ \A c \in Captures : stage[c] \in {"unborn", "dead", "loop", "capture", "count", "submit"}

Ticking == {"capture", "count", "submit"}

OneTicker ==
  open => /\ \A c \in Captures : Alive(c) => c = thread
          /\ stage[Main] \in Ticking => thread = NoThread

DecisionHolds == open /\ (\E t \in Tickers : stage[t] = "submit") => ~BuildRunning

Drained == ~open /\ stage[Main] # "drain" => ~BuildRunning

IInv == Shapes /\ OneTicker /\ DecisionHolds /\ Drained /\ SingleFlight

-----------------------------------------------------------------------------

LEMMA InitIInv == ServiceInit => IInv
<1> SUFFICES ASSUME ServiceInit PROVE IInv
  OBVIOUS
<1> USE ExploreAssumption DEF ServiceInit, Tickers
<1>1. Shapes
  BY DEF Shapes
<1>2. OneTicker
  BY DEF OneTicker, Alive, Ticking
<1>3. DecisionHolds /\ Drained /\ SingleFlight
  BY DEF DecisionHolds, Drained, SingleFlight, BuildRunning
<1> QED
  BY <1>1, <1>2, <1>3 DEF IInv

(* start() is called by the main thread, which then does not tick; the thread
   it replaces is dead. *)
LEMMA StartIInv == IInv /\ Start => IInv'
<1> SUFFICES ASSUME IInv, Start PROVE IInv'
  OBVIOUS
<1> USE ExploreAssumption DEF IInv, Tickers
<1>1. PICK c \in Captures : stage[c] = "unborn" /\ thread' = c /\ stage' = [stage EXCEPT ![c] = "loop"]
  BY DEF Start, GoesTo
<1>2. stage'[Main] = "idle" /\ open' = open /\ job' = job /\ queued' = queued
  BY <1>1 DEF Start, Shapes, work
<1>3. Shapes'
  BY <1>1 DEF Shapes
<1>4. ASSUME open PROVE \A d \in Captures : ~Alive(d)
  BY <1>4 DEF Start, OneTicker, Shapes
<1>5. OneTicker'
  BY <1>1, <1>2, <1>4 DEF OneTicker, Alive, Ticking, Shapes
<1>6. DecisionHolds' /\ Drained' /\ SingleFlight'
  BY <1>1, <1>2 DEF DecisionHolds, Drained, SingleFlight, BuildRunning, Shapes, Start
<1> QED
  BY <1>3, <1>5, <1>6

(* stop() shuts the pool before it drops the thread. *)
LEMMA StopIInv == IInv /\ (StopBegins \/ StopStep) => IInv'
<1> SUFFICES ASSUME IInv, StopBegins \/ StopStep PROVE IInv'
  OBVIOUS
<1> USE ExploreAssumption DEF IInv, Tickers, GoesTo, work, Shapes, OneTicker, Alive, Ticking,
          DecisionHolds, Drained, SingleFlight, BuildRunning
<1>1. CASE StopBegins
  BY <1>1 DEF StopBegins
<1>2. CASE StopJoins
  BY <1>2 DEF StopJoins
<1>3. CASE StopReturns
  BY <1>3 DEF StopReturns, control
<1> QED
  BY <1>1, <1>2, <1>3 DEF StopStep

(* The manual path: main captures only while there is no thread. *)
LEMMA ManualIInv == IInv /\ (ObserveBegins \/ MainLoads \/ MainMerges \/ MainFails) => IInv'
<1> SUFFICES ASSUME IInv, ObserveBegins \/ MainLoads \/ MainMerges \/ MainFails PROVE IInv'
  OBVIOUS
<1> USE ExploreAssumption DEF IInv, Tickers, GoesTo, control, Shapes, OneTicker, Alive, Ticking,
          DecisionHolds, Drained, SingleFlight, BuildRunning
<1>1. CASE ObserveBegins
  BY <1>1 DEF ObserveBegins, work
<1>2. CASE MainLoads
  BY <1>2 DEF MainLoads
<1>3. CASE MainMerges
  BY <1>3 DEF MainMerges
<1>4. CASE MainFails
  BY <1>4 DEF MainFails
<1> QED
  BY <1>1, <1>2, <1>3, <1>4

(* A tick of t: the others stand where they stood. *)
LEMMA TickIInv == ASSUME IInv, NEW t \in Tickers, Tick(t) PROVE IInv'
<1> USE ExploreAssumption DEF IInv, Tickers, GoesTo, AfterTick, control, Shapes, Alive, Ticking
<1>1. stage[t] \in Ticking /\ UNCHANGED control
  BY DEF Tick, CaptureNothing, CaptureUnbuffered, CaptureBuffered, CountAndDecide, Submit
<1>2. ASSUME open, NEW s \in Tickers, stage[s] = "submit" PROVE s = t
  BY <1>1, <1>2 DEF OneTicker
<1>3. CASE UNCHANGED work /\ stage' = [stage EXCEPT ![t] = AfterTick(t)]
  BY <1>1, <1>3 DEF work, OneTicker, DecisionHolds, Drained, SingleFlight, BuildRunning
<1>4. CASE UNCHANGED work /\ stage' = [stage EXCEPT ![t] = "count"]
  BY <1>1, <1>4 DEF work, OneTicker, DecisionHolds, Drained, SingleFlight, BuildRunning
<1>5. CASE UNCHANGED work /\ stage' = [stage EXCEPT ![t] = "submit"] /\ ~BuildRunning
  BY <1>1, <1>5 DEF work, OneTicker, DecisionHolds, Drained, SingleFlight, BuildRunning
<1>6. CASE Submit(t)
  <2>1. CASE open
    <3>1. ~BuildRunning /\ job' = "queued" /\ queued' = queued /\ stage' = [stage EXCEPT ![t] = AfterTick(t)]
      BY <1>6, <2>1 DEF Submit, DecisionHolds
    <3>2. \A s \in Tickers : stage'[s] # "submit"
      BY <1>2, <2>1, <3>1
    <3> QED
      BY <1>1, <2>1, <3>1, <3>2 DEF OneTicker, DecisionHolds, Drained, SingleFlight
  <2>2. CASE ~open
    <3>1. UNCHANGED <<job, queued>> /\ stage' = [stage EXCEPT ![t] = IF t = Main THEN "idle" ELSE "loop"]
      BY <1>6, <2>2 DEF Submit
    <3> QED
      BY <1>1, <2>2, <3>1 DEF OneTicker, DecisionHolds, Drained, SingleFlight, BuildRunning
  <2> QED
    BY <2>1, <2>2
<1>7. \/ UNCHANGED work /\ stage' = [stage EXCEPT ![t] = AfterTick(t)]
      \/ UNCHANGED work /\ stage' = [stage EXCEPT ![t] = "count"]
      \/ UNCHANGED work /\ stage' = [stage EXCEPT ![t] = "submit"] /\ ~BuildRunning
      \/ Submit(t)
  <2>1. CASE CountAndDecide(t)
    <3>1. PICK tooSoon \in BOOLEAN :
            stage' = [stage EXCEPT ![t] = IF sinceBuild' < Threshold \/ tooSoon \/ BuildRunning
                                    THEN AfterTick(t) ELSE "submit"]
      BY <2>1 DEF CountAndDecide
    <3>2. UNCHANGED work
      BY <2>1 DEF CountAndDecide
    <3>3. CASE sinceBuild' < Threshold \/ tooSoon \/ BuildRunning
      BY <3>1, <3>2, <3>3
    <3>4. CASE ~ (sinceBuild' < Threshold \/ tooSoon \/ BuildRunning)
      BY <3>1, <3>2, <3>4
    <3> QED
      BY <3>3, <3>4
  <2> QED
    BY <2>1 DEF Tick, CaptureNothing, CaptureUnbuffered, CaptureBuffered
<1> QED
  BY <1>3, <1>4, <1>5, <1>6, <1>7

(* The worker only ever takes a build out of the pool. *)
LEMMA WorkerIInv == IInv /\ WorkerStep => IInv'
<1> SUFFICES ASSUME IInv, WorkerStep PROVE IInv'
  OBVIOUS
<1>1. UNCHANGED <<control, stage>> /\ queued' = 0 /\ (BuildRunning' => BuildRunning)
  BY DEF IInv, SingleFlight, BuildRunning, WorkerStep, WorkerLoads, WorkerMerges, WorkerFails, JobEnds
<1> QED
  BY <1>1 DEF IInv, Shapes, OneTicker, Alive, DecisionHolds, Drained, SingleFlight, control

LEMMA StepIInv == IInv /\ [ServiceNext]_serviceVars => IInv'
<1> SUFFICES ASSUME IInv, [ServiceNext]_serviceVars PROVE IInv'
  OBVIOUS
<1>1. CASE UNCHANGED serviceVars
  BY <1>1 DEF IInv, Shapes, OneTicker, Alive, DecisionHolds, Drained, SingleFlight, BuildRunning,
              serviceVars, control, work
<1>2. ASSUME NEW c \in Captures, LoopChecks(c) PROVE IInv'
  BY <1>2, ExploreAssumption DEF LoopChecks, GoesTo, control, work, IInv, Tickers, Shapes, OneTicker,
     Alive, Ticking, DecisionHolds, Drained, SingleFlight, BuildRunning
<1> QED
  BY <1>1, <1>2, StartIInv, StopIInv, ManualIInv, TickIInv, WorkerIInv DEF ServiceNext

THEOREM ExploreInvariant == ServiceSpec => []IInv
BY InitIInv, StepIInv, PTL DEF ServiceSpec

(* The pool never has two builds, whichever threads are still alive and whoever
   calls observe(): _maybe_build's check of the future is enough. *)
THEOREM SingleFlightTheorem == ServiceSpec => []SingleFlight
<1>1. IInv => SingleFlight
  BY DEF IInv
<1> QED
  BY <1>1, ExploreInvariant, PTL

(* Once stop() has returned, nothing but a manual build changes the world, though
   a capture thread that missed the join lives on. *)
THEOREM QuietTheorem == ServiceSpec => QuietAfterStop
<1>1. IInv /\ [ServiceNext]_serviceVars => [~open /\ stage[Main] = "idle" => nObs' = nObs]_serviceVars
  <2> SUFFICES ASSUME IInv, ServiceNext, ~open, stage[Main] = "idle" PROVE nObs' = nObs
    OBVIOUS
  <2>1. job # "merge"
    BY DEF IInv, Drained, BuildRunning
  <2> QED
    BY <2>1 DEF ServiceNext, Start, StopBegins, StopStep, StopJoins, StopReturns, ObserveBegins, MainLoads,
       MainMerges, MainFails, LoopChecks, Tick, CaptureNothing, CaptureUnbuffered, CaptureBuffered,
       CountAndDecide, Submit, WorkerStep, WorkerLoads, WorkerMerges, WorkerFails, work
<1> QED
  BY <1>1, ExploreInvariant, PTL DEF ServiceSpec, QuietAfterStop
=============================================================================

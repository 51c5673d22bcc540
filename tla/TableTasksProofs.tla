-------------------------- MODULE TableTasksProofs --------------------------
(***************************************************************************)
(* For any objects, places and numbers of attempts, and any caller: what   *)
(* the record of an arm says is true, or one of the causes named in        *)
(* Manipulation has put it wrong.                                          *)
(*                                                                         *)
(* RecordHasCause is not inductive: in the middle of a pick or a place the *)
(* arm at work may hold something the record does not know yet, and what   *)
(* happens next rests on `good`.  Work says, phase by phase, how hand,     *)
(* record and `good` stand to each other; Inv adds it to the types.        *)
(* ArmsLeftSafe rests on OffOnlyAtWork: collision checking is off for the  *)
(* arm at work alone, in the phases before the finally blocks.             *)
(*                                                                         *)
(* CountIsLoaded rests on CountInv, which follows an object through        *)
(* SortSlice: that a clean pick leaves something in the hand its record    *)
(* names, or a fault has paid for the next item; that the hand a place     *)
(* empties is that one; that a clean place adds to the dishwasher.         *)
(***************************************************************************)
EXTENDS TableTasks, FiniteSetTheorems, SequenceTheorems, WellFoundedInduction, TLAPS

PickPhases == {"locate", "approach", "relocate", "plan", "reach", "open", "grasp", "check",
               "tidy", "record", "restore"}
PlacePhases == {"scan", "choose", "approach", "rescan", "align", "lay", "release", "tidy"}

Phases ==
    /\ op = "none" => ph = "idle"
    /\ op = "pick" => ph \in PickPhases
    /\ op = "place" => ph \in PlacePhases
    /\ answer # "none" => op = "none"
    /\ good => ph \in {"tidy", "record", "restore"} \/ answer # "none"

Work ==
    /\ \A h \in Hands : h # hand => Agree(h)
    /\ ph \notin {"check", "tidy", "record"} => Agree(hand)
    /\ ph \in {"grasp", "check"} => (hand \in held => hand \in misled \/ Holding(hand) # {})
    /\ ph = "tidy" /\ ~good => Agree(hand)
    /\ ph = "tidy" /\ good /\ op = "pick" => Holding(hand) # {} \/ hand \in misled
    /\ ph = "tidy" /\ good /\ op = "place" => Holding(hand) = {} \/ hand \in misled
    /\ ph = "record" => Holding(hand) # {} \/ hand \in misled

Inv == TypeOK /\ Phases /\ Work

----------------------------------------------------------------------------

LEMMA InitInv == ArmsInit /\ at \in Places /\ where \in [Objects -> Places] => Inv
<1> SUFFICES ASSUME ArmsInit, at \in Places, where \in [Objects -> Places] PROVE Inv
  OBVIOUS
<1>1. TypeOK
  BY ManipulationAssumption DEF ArmsInit, TypeOK, TriggerBand, Hands
<1>2. Phases
  BY DEF ArmsInit, Phases
<1>3. \A h \in Hands : Holding(h) = {}
  BY ManipulationAssumption DEF Holding, Hands
<1>4. Work
  BY <1>3 DEF ArmsInit, Work, Agree, Hands
<1> QED
  BY <1>1, <1>2, <1>4 DEF Inv

\* A step that moves no object and touches no record keeps what Work says, when
\* the arm at work has nothing to hide before it and nothing after it.
LEMMA NothingMoves ==
    ASSUME Inv, UNCHANGED <<hand, held, where, misled>>,
           ph \notin {"check", "tidy", "record"}, ph' \notin {"grasp", "check", "tidy", "record"}
    PROVE  Work'
<1>1. \A h \in Hands : Agree(h)' = Agree(h)
  BY DEF Agree, Holding
<1>2. hand \in Hands
  BY DEF Inv, TypeOK
<1> QED
  BY <1>1, <1>2 DEF Inv, Work

LEMMA ApproachInv == Inv /\ Approach => Inv'
<1> SUFFICES ASSUME Inv, Approach PROVE Inv'
  OBVIOUS
<1> USE ManipulationAssumption DEF ApproachDone, ApproachMoved
<1>1. TypeOK'
  BY DEF Inv, TypeOK, Approach, Leaves, Go, Answer, Raise, Faulty, Fine, arms, TriggerBand, ToleranceBand
<1>2. Phases'
  BY DEF Inv, Phases, PickPhases, PlacePhases, Approach, Go, Answer, Raise, Faulty, Fine, arms
<1>3. Work'
  <2>1. ph \notin {"check", "tidy", "record"} /\ ph' \notin {"grasp", "check", "tidy", "record"}
    BY DEF Inv, Phases, Approach, Go, Answer, Raise, Faulty, Fine
  <2> QED
    BY <2>1, NothingMoves DEF Approach, arms
<1> QED
  BY <1>1, <1>2, <1>3 DEF Inv

LEMMA CallInv == Inv /\ Call => Inv'
<1> SUFFICES ASSUME Inv, Call PROVE Inv'
  OBVIOUS
<1> USE ManipulationAssumption DEF arms, progress
<1>1. CASE Hear
  <2>1. TypeOK'
    BY <1>1 DEF Hear, Inv, TypeOK, Leaves, Hands, TriggerBand
  <2>2. Phases'
    BY <1>1 DEF Hear, Inv, Phases
  <2>3. Work'
    <3>1. ph = "idle"
      BY <1>1 DEF Hear, Inv, Phases
    <3>2. \A h \in Hands : Agree(h)
      BY <3>1 DEF Inv, Work
    <3>3. \A h \in Hands : Agree(h)'
      BY <1>1, <3>2 DEF Hear, Agree, Holding
    <3> QED
      BY <1>1, <3>1, <3>3 DEF Hear, Work, Hands
  <2> QED
    BY <2>1, <2>2, <2>3 DEF Inv
<1>2. ASSUME NEW arm \in Arms, StartPick(arm) \/ StartPlace(arm) PROVE Inv'
  <2>1. TypeOK'
    BY <1>2 DEF StartPick, StartPlace, Arms, Inv, TypeOK
  <2>2. Phases'
    BY <1>2 DEF StartPick, StartPlace, Arms, Inv, Phases, PickPhases, PlacePhases
  <2>3. Work'
    <3>1. ph = "idle" /\ hand \in Hands
      BY <1>2 DEF StartPick, StartPlace, Inv, Phases, TypeOK
    <3>2. \A h \in Hands : Agree(h)
      BY <3>1 DEF Inv, Work
    <3>3. \A h \in Hands : Agree(h)'
      BY <1>2, <3>2 DEF StartPick, StartPlace, Agree, Holding
    <3>4. ph' \in {"locate", "scan", "idle"} /\ hand' \in Hands
      BY <1>2, <3>1 DEF StartPick, StartPlace, Arms
    <3> QED
      BY <3>3, <3>4 DEF Work
  <2> QED
    BY <2>1, <2>2, <2>3 DEF Inv
<1>3. ASSUME NEW p \in Places, DriveTo(p) PROVE Inv'
  <2>1. TypeOK' /\ Phases'
    BY <1>3 DEF DriveTo, Inv, TypeOK, Phases
  <2>2. Work'
    <3>1. ph = "idle"
      BY <1>3 DEF DriveTo, Inv, Phases
    <3> QED
      BY <1>3, <3>1, NothingMoves DEF DriveTo
  <2> QED
    BY <2>1, <2>2 DEF Inv
<1> QED
  BY <1>1, <1>2, <1>3 DEF Call

----------------------------------------------------------------------------
(* The steps that move no object *)

LEMMA LocateInv == Inv /\ Locate => Inv'
<1> SUFFICES ASSUME Inv, Locate PROVE Inv'
  OBVIOUS
<1> USE ManipulationAssumption
<1>1. TypeOK'
  BY DEF Inv, TypeOK, Locate, Go, Answer, Raise, Faulty, Fine, arms, progress, Hands, TriggerBand, ReachBand, ToleranceBand
<1>2. Phases'
  BY DEF Inv, Phases, PickPhases, PlacePhases, Locate, Go, Answer, Raise, Faulty, Fine, arms, progress
<1>3. Work'
  <2>1. ph \notin {"check", "tidy", "record"} /\ ph' \notin {"grasp", "check", "tidy", "record"}
    BY DEF Locate, Go, Answer, Raise
  <2> QED
    BY <2>1, NothingMoves DEF Locate, arms, progress
<1> QED
  BY <1>1, <1>2, <1>3 DEF Inv

LEMMA RelocateInv == Inv /\ Relocate => Inv'
<1> SUFFICES ASSUME Inv, Relocate PROVE Inv'
  OBVIOUS
<1> USE ManipulationAssumption
<1>1. TypeOK'
  BY DEF Inv, TypeOK, Relocate, Go, Answer, Raise, Faulty, Fine, arms, progress, Hands, TriggerBand, ReachBand, ToleranceBand, Strafed
<1>2. Phases'
  BY DEF Inv, Phases, PickPhases, PlacePhases, Relocate, Go, Answer, Raise, Faulty, Fine, arms, progress
<1>3. Work'
  <2>1. ph \notin {"check", "tidy", "record"} /\ ph' \notin {"grasp", "check", "tidy", "record"}
    BY DEF Relocate, Go, Answer, Raise
  <2> QED
    BY <2>1, NothingMoves DEF Relocate, arms, progress
<1> QED
  BY <1>1, <1>2, <1>3 DEF Inv

LEMMA PlanGraspInv == Inv /\ PlanGrasp => Inv'
<1> SUFFICES ASSUME Inv, PlanGrasp PROVE Inv'
  OBVIOUS
<1> USE ManipulationAssumption
<1>1. TypeOK'
  BY DEF Inv, TypeOK, PlanGrasp, Go, Answer, Raise, Faulty, Fine, arms, progress, Hands, TriggerBand, ReachBand, ToleranceBand, CloudPossible
<1>2. Phases'
  BY DEF Inv, Phases, PickPhases, PlacePhases, PlanGrasp, Go, Answer, Raise, Faulty, Fine, arms, progress
<1>3. Work'
  <2>1. ph \notin {"check", "tidy", "record"} /\ ph' \notin {"grasp", "check", "tidy", "record"}
    BY DEF PlanGrasp, Go, Answer, Raise
  <2> QED
    BY <2>1, NothingMoves DEF PlanGrasp, arms, progress
<1> QED
  BY <1>1, <1>2, <1>3 DEF Inv

LEMMA GraspReachInv == Inv /\ GraspReach => Inv'
<1> SUFFICES ASSUME Inv, GraspReach PROVE Inv'
  OBVIOUS
<1> USE ManipulationAssumption
<1>1. TypeOK'
  BY DEF Inv, TypeOK, GraspReach, Go, Answer, Raise, Faulty, Fine, arms, progress, Hands, TriggerBand, ReachBand, ToleranceBand
<1>2. Phases'
  BY DEF Inv, Phases, PickPhases, PlacePhases, GraspReach, Go, Answer, Raise, Faulty, Fine, arms, progress
<1>3. Work'
  <2>1. ph \notin {"check", "tidy", "record"} /\ ph' \notin {"grasp", "check", "tidy", "record"}
    BY DEF GraspReach, Go, Answer, Raise
  <2> QED
    BY <2>1, NothingMoves DEF GraspReach, arms, progress
<1> QED
  BY <1>1, <1>2, <1>3 DEF Inv

LEMMA ScanSurfacesInv == Inv /\ ScanSurfaces => Inv'
<1> SUFFICES ASSUME Inv, ScanSurfaces PROVE Inv'
  OBVIOUS
<1> USE ManipulationAssumption
<1>1. TypeOK'
  BY DEF Inv, TypeOK, ScanSurfaces, Go, Answer, Raise, Faulty, Fine, arms, progress, Hands, TriggerBand, ReachBand, ToleranceBand
<1>2. Phases'
  BY DEF Inv, Phases, PickPhases, PlacePhases, ScanSurfaces, Go, Answer, Raise, Faulty, Fine, arms, progress
<1>3. Work'
  <2>1. ph \notin {"check", "tidy", "record"} /\ ph' \notin {"grasp", "check", "tidy", "record"}
    BY DEF ScanSurfaces, Go, Answer, Raise
  <2> QED
    BY <2>1, NothingMoves DEF ScanSurfaces, arms, progress
<1> QED
  BY <1>1, <1>2, <1>3 DEF Inv

LEMMA ChooseSurfaceInv == Inv /\ ChooseSurface => Inv'
<1> SUFFICES ASSUME Inv, ChooseSurface PROVE Inv'
  OBVIOUS
<1> USE ManipulationAssumption
<1>1. TypeOK'
  BY DEF Inv, TypeOK, ChooseSurface, Go, Answer, Raise, Faulty, Fine, arms, progress, Hands, TriggerBand, ReachBand, ToleranceBand
<1>2. Phases'
  BY DEF Inv, Phases, PickPhases, PlacePhases, ChooseSurface, Go, Answer, Raise, Faulty, Fine, arms, progress
<1>3. Work'
  <2>1. ph \notin {"check", "tidy", "record"} /\ ph' \notin {"grasp", "check", "tidy", "record"}
    BY DEF ChooseSurface, Go, Answer, Raise
  <2> QED
    BY <2>1, NothingMoves DEF ChooseSurface, arms, progress
<1> QED
  BY <1>1, <1>2, <1>3 DEF Inv

LEMMA RescanInv == Inv /\ Rescan => Inv'
<1> SUFFICES ASSUME Inv, Rescan PROVE Inv'
  OBVIOUS
<1> USE ManipulationAssumption
<1>1. TypeOK'
  BY DEF Inv, TypeOK, Rescan, Go, Answer, Raise, Faulty, Fine, arms, progress, Hands, TriggerBand, ReachBand, ToleranceBand
<1>2. Phases'
  BY DEF Inv, Phases, PickPhases, PlacePhases, Rescan, Go, Answer, Raise, Faulty, Fine, arms, progress
<1>3. Work'
  <2>1. ph \notin {"check", "tidy", "record"} /\ ph' \notin {"grasp", "check", "tidy", "record"}
    BY DEF Rescan, Go, Answer, Raise
  <2> QED
    BY <2>1, NothingMoves DEF Rescan, arms, progress
<1> QED
  BY <1>1, <1>2, <1>3 DEF Inv

LEMMA AlignAndReachInv == Inv /\ AlignAndReach => Inv'
<1> SUFFICES ASSUME Inv, AlignAndReach PROVE Inv'
  OBVIOUS
<1> USE ManipulationAssumption
<1>1. TypeOK'
  BY DEF Inv, TypeOK, AlignAndReach, Go, Answer, Raise, Faulty, Fine, arms, progress, Hands, TriggerBand, ReachBand, ToleranceBand, Strafed
<1>2. Phases'
  BY DEF Inv, Phases, PickPhases, PlacePhases, AlignAndReach, Go, Answer, Raise, Faulty, Fine, arms, progress
<1>3. Work'
  <2>1. ph \notin {"check", "tidy", "record"} /\ ph' \notin {"grasp", "check", "tidy", "record"}
    BY DEF AlignAndReach, Go, Answer, Raise
  <2> QED
    BY <2>1, NothingMoves DEF AlignAndReach, arms, progress
<1> QED
  BY <1>1, <1>2, <1>3 DEF Inv

LEMMA RestoreHeadingInv == Inv /\ RestoreHeading => Inv'
<1> SUFFICES ASSUME Inv, RestoreHeading PROVE Inv'
  OBVIOUS
<1> USE ManipulationAssumption
<1>1. TypeOK'
  BY DEF Inv, TypeOK, RestoreHeading, Go, Answer, Raise, Faulty, Fine, arms, progress, Hands, TriggerBand, ReachBand, ToleranceBand
<1>2. Phases'
  BY DEF Inv, Phases, PickPhases, PlacePhases, RestoreHeading, Go, Answer, Raise, Faulty, Fine, arms, progress
<1>3. Work'
  <2>1. ph \notin {"check", "tidy", "record"} /\ ph' \notin {"grasp", "check", "tidy", "record"}
    BY DEF RestoreHeading, Go, Answer, Raise
  <2> QED
    BY <2>1, NothingMoves DEF RestoreHeading, arms, progress
<1> QED
  BY <1>1, <1>2, <1>3 DEF Inv

----------------------------------------------------------------------------
(* The steps that move objects or write the record *)

\* What the robot stands at is neither a hand nor the floor.
LEMMA Apart == Inv => hand \in Hands /\ at \notin Hands /\ Floor \notin Hands
BY ManipulationAssumption DEF Inv, TypeOK, Hands, Floor

LEMMA OpenHandInv == Inv /\ OpenHand => Inv'
<1> SUFFICES ASSUME Inv, OpenHand PROVE Inv'
  OBVIOUS
<1> USE ManipulationAssumption
<1>1. TypeOK'
  <2>1. /\ op' \in {"none", "pick", "place"} /\ answer' \in {"none", "yes", "no", "raised"}
        /\ ph' \in PickPhases \cup PlacePhases \cup {"idle"}
        /\ dist' \in Nat /\ prev' \in Nat /\ tries' \in Nat /\ faults' \in Nat
    BY DEF Inv, TypeOK, OpenHand, Go, Answer, Raise, Faulty, Fine, arms, progress, PickPhases, PlacePhases
  <2>2. good' \in BOOLEAN /\ hand' \in Hands /\ at' \in Places
    BY DEF Inv, TypeOK, OpenHand, arms, progress
  <2>3. guarded' \subseteq Hands /\ held' \subseteq Hands /\ misled' \subseteq Hands
    BY DEF Inv, TypeOK, OpenHand, arms, progress
  <2>4. where' \in [Objects -> Places \cup Hands \cup {Floor}]
    BY DEF Inv, TypeOK, OpenHand, arms, progress
  <2> QED
    BY <2>1, <2>2, <2>3, <2>4 DEF TypeOK, PickPhases, PlacePhases
<1>2. Phases'
  BY DEF Inv, Phases, PickPhases, PlacePhases, OpenHand, Go, Answer, Raise, Faulty, Fine, arms, progress
<1>3. Work'
  <2>1. \A h \in Hands : h # hand => Agree(h)'
    <3>1. \A h \in Hands : h # hand => Holding(h)' = Holding(h)
      BY Apart DEF OpenHand, Holding, Inv, TypeOK
    <3> QED
      BY <3>1 DEF OpenHand, Agree, Inv, Work
  <2>2. Agree(hand)'
    <3>1. CASE where' = [o \in Objects |-> IF where[o] = hand THEN Floor ELSE where[o]]
               /\ misled' = misled \cup ({hand} \cap held)
      <4>1. Holding(hand)' = {}
        BY <3>1, Apart DEF Holding, OpenHand
      <4>2. held' = held /\ hand' = hand
        BY DEF OpenHand
      <4> QED
        BY <3>1, <4>1, <4>2, Apart DEF Agree
    <3>2. CASE UNCHANGED <<where, misled>>
      BY <3>2 DEF OpenHand, Agree, Holding, Inv, Work
    <3> QED
      BY <3>1, <3>2 DEF OpenHand
  <2>3. ~good /\ good' = good /\ hand' = hand /\ held' = held /\ ph' \in {"grasp", "tidy"}
    BY DEF OpenHand, Go, progress, Inv, Phases, PickPhases, PlacePhases
  <2>4. hand \in held => hand \in misled' \/ Holding(hand)' # {}
    BY <2>2, <2>3 DEF Agree
  <2> QED
    BY <2>1, <2>2, <2>3, <2>4 DEF Work
<1> QED
  BY <1>1, <1>2, <1>3 DEF Inv

LEMMA GraspInv == Inv /\ Grasp => Inv'
<1> SUFFICES ASSUME Inv, Grasp PROVE Inv'
  OBVIOUS
<1> USE ManipulationAssumption
<1>1. TypeOK'
  <2>1. /\ op' \in {"none", "pick", "place"} /\ answer' \in {"none", "yes", "no", "raised"}
        /\ ph' \in PickPhases \cup PlacePhases \cup {"idle"}
        /\ dist' \in Nat /\ prev' \in Nat /\ tries' \in Nat /\ faults' \in Nat
    BY DEF Inv, TypeOK, Grasp, Go, Answer, Raise, Faulty, Fine, arms, progress, PickPhases, PlacePhases
  <2>2. good' \in BOOLEAN /\ hand' \in Hands /\ at' \in Places
    BY DEF Inv, TypeOK, Grasp, arms, progress
  <2>3. guarded' \subseteq Hands /\ held' \subseteq Hands /\ misled' \subseteq Hands
    BY DEF Inv, TypeOK, Grasp, arms, progress
  <2>4. where' \in [Objects -> Places \cup Hands \cup {Floor}]
    BY DEF Inv, TypeOK, Grasp, arms, progress, InView
  <2> QED
    BY <2>1, <2>2, <2>3, <2>4 DEF TypeOK, PickPhases, PlacePhases
<1>2. Phases'
  BY DEF Inv, Phases, PickPhases, PlacePhases, Grasp, Go, Answer, Raise, Faulty, Fine, arms, progress
<1>3. Work'
  <2>1. \A h \in Hands : h # hand => Agree(h)'
    <3>1. \A h \in Hands : h # hand => Holding(h)' = Holding(h)
      BY Apart DEF Grasp, InView, Holding, Inv, TypeOK
    <3> QED
      BY <3>1 DEF Grasp, Agree, Inv, Work
  <2>2. CASE where' = where
    <3>1. \A h \in Hands : Agree(h)' = Agree(h)
      BY <2>2 DEF Grasp, Agree, Holding
    <3>2. Agree(hand) /\ hand \in Hands /\ ~good
      BY DEF Grasp, Inv, Work, Phases, TypeOK
    <3>3. hand' = hand /\ held' = held /\ misled' = misled /\ ~good' /\ ph' \in {"tidy", "check"}
      BY <3>2 DEF Grasp, Go, progress
    <3>4. \A h \in Hands : Agree(h)'
      BY <3>1, <3>2 DEF Inv, Work
    <3> QED
      BY <3>2, <3>3, <3>4 DEF Work, Agree
  <2>3. CASE ph' = "check"
    <3>1. hand' = hand /\ held' = held /\ misled' = misled
      BY DEF Grasp
    <3>2. CASE Holding(hand) = {}
      BY <2>1, <2>3, <3>1, <3>2 DEF Grasp, Inv, Work
    <3>3. CASE where' = where
      BY <2>2, <3>3
    <3> QED
      BY <2>3, <3>2, <3>3 DEF Grasp, Go
  <2> QED
    BY <2>2, <2>3 DEF Grasp, Go
<1> QED
  BY <1>1, <1>2, <1>3 DEF Inv

LEMMA CheckEffortInv == Inv /\ CheckEffort => Inv'
<1> SUFFICES ASSUME Inv, CheckEffort PROVE Inv'
  OBVIOUS
<1> USE ManipulationAssumption
<1>1. TypeOK'
  <2>1. /\ op' \in {"none", "pick", "place"} /\ answer' \in {"none", "yes", "no", "raised"}
        /\ ph' \in PickPhases \cup PlacePhases \cup {"idle"}
        /\ dist' \in Nat /\ prev' \in Nat /\ tries' \in Nat /\ faults' \in Nat
    <3>1. Go("tidy") /\ (Fine \/ Faulty) /\ UNCHANGED <<dist, prev, tries>>
      BY DEF CheckEffort
    <3> QED
      BY <3>1 DEF Inv, TypeOK, Go, Faulty, Fine, PickPhases
  <2>2. good' \in BOOLEAN /\ hand' \in Hands /\ at' \in Places
    BY DEF Inv, TypeOK, CheckEffort, arms, progress
  <2>3. guarded' \subseteq Hands /\ held' \subseteq Hands /\ misled' \subseteq Hands
    BY DEF Inv, TypeOK, CheckEffort, arms, progress
  <2>4. where' \in [Objects -> Places \cup Hands \cup {Floor}]
    BY DEF Inv, TypeOK, CheckEffort, arms, progress
  <2> QED
    BY <2>1, <2>2, <2>3, <2>4 DEF TypeOK, PickPhases, PlacePhases
<1>2. Phases'
  BY DEF Inv, Phases, PickPhases, PlacePhases, CheckEffort, Go, Answer, Raise, Faulty, Fine, arms, progress
<1>3. Work'
  <2>1. \A h \in Hands : Holding(h)' = Holding(h)
    BY DEF CheckEffort, Holding
  <2>2. \A h \in Hands : h # hand => Agree(h)'
    BY <2>1 DEF CheckEffort, Agree, Inv, Work
  <2>3. hand \in Hands /\ hand' = hand /\ held' = held /\ ph = "check" /\ ph' = "tidy" /\ op' = op /\ op # "place"
    BY DEF CheckEffort, Go, Inv, TypeOK, Phases, PlacePhases
  <2> QED
    BY <2>1, <2>2, <2>3 DEF CheckEffort, Agree, Inv, Work
<1> QED
  BY <1>1, <1>2, <1>3 DEF Inv

LEMMA TidyGraspInv == Inv /\ TidyGrasp => Inv'
<1> SUFFICES ASSUME Inv, TidyGrasp PROVE Inv'
  OBVIOUS
<1> USE ManipulationAssumption
<1>1. TypeOK'
  <2>1. /\ op' \in {"none", "pick", "place"} /\ answer' \in {"none", "yes", "no", "raised"}
        /\ ph' \in PickPhases \cup PlacePhases \cup {"idle"}
        /\ dist' \in Nat /\ prev' \in Nat /\ tries' \in Nat /\ faults' \in Nat
    BY DEF Inv, TypeOK, TidyGrasp, Crept, Go, Answer, Raise, Faulty, Fine, arms, progress, PickPhases, PlacePhases
  <2>2. good' \in BOOLEAN /\ hand' \in Hands /\ at' \in Places
    BY DEF Inv, TypeOK, TidyGrasp, arms, progress
  <2>3. guarded' \subseteq Hands /\ held' \subseteq Hands /\ misled' \subseteq Hands
    BY DEF Inv, TypeOK, TidyGrasp, arms, progress
  <2>4. where' \in [Objects -> Places \cup Hands \cup {Floor}]
    BY DEF Inv, TypeOK, TidyGrasp, arms, progress
  <2> QED
    BY <2>1, <2>2, <2>3, <2>4 DEF TypeOK, PickPhases, PlacePhases
<1>2. Phases'
  BY DEF Inv, Phases, PickPhases, PlacePhases, TidyGrasp, Go, Answer, Raise, Faulty, Fine, arms, progress
<1>3. Work'
  BY DEF TidyGrasp, Go, Raise, Answer, Agree, Holding, Inv, Work, Phases, TypeOK
<1> QED
  BY <1>1, <1>2, <1>3 DEF Inv

LEMMA RecordInv == Inv /\ Record => Inv'
<1> SUFFICES ASSUME Inv, Record PROVE Inv'
  OBVIOUS
<1> USE ManipulationAssumption
<1>1. TypeOK'
  BY DEF Inv, TypeOK, Record, Recorded, PutDown, Go, Answer, Raise, Faulty, Fine, arms, progress, Hands
<1>2. Phases'
  BY DEF Inv, Phases, PickPhases, PlacePhases, Record, Recorded, Go, Answer, Raise, Faulty, Fine, arms, progress
<1>3. Work'
  BY DEF Record, Recorded, Go, Raise, Answer, Agree, Holding, Inv, Work, Phases, TypeOK
<1> QED
  BY <1>1, <1>2, <1>3 DEF Inv

LEMMA LayInv == Inv /\ Lay => Inv'
<1> SUFFICES ASSUME Inv, Lay PROVE Inv'
  OBVIOUS
<1> USE ManipulationAssumption
<1>1. TypeOK'
  <2>1. /\ op' \in {"none", "pick", "place"} /\ answer' \in {"none", "yes", "no", "raised"}
        /\ ph' \in PickPhases \cup PlacePhases \cup {"idle"}
        /\ dist' \in Nat /\ prev' \in Nat /\ tries' \in Nat /\ faults' \in Nat
    BY DEF Inv, TypeOK, Lay, Go, Answer, Raise, Faulty, Fine, arms, progress, PickPhases, PlacePhases
  <2>2. good' \in BOOLEAN /\ hand' \in Hands /\ at' \in Places
    BY DEF Inv, TypeOK, Lay, arms, progress
  <2>3. guarded' \subseteq Hands /\ held' \subseteq Hands /\ misled' \subseteq Hands
    BY DEF Inv, TypeOK, Lay, arms, progress
  <2>4. where' \in [Objects -> Places \cup Hands \cup {Floor}]
    BY DEF Inv, TypeOK, Lay, arms, progress
  <2> QED
    BY <2>1, <2>2, <2>3, <2>4 DEF TypeOK, PickPhases, PlacePhases
<1>2. Phases'
  BY DEF Inv, Phases, PickPhases, PlacePhases, Lay, Go, Answer, Raise, Faulty, Fine, arms, progress
<1>3. Work'
  BY DEF Lay, Go, progress, Agree, Holding, Inv, Work, Phases, TypeOK
<1> QED
  BY <1>1, <1>2, <1>3 DEF Inv

LEMMA ReleaseInv == Inv /\ Release => Inv'
<1> SUFFICES ASSUME Inv, Release PROVE Inv'
  OBVIOUS
<1> USE ManipulationAssumption
<1>1. TypeOK'
  <2>1. /\ op' \in {"none", "pick", "place"} /\ answer' \in {"none", "yes", "no", "raised"}
        /\ ph' \in PickPhases \cup PlacePhases \cup {"idle"}
        /\ dist' \in Nat /\ prev' \in Nat /\ tries' \in Nat /\ faults' \in Nat
    BY DEF Inv, TypeOK, Release, Go, Answer, Raise, Faulty, Fine, arms, progress, PickPhases, PlacePhases
  <2>2. good' \in BOOLEAN /\ hand' \in Hands /\ at' \in Places
    BY DEF Inv, TypeOK, Release, arms, progress
  <2>3. guarded' \subseteq Hands /\ held' \subseteq Hands /\ misled' \subseteq Hands
    BY DEF Inv, TypeOK, Release, arms, progress
  <2>4. where' \in [Objects -> Places \cup Hands \cup {Floor}]
    BY DEF Inv, TypeOK, Release, arms, progress, PutDown
  <2> QED
    BY <2>1, <2>2, <2>3, <2>4 DEF TypeOK, PickPhases, PlacePhases
<1>2. Phases'
  BY DEF Inv, Phases, PickPhases, PlacePhases, Release, Go, Answer, Raise, Faulty, Fine, arms, progress
<1>3. Work'
  <2>1. \A h \in Hands : h # hand => Holding(h)' = Holding(h)
    BY Apart DEF Release, PutDown, Holding, Inv, TypeOK
  <2>2. where' = PutDown => Holding(hand)' = {}
    BY Apart DEF Release, PutDown, Holding, Inv, TypeOK
  <2> QED
    <3>1. hand' = hand /\ held' = held /\ hand \in Hands /\ ph' = "tidy" /\ op' = op /\ op = "place"
      BY DEF Release, Go, Inv, TypeOK, Phases, PickPhases
    <3>2. \A h \in Hands : h # hand => Agree(h)'
      BY <2>1, <3>1 DEF Release, Agree, Inv, Work
    <3>3. ~good' => Agree(hand)'
      <4>1. CASE misled' = misled \cup {hand}
        BY <3>1, <4>1 DEF Agree
      <4>2. CASE UNCHANGED <<where, misled>>
        BY <3>1, <4>2 DEF Release, Agree, Holding, Inv, Work
      <4> QED
        BY <4>1, <4>2 DEF Release
    <3>4. good' => Holding(hand)' = {} \/ hand \in misled'
      BY <2>2, <3>1 DEF Release
    <3> QED
      BY <3>1, <3>2, <3>3, <3>4 DEF Work
<1> QED
  BY <1>1, <1>2, <1>3 DEF Inv

LEMMA TidyPlaceInv == Inv /\ TidyPlace => Inv'
<1> SUFFICES ASSUME Inv, TidyPlace PROVE Inv'
  OBVIOUS
<1> USE ManipulationAssumption
<1>1. TypeOK'
  <2>1. /\ op' \in {"none", "pick", "place"} /\ answer' \in {"none", "yes", "no", "raised"}
        /\ ph' \in PickPhases \cup PlacePhases \cup {"idle"}
        /\ dist' \in Nat /\ prev' \in Nat /\ tries' \in Nat /\ faults' \in Nat
    BY DEF Inv, TypeOK, TidyPlace, Go, Answer, Raise, Faulty, Fine, arms, progress, PickPhases, PlacePhases
  <2>2. good' \in BOOLEAN /\ hand' \in Hands /\ at' \in Places
    BY DEF Inv, TypeOK, TidyPlace, arms, progress
  <2>3. guarded' \subseteq Hands /\ held' \subseteq Hands /\ misled' \subseteq Hands
    BY DEF Inv, TypeOK, TidyPlace, Settled, arms, progress
  <2>4. where' \in [Objects -> Places \cup Hands \cup {Floor}]
    BY DEF Inv, TypeOK, TidyPlace, arms, progress
  <2> QED
    BY <2>1, <2>2, <2>3, <2>4 DEF TypeOK, PickPhases, PlacePhases
<1>2. Phases'
  BY DEF Inv, Phases, PickPhases, PlacePhases, TidyPlace, Go, Answer, Raise, Faulty, Fine, arms, progress
<1>3. Work'
  BY DEF TidyPlace, Settled, Answer, Agree, Holding, Inv, Work, Phases, TypeOK
<1> QED
  BY <1>1, <1>2, <1>3 DEF Inv

----------------------------------------------------------------------------

LEMMA StutterInv == Inv /\ UNCHANGED mvars => Inv'
BY DEF Inv, TypeOK, Phases, Work, Agree, Holding, mvars, progress, arms

\* Every step of a skill, and everything its caller may do between two calls.
LEMMA StepInv == Inv /\ [ArmStep \/ Call]_mvars => Inv'
BY ApproachInv, CallInv, LocateInv, RelocateInv, PlanGraspInv, GraspReachInv, OpenHandInv, GraspInv,
   CheckEffortInv, TidyGraspInv, RecordInv, RestoreHeadingInv, ScanSurfacesInv, ChooseSurfaceInv, RescanInv,
   AlignAndReachInv, LayInv, ReleaseInv, TidyPlaceInv, StutterInv
   DEF ArmStep, PickStep, PlaceStep

LEMMA RecordOfInv == Inv => RecordHasCause
<1> SUFFICES ASSUME Inv, NEW h \in Hands PROVE Agree(h) \/ (op # "none" /\ h = hand)
  BY DEF RecordHasCause
<1>1. CASE h # hand
  BY <1>1 DEF Inv, Work
<1>2. CASE op = "none"
  BY <1>2 DEF Inv, Work, Phases
<1> QED
  BY <1>1, <1>2

\* The variables keep their types, with any number of objects, places, attempts
\* and faults: pick_object and place_object and what they leave on the blackboard.
THEOREM ManipulationTypes == Spec => []TypeOK
<1>1. Init => Inv
  BY InitInv DEF Init
<1>2. Inv => TypeOK
  BY DEF Inv
<1> QED
  BY <1>1, <1>2, StepInv, PTL DEF Spec

\* Whoever calls the skills, in whatever order: the record of an arm is right
\* between calls, or one of the causes that RecordHasCause names has put it wrong.
THEOREM RecordTheorem == Spec => []RecordHasCause
<1>1. Init => Inv
  BY InitInv DEF Init
<1> QED
  BY <1>1, StepInv, RecordOfInv, PTL DEF Spec

----------------------------------------------------------------------------
(* Collision checking.  Until a call fails it is off for the arm at work      *)
(* alone, and only in the phases the finally blocks come after.               *)

OffOnlyAtWork ==
    faults = 0 => \A h \in Hands : h \in guarded \/ (h = hand /\ ph \in {"check", "tidy", "release"})

LEMMA OffStart == ArmsInit => OffOnlyAtWork
BY DEF ArmsInit, OffOnlyAtWork

LEMMA SomeFault == TypeOK /\ Faulty => faults' # 0
BY DEF TypeOK, Faulty

\* The steps that touch neither the gripper's checking nor come near the phases
\* in which it is off.
LEMMA OffUntouched ==
    ASSUME Inv, OffOnlyAtWork, Fine \/ Faulty, UNCHANGED <<hand, guarded>>,
           ph \notin {"check", "tidy", "release"}
    PROVE  OffOnlyAtWork'
<1>1. CASE Faulty
  BY <1>1, SomeFault DEF Inv, OffOnlyAtWork
<1>2. CASE Fine
  BY <1>2 DEF Fine, OffOnlyAtWork
<1> QED
  BY <1>1, <1>2

LEMMA OffPick == Inv /\ OffOnlyAtWork /\ PickStep => OffOnlyAtWork'
<1> SUFFICES ASSUME Inv, OffOnlyAtWork, PickStep PROVE OffOnlyAtWork'
  OBVIOUS
<1>1. CASE Locate \/ Relocate \/ PlanGrasp \/ RestoreHeading
  <2>1. (Fine \/ Faulty) /\ UNCHANGED <<hand, guarded>> /\ ph \notin {"check", "tidy", "release"}
    BY <1>1 DEF Locate, Relocate, PlanGrasp, RestoreHeading, Raise, arms
  <2> QED
    BY <2>1, OffUntouched
<1>2. CASE GraspReach \/ OpenHand \/ Record
  <2>1. (Fine \/ Faulty) /\ UNCHANGED <<hand, guarded>> /\ ph \notin {"check", "tidy", "release"}
    BY <1>2 DEF GraspReach, OpenHand, Record, Raise, Fine, arms
  <2> QED
    BY <2>1, OffUntouched
<1>3. CASE Grasp
  <2>1. CASE Faulty
    BY <2>1, SomeFault DEF Inv, OffOnlyAtWork
  <2>2. CASE Fine /\ guarded' = guarded \ {hand} /\ ph' \in {"tidy", "check"}
    BY <1>3, <2>2 DEF Grasp, Fine, OffOnlyAtWork
  <2> QED
    BY <1>3, <2>1, <2>2 DEF Grasp, Go
<1>4. CASE CheckEffort
  <2>1. CASE Faulty
    BY <2>1, SomeFault DEF Inv, OffOnlyAtWork
  <2>2. CASE Fine
    BY <1>4, <2>2 DEF CheckEffort, Fine, Go, OffOnlyAtWork
  <2> QED
    BY <1>4, <2>1, <2>2 DEF CheckEffort
<1>5. CASE TidyGrasp
  <2>1. CASE Faulty
    BY <2>1, SomeFault DEF Inv, OffOnlyAtWork
  <2>2. CASE Fine /\ guarded' = guarded \cup {hand}
    BY <1>5, <2>2 DEF TidyGrasp, Fine, OffOnlyAtWork
  <2> QED
    BY <1>5, <2>1, <2>2 DEF TidyGrasp, Raise
<1> QED
  BY <1>1, <1>2, <1>3, <1>4, <1>5 DEF PickStep

LEMMA OffPlace == Inv /\ OffOnlyAtWork /\ PlaceStep => OffOnlyAtWork'
<1> SUFFICES ASSUME Inv, OffOnlyAtWork, PlaceStep PROVE OffOnlyAtWork'
  OBVIOUS
<1>1. CASE ScanSurfaces \/ ChooseSurface \/ Rescan \/ AlignAndReach
  <2>1. (Fine \/ Faulty) /\ UNCHANGED <<hand, guarded>> /\ ph \notin {"check", "tidy", "release"}
    BY <1>1 DEF ScanSurfaces, ChooseSurface, Rescan, AlignAndReach, Raise, arms
  <2> QED
    BY <2>1, OffUntouched
<1>2. CASE Lay
  <2>1. CASE Faulty
    BY <2>1, SomeFault DEF Inv, OffOnlyAtWork
  <2>2. CASE Fine /\ guarded' = guarded \ {hand} /\ ph' \in {"tidy", "release"}
    BY <1>2, <2>2 DEF Lay, Fine, OffOnlyAtWork
  <2> QED
    BY <1>2, <2>1, <2>2 DEF Lay, Go
<1>3. CASE Release
  <2>1. CASE Faulty
    BY <2>1, SomeFault DEF Inv, OffOnlyAtWork
  <2>2. CASE Fine
    BY <1>3, <2>2 DEF Release, Fine, Go, OffOnlyAtWork
  <2> QED
    BY <1>3, <2>1, <2>2 DEF Release
<1>4. CASE TidyPlace
  <2>1. CASE Faulty
    BY <2>1, SomeFault DEF Inv, OffOnlyAtWork
  <2>2. CASE Fine /\ guarded' = guarded \cup {hand}
    BY <1>4, <2>2 DEF TidyPlace, Fine, OffOnlyAtWork
  <2> QED
    BY <1>4, <2>1, <2>2 DEF TidyPlace
<1> QED
  BY <1>1, <1>2, <1>3, <1>4 DEF PlaceStep

\* Between two calls nothing is off, so the caller may name another arm.
LEMMA OffCall == Inv /\ OffOnlyAtWork /\ Call => OffOnlyAtWork'
<1> SUFFICES ASSUME Inv, OffOnlyAtWork, Call PROVE OffOnlyAtWork'
  OBVIOUS
<1>1. ph = "idle"
  BY DEF Call, Hear, StartPick, StartPlace, DriveTo, Inv, Phases
<1>2. guarded' = guarded /\ faults' = faults
  BY DEF Call, Hear, StartPick, StartPlace, DriveTo, arms
<1> QED
  BY <1>1, <1>2 DEF OffOnlyAtWork

LEMMA OffStep == Inv /\ OffOnlyAtWork /\ [ArmStep \/ Call]_mvars => OffOnlyAtWork'
<1> SUFFICES ASSUME Inv, OffOnlyAtWork, [ArmStep \/ Call]_mvars PROVE OffOnlyAtWork'
  OBVIOUS
<1>1. CASE Approach
  <2>1. (Fine \/ Faulty) /\ UNCHANGED <<hand, guarded>> /\ ph \notin {"check", "tidy", "release"}
    BY <1>1 DEF Approach, Raise, arms
  <2> QED
    BY <2>1, OffUntouched
<1>2. CASE UNCHANGED mvars
  BY <1>2 DEF mvars, arms, OffOnlyAtWork
<1> QED
  BY <1>1, <1>2, OffPick, OffPlace, OffCall DEF ArmStep

\* Whoever calls the skills: between calls both grippers are back under collision
\* checking (the finally blocks of execute_grasp and execute_place), unless a call
\* has failed.
THEOREM ArmsTheorem == Spec => []ArmsLeftSafe
<1>1. Init => Inv /\ OffOnlyAtWork
  BY InitInv, OffStart DEF Init
<1>2. Inv /\ OffOnlyAtWork /\ [ArmStep \/ Call]_mvars => Inv' /\ OffOnlyAtWork'
  BY StepInv, OffStep
<1>3. Inv /\ OffOnlyAtWork => ArmsLeftSafe
  BY DEF Inv, TypeOK, Phases, OffOnlyAtWork, ArmsLeftSafe
<1> QED
  BY <1>1, <1>2, <1>3, PTL DEF Spec

-----------------------------------------------------------------------------
(***************************************************************************)
(* The tasks are callers of the skills and no more: every step of          *)
(* TableTasks is a step of a skill, a call of one, or leaves the arms      *)
(* alone.  So TableTasks implements Manipulation, and what is proved of    *)
(* the records there holds for the tasks and for the agent.                *)
(***************************************************************************)
LEMMA TasksStart == TaskInit => Init
<1> SUFFICES ASSUME TaskInit PROVE Init
  OBVIOUS
<1>1. ArmsInit /\ at \in Places
  BY TasksAssumption DEF TaskInit
<1>2. where \in [Objects -> Places]
  BY TasksAssumption DEF TaskInit
<1> QED
  BY <1>1, <1>2 DEF Init

LEMMA TasksStep == [Next]_vars => [ArmStep \/ Call]_mvars
<1> SUFFICES ASSUME [Next]_vars PROVE [ArmStep \/ Call]_mvars
  OBVIOUS
<1>1. CASE Arm
  BY <1>1 DEF Arm
<1>2. CASE AtDoor \/ PastDeadline \/ Over \/ UNCHANGED vars
  BY <1>2 DEF AtDoor, PastDeadline, Over, vars
<1>3. CASE Press \/ Perceive \/ CallDoor \/ NoWaypoint \/ Loaded
  BY <1>3 DEF Press, Perceive, CallDoor, NoWaypoint, Loaded
<1>4. CASE GoTo \/ IndicateShelf
  BY <1>4 DEF GoTo, IndicateShelf, Drive, Call
<1>5. CASE CallArm
  BY <1>5 DEF CallArm, Call
<1>6. CASE ArmAnswers
  BY <1>6 DEF ArmAnswers, Call
<1>7. CASE DoorAnswers
  BY <1>7 DEF DoorAnswers, Drive, Call
<1>8. CASE AgentTurn
  BY <1>8 DEF AgentTurn, Call
<1> QED
  BY <1>1, <1>2, <1>3, <1>4, <1>5, <1>6, <1>7, <1>8 DEF Next, Instruction

\* Refinement, with the identity for a mapping: the tasks of TableTasks and the
\* tool-calling agent use pick_object and place_object as Manipulation lets any
\* caller use them.
THEOREM TasksUseSkills == TaskSpec => Spec
BY TasksStart, TasksStep, PTL DEF TaskSpec, Spec

\* Through a whole task the record of an arm (held.py) is right between calls, or
\* one of the causes that RecordHasCause names has put it wrong.
THEOREM TasksRecord == TaskSpec => []RecordHasCause
BY TasksUseSkills, RecordTheorem, PTL

\* Nor does a task, or the agent, leave a gripper outside collision checking when
\* it goes on after a call, unless a call has failed.
THEOREM TasksArms == TaskSpec => []ArmsLeftSafe
BY TasksUseSkills, ArmsTheorem, PTL

-----------------------------------------------------------------------------
(***************************************************************************)
(* What is counted as loaded.  The count runs ahead of the dishwasher only *)
(* by calls that failed: a call that leaves the record of an arm wrong has *)
(* been paid for by then.  Counted says so at every instruction.           *)
(***************************************************************************)

\* The objects in the dishwasher; that the next item may be counted; that what an
\* arm has a record of is there, or its loss is paid for; and that so it is with
\* the arm that "auto" stands for.
InWasher == {o \in Objects : where[o] = "washer"}
Spare == loaded + 1 <= Cardinality(InWasher) + faults
Sure(h) == Holding(h) # {} \/ Spare
Certain == \A h \in Hands : held = {h} => Sure(h)

\* No door is used.
DoorShut == through = "none" /\ dph = "idle" /\ reply = "none"

\* Where the robot is at each instruction of SortSlice.
Where ==
    verdict = "running" =>
      /\ pc \in {4, 9} => at = "table"
      /\ pc \in {6, 7, 11, 12} => at = "washer"

\* Which instruction a call belongs to.
Whose ==
    /\ op # "none" \/ answer # "none" => verdict = "running"
    /\ op = "pick" => pc \in {4, 9}
    /\ op = "place" => pc \in {6, 11}
    /\ answer # "none" => pc \in {4, 6, 9, 11}

\* What is known of the arm in a pick, in a place and between two calls.
Picking ==
    /\ op = "pick" /\ ph = "tidy" /\ good => Sure(hand)
    /\ ph = "record" => Sure(hand)
    /\ op = "pick" /\ ph = "restore" /\ good => Certain
    /\ pc \in {4, 9} /\ answer = "yes" => Certain

Placing ==
    /\ op = "place" /\ ph # "tidy" => held = {hand} /\ Sure(hand)
    /\ op = "place" /\ ph = "tidy" /\ good => Spare
    /\ pc \in {6, 11} /\ answer = "yes" => Spare

Between ==
    verdict = "running" =>
      /\ pc \in {5, 10} => Certain
      /\ pc \in {6, 11} /\ op = "none" /\ answer = "none" => Certain
      /\ pc \in {7, 12} => Spare

Counted ==
    /\ loaded <= Cardinality(InWasher) + faults
    /\ Where /\ Picking /\ Placing /\ Between

\* Other tasks count nothing.
CountInv ==
    /\ job \in Jobs /\ pc \in DOMAIN Code /\ loaded \in Nat
    /\ job # "tidy" => loaded = 0
    /\ job = "tidy" => DoorShut /\ Whose /\ (astray \/ Counted)

----------------------------------------------------------------------------
(* The program of SortSlice, and that no other counts *)

\* The elements of what is joined, and of three sequences joined.
LEMMA TwoJoined == ASSUME NEW S, NEW a \in Seq(S), NEW b \in Seq(S)
  PROVE  /\ a \o b \in Seq(S) /\ Len(a \o b) = Len(a) + Len(b)
         /\ \A i \in 1..Len(a) : (a \o b)[i] = a[i]
         /\ \A i \in (Len(a) + 1)..(Len(a) + Len(b)) : (a \o b)[i] = b[i - Len(a)]
OBVIOUS
Spelt(g, a, b, c) ==
    /\ Len(g) = Len(a) + Len(b) + Len(c)
    /\ \A i \in 1..Len(a) : g[i] = a[i]
    /\ \A i \in (Len(a) + 1)..(Len(a) + Len(b)) : g[i] = b[i - Len(a)]
    /\ \A i \in (Len(a) + Len(b) + 1)..Len(g) : g[i] = c[i - Len(a) - Len(b)]

LEMMA ThreeJoined ==
    ASSUME NEW S, NEW a \in Seq(S), NEW b \in Seq(S), NEW c \in Seq(S)
    PROVE  a \o b \o c \in Seq(S) /\ Spelt(a \o b \o c, a, b, c)
<1>1. /\ a \o b \in Seq(S) /\ Len(a \o b) = Len(a) + Len(b)
      /\ \A i \in 1..Len(a) : (a \o b)[i] = a[i]
      /\ \A i \in (Len(a) + 1)..(Len(a) + Len(b)) : (a \o b)[i] = b[i - Len(a)]
  BY TwoJoined
<1> DEFINE f == a \o b 
<1>2. /\ f \in Seq(S) /\ Len(f) = Len(a) + Len(b)
      /\ \A i \in 1..Len(a) : f[i] = a[i]
      /\ \A i \in (Len(a) + 1)..(Len(a) + Len(b)) : f[i] = b[i - Len(a)]
  BY <1>1
<1> HIDE DEF f
<1>3. /\ f \o c \in Seq(S) /\ Len(f \o c) = Len(f) + Len(c)
      /\ \A i \in 1..Len(f) : (f \o c)[i] = f[i]
      /\ \A i \in (Len(f) + 1)..(Len(f) + Len(c)) : (f \o c)[i] = c[i - Len(f)]
  <2>1. f \in Seq(S)
    BY <1>2
  <2> QED BY <2>1, TwoJoined
<1> DEFINE g == f \o c
<1>4. /\ g \in Seq(S) /\ Len(g) = Len(f) + Len(c)
      /\ \A i \in 1..Len(f) : g[i] = f[i]
      /\ \A i \in (Len(f) + 1)..(Len(f) + Len(c)) : g[i] = c[i - Len(f)]
  BY <1>3
<1> HIDE DEF g
<1>5. \A i \in 1..Len(a) : g[i] = a[i]
  BY <1>2, <1>4
<1>6. \A i \in (Len(a) + 1)..(Len(a) + Len(b)) : g[i] = b[i - Len(a)]
  BY <1>2, <1>4
<1>7. \A i \in (Len(a) + Len(b) + 1)..Len(g) : g[i] = c[i - Len(a) - Len(b)]
  BY <1>2, <1>4
<1>8. g = a \o b \o c BY DEF f, g
<1>9. Len(g) = Len(a) + Len(b) + Len(c)
  BY <1>2, <1>4
<1>10. g \in Seq(S) /\ Spelt(g, a, b, c)
  BY <1>4, <1>5, <1>6, <1>7, <1>9 DEF Spelt
<1> QED BY <1>8, <1>10, Zenon
\* SortSlice, instruction by instruction.
LEMMA TidyCode ==
    /\ DOMAIN Program["tidy"] = 1..12
    /\ Program["tidy"][1] = Do("see", "", 1, 1, "next")
    /\ Program["tidy"][2] = Do("shelf", "hall", 2, 1, "next")
    /\ Program["tidy"][3] = Tidy(2)[1] /\ Program["tidy"][4] = Tidy(2)[2] /\ Program["tidy"][5] = Tidy(2)[3]
    /\ Program["tidy"][6] = Tidy(2)[4] /\ Program["tidy"][7] = Tidy(2)[5]
    /\ Program["tidy"][8] = Tidy(3)[1] /\ Program["tidy"][9] = Tidy(3)[2] /\ Program["tidy"][10] = Tidy(3)[3]
    /\ Program["tidy"][11] = Tidy(3)[4] /\ Program["tidy"][12] = Tidy(3)[5]
<1> DEFINE I == [do : {"see", "shelf", "goto", "pick", "place", "loaded"},
                 arg : {"", "auto", "hall", "table", "washer"},
                 step : Nat, item : Nat, no : {"next", "item"}]
           a == << Do("see", "", 1, 1, "next"), Do("shelf", "hall", 2, 1, "next") >>
           b == Tidy(2)
           c == Tidy(3)
<1>1. a \in Seq(I) /\ b \in Seq(I) /\ c \in Seq(I)
  BY DEF Do, Tidy
<1>2. Len(a) = 2 /\ Len(b) = 5 /\ Len(c) = 5
  BY DEF Do, Tidy
<1>3. a[1] = Do("see", "", 1, 1, "next") /\ a[2] = Do("shelf", "hall", 2, 1, "next")
  OBVIOUS
<1>4. Program["tidy"] = a \o b \o c
  BY DEF Program, SortSlice
<1>5. b = Tidy(2) /\ c = Tidy(3)
  OBVIOUS
<1> HIDE DEF I, a, b, c
<1>6. a \o b \o c \in Seq(I) /\ Spelt(a \o b \o c, a, b, c)
  BY <1>1, ThreeJoined, Zenon
<1>7. PICK g \in Seq(I) : Program["tidy"] = g /\ Spelt(g, a, b, c)
  BY <1>4, <1>6, Zenon
<1>8. /\ Len(g) = Len(a) + Len(b) + Len(c)
      /\ \A i \in 1..Len(a) : g[i] = a[i]
      /\ \A i \in (Len(a) + 1)..(Len(a) + Len(b)) : g[i] = b[i - Len(a)]
      /\ \A i \in (Len(a) + Len(b) + 1)..Len(g) : g[i] = c[i - Len(a) - Len(b)]
  BY <1>7 DEF Spelt
<1>9. /\ Len(g) = 12 /\ g[1] = a[1] /\ g[2] = a[2]
      /\ \A k \in 3..7 : g[k] = b[k - 2]
      /\ \A k \in 8..12 : g[k] = c[k - 7]
  BY <1>2, <1>8
<1>10. DOMAIN g = 1..12
  BY <1>9
<1>11. /\ g[3] = b[1] /\ g[4] = b[2] /\ g[5] = b[3]
       /\ g[6] = b[4] /\ g[7] = b[5]
       /\ g[8] = c[1] /\ g[9] = c[2] /\ g[10] = c[3]
       /\ g[11] = c[4] /\ g[12] = c[5]
  BY <1>9
<1> QED BY <1>3, <1>5, <1>7, <1>9, <1>10, <1>11, Zenon

\* Instructions that do not count, and the programs made of them.
Plain ==
    [do : {"press", "request", "through", "goto", "see", "pick", "place", "agent"},
     arg : {"", "auto", "left"} \cup {"hall", "table", "sink", "washer"}, step : Nat, item : Nat,
     no : {"next", "item", "again"}]

PlainCode == {s \in Seq(Plain) : Len(s) > 0}

LEMMA OthersArePlain ==
    ASSUME NEW j \in DOMAIN Program, j # "tidy"
    PROVE  Program[j] \in PlainCode
<1> USE DEF Do, Plain, PlainCode
<1>1. Enter \in PlainCode /\ EnterArena \in PlainCode /\ WelcomeGuest \in PlainCode
      /\ MoveLaundryBasket \in PlainCode /\ CloseDishwasher \in PlainCode
      /\ PatrolAndSolve \in PlainCode
  BY DEF Enter, EnterArena, WelcomeGuest, MoveLaundryBasket, CloseDishwasher, PatrolAndSolve
<1>2. LaundryTask \in PlainCode
  BY DEF LaundryTask
<1>3. Fetch(1, "sink") \in PlainCode /\ Fetch(2, "washer") \in PlainCode
  BY DEF Fetch
<1>4. /\ << Do("press", "", 1, 1, "next") >> \in PlainCode
      /\ << Do("see", "", 2, 2, "next"), Do("goto", "sink", 3, 3, "again"),
            Do("see", "", 4, 4, "item"), Do("pick", "left", 4, 4, "again") >> \in PlainCode
      /\ << Do("press", "", 2, 2, "next"), Do("goto", "hall", 3, 3, "next") >> \in PlainCode
  OBVIOUS
<1> HIDE DEF Do, Plain, PlainCode
<1>5. \A s, t \in PlainCode : s \o t \in PlainCode
  BY TwoJoined DEF PlainCode
<1>6. PickAndPlaceTask \in PlainCode /\ InspectionTask \in PlainCode
      /\ BreakfastSlice \in PlainCode
  BY <1>1, <1>3, <1>4, <1>5 DEF PickAndPlaceTask, InspectionTask, BreakfastSlice
<1>7. EnterArena \o WelcomeGuest \o MoveLaundryBasket \o CloseDishwasher \o PatrolAndSolve
        \in PlainCode
  BY <1>1, <1>5
<1>8. j \in {"sink", "tidy", "breakfast", "laundry", "inspection", "final"}
  BY DEF Program
<1>9. /\ Program["sink"] = PickAndPlaceTask /\ Program["breakfast"] = BreakfastSlice
      /\ Program["laundry"] = LaundryTask /\ Program["inspection"] = InspectionTask
      /\ Program["final"] = EnterArena \o WelcomeGuest \o MoveLaundryBasket \o CloseDishwasher
                             \o PatrolAndSolve
  BY DEF Program
<1>10. /\ Program["sink"] \in PlainCode /\ Program["breakfast"] \in PlainCode
       /\ Program["laundry"] \in PlainCode /\ Program["inspection"] \in PlainCode
       /\ Program["final"] \in PlainCode
  BY <1>2, <1>6, <1>7, <1>9
<1> QED
  BY <1>8, <1>10

\* Of a set of instructions one comes first.
LEMMA FirstIsLeast ==
    ASSUME NEW I \in SUBSET Nat, I # {}
    PROVE  First(I) \in I /\ \A j \in I : First(I) <= j
<1>1. PICK i \in I : \A j \in I : ~ (<<j, i>> \in OpToRel(<, Nat))
  BY WFMin, NatLessThanWellFounded
<1>2. \A j \in I : ~ (j < i)
  BY <1>1 DEF OpToRel
<1>3. \A j \in I : i <= j
  BY <1>2
<1> QED
  BY <1>3 DEF First

----------------------------------------------------------------------------
(* Where Task.run goes on *)

\* The fields of an instruction.
Says(do, call_, arg, step, item, no) ==
    do.do = call_ /\ do.arg = arg /\ do.step = step /\ do.item = item /\ do.no = no

LEMMA DoSays ==
    ASSUME NEW call_, NEW arg, NEW step, NEW item, NEW no
    PROVE  Says(Do(call_, arg, step, item, no), call_, arg, step, item, no)
BY DEF Do, Says

LEMMA TidyFields ==
    ASSUME job = "tidy"
    PROVE  /\ DOMAIN Code = 1..12
           /\ Code[1].do = "see" /\ Code[1].no = "next" /\ Code[2].do = "shelf"
           /\ \A k \in {3, 8} : Code[k].do = "goto" /\ Code[k].arg = "table" /\ Code[k].no = "next"
           /\ \A k \in {4, 9} : Code[k].do = "pick" /\ Code[k].arg = "auto" /\ Code[k].no = "item"
           /\ \A k \in {5, 10} : Code[k].do = "goto" /\ Code[k].arg = "washer" /\ Code[k].no = "next"
           /\ \A k \in {6, 11} : Code[k].do = "place" /\ Code[k].arg = "auto" /\ Code[k].no = "item"
           /\ \A k \in {7, 12} : Code[k].do = "loaded" /\ Code[k].no = "next"
           /\ Code[1].step = 1 /\ \A k \in 2..12 : Code[k].step = 2
           /\ \A k \in 3..7 : Code[k].item = 2
           /\ \A k \in 8..12 : Code[k].item = 3
<1>1. /\ DOMAIN Code = 1..12
      /\ Code[1] = Do("see", "", 1, 1, "next") /\ Code[2] = Do("shelf", "hall", 2, 1, "next")
      /\ Code[3] = Tidy(2)[1] /\ Code[4] = Tidy(2)[2] /\ Code[5] = Tidy(2)[3]
      /\ Code[6] = Tidy(2)[4] /\ Code[7] = Tidy(2)[5]
      /\ Code[8] = Tidy(3)[1] /\ Code[9] = Tidy(3)[2] /\ Code[10] = Tidy(3)[3]
      /\ Code[11] = Tidy(3)[4] /\ Code[12] = Tidy(3)[5]
  BY TidyCode, Zenon DEF Code
<1>4. \A i \in {2, 3} :
        /\ Tidy(i)[1] = Do("goto", "table", 2, i, "next")
        /\ Tidy(i)[2] = Do("pick", "auto", 2, i, "item")
        /\ Tidy(i)[3] = Do("goto", "washer", 2, i, "next")
        /\ Tidy(i)[4] = Do("place", "auto", 2, i, "item")
        /\ Tidy(i)[5] = Do("loaded", "", 2, i, "next")
  BY DEF Tidy
<1>5. \A i \in {2, 3} :
        /\ Says(Tidy(i)[1], "goto", "table", 2, i, "next")
        /\ Says(Tidy(i)[2], "pick", "auto", 2, i, "item")
        /\ Says(Tidy(i)[3], "goto", "washer", 2, i, "next")
        /\ Says(Tidy(i)[4], "place", "auto", 2, i, "item")
        /\ Says(Tidy(i)[5], "loaded", "", 2, i, "next")
  BY <1>4, DoSays, Zenon
<1>6. /\ Says(Code[1], "see", "", 1, 1, "next") /\ Says(Code[2], "shelf", "hall", 2, 1, "next")
      /\ Says(Code[3], "goto", "table", 2, 2, "next") /\ Says(Code[4], "pick", "auto", 2, 2, "item")
      /\ Says(Code[5], "goto", "washer", 2, 2, "next") /\ Says(Code[6], "place", "auto", 2, 2, "item")
      /\ Says(Code[7], "loaded", "", 2, 2, "next")
  BY <1>1, <1>5, DoSays, Zenon
<1>7. /\ Says(Code[8], "goto", "table", 2, 3, "next") /\ Says(Code[9], "pick", "auto", 2, 3, "item")
      /\ Says(Code[10], "goto", "washer", 2, 3, "next") /\ Says(Code[11], "place", "auto", 2, 3, "item")
      /\ Says(Code[12], "loaded", "", 2, 3, "next")
  BY <1>1, <1>5, Zenon
<1>8. /\ 3..7 = {3, 4, 5, 6, 7} /\ 8..12 = {8, 9, 10, 11, 12}
      /\ 2..12 = {2, 3, 4, 5, 6, 7, 8, 9, 10, 11, 12}
  OBVIOUS
<1>9. Code[1].step = 1 /\ Code[1].do = "see" /\ Code[1].no = "next"
      /\ Code[2].step = 2 /\ Code[2].do = "shelf"
  BY <1>6 DEF Says
<1>10. \A k \in {3, 4, 5, 6, 7} : Code[k].step = 2 /\ Code[k].item = 2
  BY <1>6 DEF Says
<1>11. \A k \in {8, 9, 10, 11, 12} : Code[k].step = 2 /\ Code[k].item = 3
  BY <1>7 DEF Says
<1>12. \A k \in {3, 8} : Code[k].do = "goto" /\ Code[k].arg = "table" /\ Code[k].no = "next"
  <2>1. /\ Says(Code[3], "goto", "table", 2, 2, "next")
        /\ Says(Code[8], "goto", "table", 2, 3, "next")
    BY <1>6, <1>7
  <2> QED BY <2>1 DEF Says
<1>13. \A k \in {4, 9} : Code[k].do = "pick" /\ Code[k].arg = "auto" /\ Code[k].no = "item"
  <2>1. /\ Says(Code[4], "pick", "auto", 2, 2, "item")
        /\ Says(Code[9], "pick", "auto", 2, 3, "item")
    BY <1>6, <1>7
  <2> QED BY <2>1 DEF Says
<1>14. \A k \in {5, 10} : Code[k].do = "goto" /\ Code[k].arg = "washer" /\ Code[k].no = "next"
  <2>1. /\ Says(Code[5], "goto", "washer", 2, 2, "next")
        /\ Says(Code[10], "goto", "washer", 2, 3, "next")
    BY <1>6, <1>7
  <2> QED BY <2>1 DEF Says
<1>15. \A k \in {6, 11} : Code[k].do = "place" /\ Code[k].arg = "auto" /\ Code[k].no = "item"
  <2>1. /\ Says(Code[6], "place", "auto", 2, 2, "item")
        /\ Says(Code[11], "place", "auto", 2, 3, "item")
    BY <1>6, <1>7
  <2> QED BY <2>1 DEF Says
<1>16. \A k \in {7, 12} : Code[k].do = "loaded" /\ Code[k].no = "next"
  <2>1. /\ Says(Code[7], "loaded", "", 2, 2, "next")
        /\ Says(Code[12], "loaded", "", 2, 3, "next")
    BY <1>6, <1>7
  <2> QED BY <2>1 DEF Says
<1>17. \A k \in {2, 3, 4, 5, 6, 7, 8, 9, 10, 11, 12} : Code[k].step = 2
  BY <1>9, <1>10, <1>11
<1> QED
  BY <1>1, <1>8, <1>9, <1>10, <1>11, <1>12, <1>13, <1>14, <1>15, <1>16, <1>17

\* Every program is a sequence, and only the sorting counts.
LEMMA CodeDomain ==
    ASSUME job \in DOMAIN Program
    PROVE  /\ DOMAIN Code \subseteq Nat /\ 1 \in DOMAIN Code
           /\ job # "tidy" => \A k \in DOMAIN Code : Code[k].do # "loaded"
<1>1. CASE job = "tidy"
  BY <1>1, TidyFields
<1>2. CASE job # "tidy"
  <2>1. Code \in Seq(Plain) /\ Len(Code) > 0
    BY <1>2, OthersArePlain DEF Code, PlainCode
  <2>2. \A k \in DOMAIN Code : k \in Nat /\ Code[k] \in Plain
    BY <2>1
  <2>3. 1 \in DOMAIN Code
    BY <2>1
  <2> QED
    BY <2>2, <2>3 DEF Plain
<1> QED
  BY <1>1, <1>2

\* What each answer leads to.
LEMMA FollowWays ==
    ASSUME NEW r, Follow(r)
    PROVE  /\ Continue(Later) \/ Continue(NextItem) \/ Retry
           /\ r = "yes" \/ (r = "no" /\ Now.no = "next") => Continue(Later)
           /\ r = "no" /\ Now.no = "item" => Continue(NextItem)
           /\ r # "yes" /\ r # "no" /\ Now.do # "request" => Retry
BY DEF Follow

\* Going on never leaves the program.
LEMMA ContinueInCode ==
    ASSUME job \in DOMAIN Program, pc \in DOMAIN Code, NEW I, I \subseteq DOMAIN Code, Continue(I)
    PROVE  pc' \in DOMAIN Code
<1>1. I \in SUBSET Nat
  BY CodeDomain
<1>2. CASE I = {}
  BY <1>2 DEF Continue
<1>3. CASE I # {}
  BY <1>1, <1>3, FirstIsLeast DEF Continue
<1> QED
  BY <1>2, <1>3

LEMMA FollowInCode ==
    ASSUME job \in DOMAIN Program, pc \in DOMAIN Code, NEW r, Follow(r)
    PROVE  pc' \in DOMAIN Code
<1>1. CASE Continue(Later) \/ Continue(NextItem) \/ Continue(NextStep)
  BY <1>1, ContinueInCode DEF Later, NextItem, NextStep
<1>2. CASE Retry
  <2>1. CASE attempt < Retries
    <3> DEFINE I == {i \in DOMAIN Code : Code[i].step = Now.step}
    <3>1. pc \in I /\ I \in SUBSET Nat
      BY CodeDomain DEF Now
    <3>2. First(I) \in I
      BY <3>1, FirstIsLeast
    <3> QED
      BY <1>2, <2>1, <3>2 DEF Retry
  <2>2. CASE Continue(NextStep) \/ pc' = pc
    BY <1>1, <2>2
  <2> QED
    BY <1>2, <2>1, <2>2 DEF Retry
<1> QED
  BY <1>1, <1>2, FollowWays

\* SortSlice goes on at the next instruction, at the next item, or from its top.
LEMMA TidyFollow ==
    ASSUME job = "tidy", pc \in 1..12, NEW r, Follow(r)
    PROVE  /\ r = "yes" \/ (r = "no" /\ Now.no = "next") =>
                \/ pc < 12 /\ pc' = pc + 1 /\ verdict' = verdict
                \/ pc = 12 /\ pc' = pc /\ verdict' = "complete"
           /\ (r # "yes" /\ pc \in {4, 6, 9, 11}) =>
                \/ pc' \in {2, 8} /\ verdict' = verdict
                \/ pc' = pc /\ verdict' = "complete"
<1> USE TidyFields
<1>1. ASSUME Continue(Later)
      PROVE  \/ pc < 12 /\ pc' = pc + 1 /\ verdict' = verdict
             \/ pc = 12 /\ pc' = pc /\ verdict' = "complete"
  <2>1. Later = (pc + 1)..12
    BY DEF Later
  <2>2. CASE pc = 12
    BY <1>1, <2>1, <2>2 DEF Continue
  <2>3. CASE pc < 12
    <3>1. pc + 1 \in (pc + 1)..12 /\ (pc + 1)..12 \subseteq Nat
      BY <2>3
    <3> HIDE TidyFields
    <3>1a. Later \in SUBSET Nat /\ Later # {} /\ pc + 1 \in Later
      BY <2>1, <3>1
    <3>2. First(Later) \in Later /\ First(Later) <= pc + 1
      BY <3>1a, FirstIsLeast
    <3>3. First(Later) = pc + 1
      BY <2>1, <3>2
    <3> QED
      BY <1>1, <2>3, <3>1a, <3>3 DEF Continue
  <2> QED
    BY <2>2, <2>3
<1>2. ASSUME Continue(NextItem), pc \in 3..12
      PROVE  \/ pc' = 8 /\ verdict' = verdict
             \/ pc' = pc /\ verdict' = "complete"
  <2>1. CASE pc \in 3..7
    <3>1. NextItem = 8..12
      BY <2>1 DEF NextItem, Later, Now
    <3>2. First(NextItem) \in NextItem /\ First(NextItem) <= 8
      BY <3>1, FirstIsLeast
    <3>3. First(NextItem) = 8 /\ NextItem # {}
      BY <3>1, <3>2
    <3> QED
      BY <1>2, <3>3 DEF Continue
  <2>2. CASE pc \in 8..12
    <3>1. NextItem = {}
      BY <2>2 DEF NextItem, Later, Now
    <3> QED
      BY <1>2, <3>1 DEF Continue
  <2> QED
    BY <1>2, <2>1, <2>2
<1>3. ASSUME Retry, pc \in 2..12
      PROVE  \/ pc' = 2 /\ verdict' = verdict
             \/ pc' = pc /\ verdict' = "complete"
  <2>1. \A i \in 2..12 : Code[i].step = 2
    OBVIOUS
  <2>2. {i \in DOMAIN Code : Code[i].step = Now.step} = 2..12
    BY <1>3, <2>1 DEF Now
  <2>3. First(2..12) \in 2..12 /\ First(2..12) <= 2
    BY FirstIsLeast
  <2>4. First(2..12) = 2
    BY <2>3
  <2>5. NextStep = {}
    BY <1>3, <2>1 DEF NextStep, Later, Now
  <2>6. ~Critical
    BY DEF Critical
  <2> QED
    BY <1>3, <2>2, <2>4, <2>5, <2>6 DEF Retry, Continue
<1>4. r = "yes" \/ (r = "no" /\ Now.no = "next") => Continue(Later)
  BY FollowWays
<1>5. ASSUME r # "yes", pc \in {4, 6, 9, 11} PROVE Continue(NextItem) \/ Retry
  <2>1. Now.no = "item" /\ Now.do # "request"
    BY <1>5 DEF Now
  <2> QED
    BY <1>5, <2>1, FollowWays
<1> QED
  BY <1>1, <1>2, <1>3, <1>4, <1>5

----------------------------------------------------------------------------
(* The count and the objects *)

LEMMA MoreInWasher ==
    ASSUME NEW A, NEW B, IsFiniteSet(B), A \subseteq B
    PROVE  /\ Cardinality(A) \in Nat /\ Cardinality(B) \in Nat
           /\ Cardinality(A) <= Cardinality(B)
           /\ A # B => Cardinality(A) + 1 <= Cardinality(B)
BY FS_Subset, FS_CardinalityType

\* What is in the dishwasher stays there when no arm takes it: then a count that was
\* covered stays covered, and no call unpays a fault.
LEMMA CoverKept ==
    ASSUME IsFiniteSet(Objects), Inv, loaded \in Nat, loaded' = loaded,
           faults' \in Nat, faults <= faults', InWasher \subseteq InWasher'
    PROVE  /\ loaded <= Cardinality(InWasher) + faults =>
                loaded' <= Cardinality(InWasher') + faults'
           /\ Spare => Spare'
           /\ (loaded <= Cardinality(InWasher) + faults /\ faults' = faults + 1) => Spare'
           /\ (loaded <= Cardinality(InWasher) + faults /\ InWasher' # InWasher) => Spare'
<1>1. IsFiniteSet(InWasher')
  BY FS_Subset DEF InWasher
<1>2. /\ Cardinality(InWasher) \in Nat /\ Cardinality(InWasher') \in Nat
      /\ Cardinality(InWasher) <= Cardinality(InWasher')
      /\ InWasher # InWasher' => Cardinality(InWasher) + 1 <= Cardinality(InWasher')
  BY <1>1, MoreInWasher
<1>3. faults \in Nat
  BY DEF Inv, TypeOK
<1> QED
  BY <1>2, <1>3 DEF Spare

\* A step that moves no object keeps what is known of the arms.
LEMMA SureKept ==
    ASSUME IsFiniteSet(Objects), Inv, loaded \in Nat, loaded' = loaded,
           faults' \in Nat, faults <= faults', where' = where
    PROVE  /\ InWasher' = InWasher
           /\ Spare => Spare'
           /\ hand' = hand => (Sure(hand) => Sure(hand)')
           /\ held' = held => (Certain => Certain')
<1>1. InWasher' = InWasher
  BY DEF InWasher
<1>2. Spare => Spare'
  BY <1>1, CoverKept
<1>3. \A h \in Hands : Sure(h) => Sure(h)'
  BY <1>2 DEF Sure, Holding
<1>4. hand' = hand => (Sure(hand) => Sure(hand)')
  BY <1>2 DEF Sure, Holding
<1>5. held' = held => (Certain => Certain')
  BY <1>3 DEF Certain
<1> QED
  BY <1>1, <1>2, <1>4, <1>5

\* A step of a skill, when the program waits for it.
Working ==
    /\ IsFiniteSet(Objects) /\ Inv /\ CountInv /\ job = "tidy" /\ ~astray
    /\ op # "none" /\ UNCHANGED <<doorVars, taskVars>>

\* Then it is at a pick or a place, at the table or at the dishwasher.
LEMMA AtWork ==
    ASSUME Working
    PROVE  /\ answer = "none" /\ verdict = "running" /\ loaded \in Nat /\ loaded' = loaded
           /\ op \in {"pick", "place"} /\ hand \in Hands
           /\ loaded <= Cardinality(InWasher) + faults
           /\ op = "pick" => pc \in {4, 9} /\ at = "table"
           /\ op = "place" => pc \in {6, 11} /\ at = "washer"
           /\ "table" \notin Hands /\ "washer" \notin Hands /\ "washer" # Floor
<1>1. answer = "none" /\ verdict = "running" /\ loaded \in Nat /\ loaded' = loaded
  BY DEF Working, Inv, Phases, CountInv, Whose, Counted, taskVars
<1>2. op \in {"pick", "place"} /\ hand \in Hands
  BY DEF Working, Inv, TypeOK
<1>3. "table" \notin Hands /\ "washer" \notin Hands /\ "washer" # Floor
  BY DEF Hands, Floor
<1> QED
  BY <1>1, <1>2, <1>3 DEF Working, CountInv, Whose, Counted, Where

\* What a step of a pick must show, and one of a place: the rest of CountInv is
\* about other instructions.
PickKept ==
    /\ faults' \in Nat /\ faults <= faults' /\ InWasher \subseteq InWasher'
    /\ op' \in {"none", "pick"} /\ (op' # "none" \/ answer' # "none") /\ at' = at
    /\ ph' = "tidy" /\ good' => Sure(hand)'
    /\ ph' = "record" => Sure(hand)'
    /\ ph' = "restore" /\ good' => Certain'
    /\ answer' = "yes" => Certain'

PlaceKept ==
    /\ faults' \in Nat /\ faults <= faults' /\ InWasher \subseteq InWasher'
    /\ op' \in {"none", "place"} /\ (op' # "none" \/ answer' # "none") /\ at' = at
    /\ op' = "place" /\ ph' # "tidy" => held' = {hand'} /\ Sure(hand)'
    /\ op' = "place" /\ ph' = "tidy" /\ good' => Spare'
    /\ ph' # "record" /\ (answer' = "yes" => Spare')

LEMMA KeptIsCounted ==
    ASSUME Working, (op = "pick" /\ PickKept) \/ (op = "place" /\ PlaceKept)
    PROVE  CountInv'
<1> USE AtWork
<1>1. Code' = Code /\ pc' = pc /\ verdict' = verdict /\ job' = job /\ astray' = astray
  BY DEF Working, taskVars, Code
<1>2. job' \in Jobs /\ pc' \in DOMAIN Code' /\ loaded' \in Nat
  BY <1>1 DEF Working, CountInv
<1>3. DoorShut'
  BY DEF Working, CountInv, DoorShut, doorVars, call
<1>4. Whose'
  BY <1>1 DEF Whose, PickKept, PlaceKept
<1>5. loaded' <= Cardinality(InWasher') + faults'
  BY CoverKept DEF Working, PickKept, PlaceKept
<1>6. Where'
  BY <1>1 DEF Working, CountInv, Counted, Where, PickKept, PlaceKept
<1>7. Picking'
  BY <1>1 DEF Picking, PickKept, PlaceKept
<1>8. Placing'
  BY <1>1 DEF Placing, PickKept, PlaceKept
<1>9. Between'
  BY <1>1 DEF Between, PickKept, PlaceKept
<1> QED
  BY <1>1, <1>2, <1>3, <1>4, <1>5, <1>6, <1>7, <1>8, <1>9 DEF CountInv, Counted, Working

----------------------------------------------------------------------------
(* The steps of a pick *)

\* Steps before the fingers have closed, and after: nothing moves.
LEMMA QuietPick ==
    ASSUME Working, op = "pick", Locate \/ Relocate \/ PlanGrasp \/ GraspReach \/ RestoreHeading
                                 \/ Approach
    PROVE  PickKept
<1> USE AtWork
<1>1. where' = where /\ held' = held /\ hand' = hand /\ at' = at
  BY DEF Locate, Relocate, PlanGrasp, GraspReach, RestoreHeading, Approach, arms
<1>2. faults' \in Nat /\ faults <= faults'
  BY DEF Working, Inv, TypeOK, Locate, Relocate, PlanGrasp, GraspReach, RestoreHeading, Approach,
         Fine, Raise, Faulty
<1>3. InWasher' = InWasher /\ (Certain => Certain')
  BY <1>1, <1>2, SureKept DEF Working
<1>4. op' \in {"none", "pick"} /\ (op' # "none" \/ answer' # "none")
  BY DEF Locate, Relocate, PlanGrasp, GraspReach, RestoreHeading, Approach, Go, Answer, Raise,
         ApproachDone, ApproachMoved
<1>5. ph' # "tidy" /\ ph' # "record"
  BY DEF Locate, Relocate, PlanGrasp, GraspReach, RestoreHeading, Approach, Go, Answer, Raise,
         ApproachDone, ApproachMoved
<1>6. ~(ph' = "restore" /\ good')
  <2>1. ph \notin {"tidy", "record", "restore"} => ~good
    BY DEF Working, Inv, Phases
  <2> QED
    BY <2>1 DEF Locate, Relocate, PlanGrasp, GraspReach, RestoreHeading, Approach, Go, Answer, Raise,
         ApproachDone, ApproachMoved, progress
<1>7. answer' = "yes" => Certain
  <2>1. CASE RestoreHeading
    BY <2>1 DEF RestoreHeading, Answer, Raise, Working, CountInv, Counted, Picking
  <2>2. CASE Locate \/ Relocate \/ PlanGrasp \/ GraspReach \/ Approach
    BY <2>2 DEF Locate, Relocate, PlanGrasp, GraspReach, Approach, Go, Answer, Raise
  <2> QED
    BY <2>1, <2>2
<1> QED
  BY <1>1, <1>2, <1>3, <1>4, <1>5, <1>6, <1>7 DEF PickKept

\* Opening a hand drops what it holds; closing it takes something off the table.
LEMMA HandPick ==
    ASSUME Working, op = "pick", OpenHand \/ Grasp
    PROVE  PickKept
<1> USE AtWork
<1>1. faults' \in Nat /\ faults <= faults' /\ hand' = hand /\ at' = at
  BY DEF Working, Inv, TypeOK, OpenHand, Grasp, Fine, Faulty, progress
<1>2. op' = "pick" /\ answer' = "none" /\ ph' \in {"grasp", "tidy", "check"}
  BY DEF OpenHand, Grasp, Go
<1>3. ~good'
  BY DEF OpenHand, Grasp, Working, Inv, Phases, progress
<1>4. ASSUME NEW o \in InWasher PROVE o \in InWasher'
  <2>1. o \in Objects /\ where[o] = "washer"
    BY DEF InWasher
  <2>2. where \in [Objects -> Places \cup Hands \cup {Floor}]
    BY DEF Working, Inv, TypeOK
  <2>3. CASE OpenHand
    BY <2>1, <2>2, <2>3 DEF OpenHand, InWasher
  <2>4. CASE Grasp
    BY <2>1, <2>2, <2>4 DEF Grasp, InWasher, InView
  <2> QED
    BY <2>3, <2>4
<1> QED
  BY <1>1, <1>2, <1>3, <1>4 DEF PickKept

\* A reading of the effort that misleads is a fault, and pays for what it lets by.
LEMMA CheckedPick ==
    ASSUME Working, op = "pick", CheckEffort
    PROVE  PickKept
<1> USE AtWork
<1>1. hand' = hand /\ at' = at /\ where' = where /\ Go("tidy")
  BY DEF CheckEffort
<1>2. \/ faults' = faults /\ (good' => Holding(hand) # {})
      \/ faults' = faults + 1
  BY Zenon DEF CheckEffort, Fine, Faulty
<1>3. faults' \in Nat /\ faults <= faults'
  BY <1>2 DEF Working, Inv, TypeOK
<1>4. op' = "pick" /\ answer' = "none" /\ ph' = "tidy"
  BY <1>1 DEF Go
<1>5. InWasher' = InWasher
  BY <1>1 DEF InWasher
<1>6. good' => Sure(hand)'
  <2>1. CASE good' => Holding(hand) # {}
    <3>1. Holding(hand)' = Holding(hand)
      BY <1>1 DEF Holding
    <3> QED
      BY <2>1, <3>1 DEF Sure
  <2>2. CASE faults' = faults + 1
    <3>1. Spare'
      BY <1>3, <1>5, <2>2, CoverKept DEF Working
    <3> QED
      BY <3>1 DEF Sure
  <2> QED
    BY <1>2, <2>1, <2>2
<1> QED
  BY <1>1, <1>3, <1>4, <1>5, <1>6 DEF PickKept

\* Only a clean grasp goes on to be recorded.
LEMMA TidiedPick ==
    ASSUME Working, op = "pick", TidyGrasp
    PROVE  PickKept
<1> USE AtWork
<1>1. /\ faults' \in Nat /\ faults <= faults' /\ hand' = hand /\ at' = at /\ where' = where
      /\ good' = good /\ ph = "tidy"
  BY DEF Working, Inv, TypeOK, TidyGrasp, Fine, Faulty, Raise
<1>2. /\ op' \in {"none", "pick"} /\ (op' # "none" \/ answer' # "none")
      /\ ph' # "tidy" /\ (ph' = "record" => good) /\ (ph' = "restore" => ~good) /\ answer' # "yes"
  BY DEF TidyGrasp, Go, Raise, Answer
<1>3. InWasher' = InWasher /\ (Sure(hand) => Sure(hand)')
  BY <1>1, SureKept DEF Working
<1>4. good => Sure(hand)
  BY <1>1 DEF Working, CountInv, Counted, Picking
<1> QED
  BY <1>1, <1>2, <1>3, <1>4 DEF PickKept

\* With the new record the arm that "auto" will stand for is the one that picked.
LEMMA RecordedPick ==
    ASSUME Working, op = "pick", Record
    PROVE  PickKept
<1> USE AtWork
<1>1. faults' \in Nat /\ faults <= faults' /\ hand' = hand /\ at' = at /\ where' = where
  BY DEF Working, Inv, TypeOK, Record, Fine, Faulty, Raise, progress
<1>2. /\ op' \in {"none", "pick"} /\ (op' # "none" \/ answer' # "none")
      /\ ph' \in {"restore", "idle"} /\ answer' # "yes"
  BY DEF Record, Go, Raise, Answer
<1>3. InWasher' = InWasher /\ (Sure(hand) => Sure(hand)')
  BY <1>1, SureKept DEF Working
<1>4. Sure(hand)'
  BY <1>3 DEF Record, Working, CountInv, Counted, Picking
<1>5. \A h \in Hands : held' = {h} => h = hand
  BY DEF Record, Recorded
<1>6. Certain'
  BY <1>1, <1>4, <1>5 DEF Certain, Sure
<1> QED
  BY <1>1, <1>2, <1>3, <1>6 DEF PickKept

----------------------------------------------------------------------------
(* The steps of a place *)

\* Up to the release nothing moves.
LEMMA QuietPlace ==
    ASSUME Working, op = "place", Approach \/ ScanSurfaces \/ ChooseSurface \/ Rescan
                                  \/ AlignAndReach \/ Lay
    PROVE  PlaceKept
<1> USE AtWork
<1>1. where' = where /\ held' = held /\ hand' = hand /\ at' = at
  BY DEF Approach, ScanSurfaces, ChooseSurface, Rescan, AlignAndReach, Lay, arms, progress
<1>2. faults' \in Nat /\ faults <= faults'
  BY DEF Working, Inv, TypeOK, Approach, ScanSurfaces, ChooseSurface, Rescan, AlignAndReach, Lay,
         Fine, Raise, Faulty
<1>3. InWasher' = InWasher /\ (Sure(hand) => Sure(hand)')
  BY <1>1, <1>2, SureKept DEF Working
<1>4. /\ op' \in {"none", "place"} /\ (op' # "none" \/ answer' # "none")
      /\ ph' # "record" /\ answer' # "yes"
  BY DEF Approach, ScanSurfaces, ChooseSurface, Rescan, AlignAndReach, Lay, Go, Answer, Raise,
         ApproachDone, ApproachMoved
<1>5. ph \notin {"tidy", "record", "restore"}
  BY DEF Approach, ScanSurfaces, ChooseSurface, Rescan, AlignAndReach, Lay
<1>6. held = {hand} /\ Sure(hand)
  BY <1>5 DEF Working, CountInv, Counted, Placing
<1>7. ~good'
  BY <1>5 DEF Working, Inv, Phases, Approach, ScanSurfaces, ChooseSurface, Rescan, AlignAndReach,
              Lay, progress
<1> QED
  BY <1>1, <1>2, <1>3, <1>4, <1>6, <1>7 DEF PlaceKept

\* What the hand held is in the dishwasher now; if it held nothing that is paid for.
LEMMA ReleasedPlace ==
    ASSUME Working, op = "place", Release
    PROVE  PlaceKept
<1> USE AtWork
<1>1. /\ faults' \in Nat /\ faults <= faults' /\ at' = at
      /\ op' = "place" /\ answer' = "none" /\ ph' = "tidy"
  BY DEF Working, Inv, TypeOK, Release, Fine, Faulty, Go
<1>2. where \in [Objects -> Places \cup Hands \cup {Floor}]
  BY DEF Working, Inv, TypeOK
<1>3. where' = where \/ where' = PutDown
  BY DEF Release
<1>4. InWasher \subseteq InWasher'
  BY <1>2, <1>3 DEF InWasher, PutDown
<1>5. good' => Spare'
  <2>1. good' => where' = PutDown \/ faults' = faults + 1
    BY DEF Release, Faulty
  <2>2. CASE Spare
    BY <1>1, <1>4, <2>2, CoverKept DEF Working
  <2>3. ASSUME ~Spare, where' = PutDown PROVE Spare'
    <3>1. Sure(hand)
      BY DEF Working, CountInv, Counted, Placing, Release
    <3>2. PICK o \in Objects : where[o] = hand
      BY <2>3, <3>1 DEF Sure, Holding
    <3>3. where'[o] = "washer"
      BY <2>3, <3>2 DEF PutDown
    <3>4. o \in InWasher' /\ o \notin InWasher
      BY <3>2, <3>3 DEF InWasher
    <3> QED
      BY <1>1, <1>4, <3>4, CoverKept DEF Working
  <2>4. ASSUME faults' = faults + 1 PROVE Spare'
    BY <1>1, <1>4, <2>4, CoverKept DEF Working
  <2> QED
    BY <2>1, <2>2, <2>3, <2>4
<1> QED
  BY <1>1, <1>4, <1>5 DEF PlaceKept

\* Only a clean release is answered with "yes".
LEMMA TidiedPlace ==
    ASSUME Working, op = "place", TidyPlace
    PROVE  PlaceKept
<1> USE AtWork
<1>1. faults' \in Nat /\ faults <= faults' /\ at' = at /\ where' = where /\ ph = "tidy"
  BY DEF Working, Inv, TypeOK, TidyPlace, Fine, Faulty, progress
<1>2. op' = "none" /\ ph' = "idle" /\ answer' \in {"yes", "no"} /\ (answer' = "yes" => good)
  BY DEF TidyPlace, Answer
<1>3. InWasher' = InWasher /\ (Spare => Spare')
  BY <1>1, SureKept DEF Working
<1>4. good => Spare
  BY <1>1 DEF Working, CountInv, Counted, Placing
<1> QED
  BY <1>1, <1>2, <1>3, <1>4 DEF PlaceKept

\* A step of a skill keeps the count covered.
LEMMA ArmCount ==
    ASSUME IsFiniteSet(Objects), Inv, CountInv, Arm
    PROVE  CountInv'
<1>1. op # "none" /\ ArmStep /\ UNCHANGED <<doorVars, taskVars>>
  <2>1. ArmStep => ph # "idle"
    BY DEF ArmStep, Approach, PickStep, PlaceStep, Locate, Relocate, PlanGrasp, GraspReach, OpenHand,
           Grasp, CheckEffort, TidyGrasp, Record, RestoreHeading, ScanSurfaces, ChooseSurface,
           Rescan, AlignAndReach, Lay, Release, TidyPlace
  <2> QED
    BY <2>1 DEF Arm, Inv, Phases
<1>2. CASE job # "tidy" 
  BY <1>1, <1>2 DEF CountInv, taskVars, Code
<1>3. CASE job = "tidy" /\ astray
  <2>1. Whose'
    <3>1. verdict = "running"
      BY <1>1, <1>3 DEF CountInv, Whose
    <3>2. op' \in {op, "none"}
      BY <1>1 DEF ArmStep, Approach, PickStep, PlaceStep, Locate, Relocate, PlanGrasp, GraspReach, OpenHand,
           Grasp, CheckEffort, TidyGrasp, Record, RestoreHeading, ScanSurfaces, ChooseSurface,
           Rescan, AlignAndReach, Lay, Release, TidyPlace, Go, Raise, Answer
    <3>3. op \in {"pick", "place"}
      BY <1>1 DEF Inv, TypeOK
    <3> QED
      BY <1>1, <1>3, <3>1, <3>2, <3>3 DEF CountInv, Whose, taskVars
  <2> QED
    BY <1>1, <1>3, <2>1 DEF CountInv, taskVars, Code, DoorShut, doorVars, call
<1>4. CASE job = "tidy" /\ ~astray
  <2>1. Working
    BY <1>1, <1>4 DEF Working
  <2>2. CASE op = "pick"
    <3>1. ph \in PickPhases
      BY <2>2 DEF Inv, Phases
    <3>2. Approach \/ PickStep
      BY <1>1, <2>2, <3>1 DEF ArmStep, PlaceStep, PickPhases, ScanSurfaces, ChooseSurface, Rescan,
                              AlignAndReach, Lay, Release, TidyPlace
    <3> QED
      BY <2>1, <2>2, <3>2, QuietPick, HandPick, CheckedPick, TidiedPick, RecordedPick, KeptIsCounted
         DEF PickStep
  <2>3. CASE op = "place"
    <3>1. ph \in PlacePhases
      BY <2>3 DEF Inv, Phases
    <3>2. Approach \/ PlaceStep
      BY <1>1, <2>3, <3>1 DEF ArmStep, PickStep, PlacePhases, Locate, Relocate, PlanGrasp, GraspReach,
                              OpenHand, Grasp, CheckEffort, TidyGrasp, Record, RestoreHeading
    <3> QED
      BY <2>1, <2>3, <3>2, QuietPlace, ReleasedPlace, TidiedPlace, KeptIsCounted DEF PlaceStep
  <2> QED
    BY <1>1, <2>2, <2>3 DEF Inv, TypeOK
<1> QED
  BY <1>2, <1>3, <1>4

----------------------------------------------------------------------------
(* The instructions *)

\* Whatever the instruction, the program stays a program, and only the sorting
\* counts.
LEMMA InCode ==
    ASSUME CountInv, [Next]_vars
    PROVE  /\ job' = job /\ job' \in Jobs /\ pc' \in DOMAIN Code' /\ loaded' \in Nat
           /\ job # "tidy" => loaded' = 0
<1> USE DEF CountInv
<1>1. job \in DOMAIN Program /\ pc \in DOMAIN Code
  BY JobsAssumption
<1>2. job' = job
  BY DEF Next, Arm, AtDoor, Instruction, Press, GoTo, IndicateShelf, Perceive, CallArm, CallDoor,
         NoWaypoint, ArmAnswers, DoorAnswers, Loaded, AgentTurn, PastDeadline, Over, Still, taskVars,
         vars
<1>3. pc' \in DOMAIN Code
  <2>1. CASE Arm \/ AtDoor \/ CallArm \/ CallDoor \/ Over \/ UNCHANGED vars
    BY <1>1, <2>1 DEF Arm, AtDoor, CallArm, CallDoor, Over, Still, taskVars, vars
  <2>2. CASE Press \/ GoTo \/ IndicateShelf \/ Perceive \/ Loaded
    BY <1>1, <2>2, FollowInCode DEF Press, GoTo, IndicateShelf, Perceive, Loaded
  <2>3. CASE ArmAnswers \/ DoorAnswers \/ AgentTurn
    BY <1>1, <2>3, FollowInCode DEF ArmAnswers, DoorAnswers, AgentTurn, Still
  <2>4. CASE PastDeadline
    BY <1>1, <2>4, ContinueInCode DEF PastDeadline, NextStep, Later
  <2>5. CASE NoWaypoint
    BY <1>1, <2>5, ContinueInCode, FollowInCode DEF NoWaypoint, NextItem, Later
  <2> QED
    BY <2>1, <2>2, <2>3, <2>4, <2>5 DEF Next, Instruction
<1>4. loaded' = loaded \/ (job = "tidy" /\ loaded' = loaded + 1)
  <2>1. CASE Loaded
    <3>1. Now.do = "loaded"
      BY <2>1 DEF Loaded, Ready
    <3>2. job = "tidy"
      BY <1>1, <3>1, CodeDomain DEF Now
    <3> QED
      BY <2>1, <3>2 DEF Loaded
  <2>2. CASE Arm \/ AtDoor \/ CallArm \/ CallDoor \/ Over \/ UNCHANGED vars \/ PastDeadline
    BY <2>2 DEF Arm, AtDoor, CallArm, CallDoor, Over, taskVars, vars, PastDeadline
  <2>3. CASE \/ Press \/ GoTo \/ IndicateShelf \/ Perceive \/ NoWaypoint \/ ArmAnswers
             \/ DoorAnswers \/ AgentTurn
    BY <2>3 DEF Press, GoTo, IndicateShelf, Perceive, NoWaypoint, ArmAnswers, DoorAnswers, AgentTurn
  <2> QED
    BY <2>1, <2>2, <2>3 DEF Next, Instruction
<1> QED
  BY <1>2, <1>3, <1>4 DEF Code

\* The sorting uses no door, asks no agent and knows no deadline.
LEMMA TidyNext ==
    ASSUME CountInv, job = "tidy", [Next]_vars
    PROVE  /\ pc \in 1..12
           /\ Arm \/ GoTo \/ IndicateShelf \/ Perceive \/ CallArm \/ ArmAnswers \/ Loaded \/ UNCHANGED vars
<1>1. pc \in 1..12
  BY TidyFields DEF CountInv
<1>2. Now.do \in {"see", "shelf", "goto", "pick", "place", "loaded"}
  <2>1. pc \in {1, 2, 3, 4, 5, 6, 7, 8, 9, 10, 11, 12}
    BY <1>1
  <2> QED
    BY <2>1, TidyFields DEF Now
<1>3. ~Press /\ ~CallDoor /\ ~NoWaypoint /\ ~AgentTurn
  BY <1>2 DEF Press, CallDoor, NoWaypoint, AgentTurn, Ready
<1>4. ~AtDoor /\ ~DoorAnswers
  BY DEF CountInv, DoorShut, AtDoor, DoorStep, Look, WatchDoor, ListenAtDoor, FirstDrive, Judge,
         Plead, DriveAgain, DoorAnswers, HearDoor
<1>5. ~PastDeadline
  BY DEF PastDeadline
<1> QED
  BY <1>1, <1>3, <1>4, <1>5 DEF Next, Instruction, Over

\* What is left to show of a step of the sorting.
LEMMA TidyShown ==
    ASSUME CountInv, job = "tidy", [Next]_vars, UNCHANGED doorVars, Whose', astray' \/ Counted'
    PROVE  CountInv'
BY InCode DEF CountInv, DoorShut, doorVars, call

\* The arms stand still and nothing is in hand or on the way.
LEMMA Waiting ==
    ASSUME op' = "none", ph' = "idle", answer' = "none"
    PROVE  Whose' /\ Picking' /\ Placing'
BY DEF Whose, Picking, Placing

\* Nothing moves, nothing fails, nothing is counted.
LEMMA CoverStays ==
    ASSUME where' = where, faults' = faults, loaded' = loaded
    PROVE  /\ InWasher' = InWasher
           /\ loaded <= Cardinality(InWasher) + faults => loaded' <= Cardinality(InWasher') + faults'
           /\ Spare => Spare'
           /\ \A h \in Hands : Sure(h)' = Sure(h)
           /\ held' = held => Certain' = Certain
<1>1. InWasher' = InWasher
  BY DEF InWasher
<1>2. Spare' = Spare
  BY <1>1 DEF Spare
<1>3. \A h \in Hands : Sure(h)' = Sure(h)
  BY <1>2 DEF Sure, Holding
<1>4. held' = held => Certain' = Certain
  BY <1>3 DEF Certain
<1> QED
  BY <1>1, <1>2, <1>3, <1>4

\* A drive that gets there leads to the table or to the dishwasher; one that does
\* not is remembered in astray.
LEMMA GoToCount ==
    ASSUME Inv, CountInv, job = "tidy", GoTo
    PROVE  CountInv'
<1> USE TidyFields
<1>0. [Next]_vars
  BY DEF Next, Instruction
<1>1. pc \in {3, 5, 8, 10} /\ verdict = "running" /\ op = "none" /\ answer = "none"
  <2>1. pc \in {1, 2, 3, 4, 5, 6, 7, 8, 9, 10, 11, 12}
    BY <1>0, TidyNext
  <2> QED
    BY <2>1 DEF GoTo, Ready, Quiet, Now
<1>2. /\ op' = "none" /\ ph' = "idle" /\ answer' = "none"
      /\ where' = where /\ held' = held /\ faults' = faults /\ loaded' = loaded
      /\ UNCHANGED doorVars
  BY <1>1 DEF GoTo, Drive, DriveTo, arms, mvars, Inv, Phases
<1>3. Whose' /\ Picking' /\ Placing'
  BY <1>2, Waiting
<1>4. CASE astray'
  BY <1>0, <1>2, <1>3, <1>4, TidyShown
<1>5. CASE ~astray'
  <2>1. Drive /\ Follow("yes") /\ ~astray
    <3>1. CASE Drive /\ Follow("yes") /\ UNCHANGED astray
      BY <1>5, <3>1
    <3>2. CASE astray' = (job = "tidy")
      <4>1. astray'
        BY <3>2, Zenon
      <4> QED
        BY <1>5, <4>1
    <3> QED
      BY <3>1, <3>2, Zenon DEF GoTo
  <2>2. pc' = pc + 1 /\ verdict' = verdict
    BY <1>1, <2>1, TidyFollow
  <2>3. at' = Now.arg
    BY <2>1 DEF Drive, DriveTo
  <2>4. /\ pc \in {3, 8} => pc' \in {4, 9} /\ at' = "table"
        /\ pc \in {5, 10} => pc' \in {6, 11} /\ at' = "washer"
    BY <1>1, <2>2, <2>3 DEF Now
  <2>5. Where'
    BY <1>1, <2>2, <2>4 DEF Where
  <2>6. pc \in {5, 10} => Certain'
    BY <1>1, <1>2, <2>1, CoverStays DEF CountInv, Counted, Between
  <2>7. Between'
    BY <1>1, <2>4, <2>6 DEF Between
  <2>8. loaded' <= Cardinality(InWasher') + faults'
    BY <1>2, <2>1, CoverStays DEF CountInv, Counted
  <2>9. Counted'
    BY <1>3, <2>5, <2>7, <2>8 DEF Counted
  <2> QED
    BY <1>0, <1>2, <1>3, <2>9, TidyShown
<1> QED
  BY <1>4, <1>5

\* At the shelf nothing is done, and the drive to the table is next.
LEMMA ShelfCount ==
    ASSUME Inv, CountInv, job = "tidy", IndicateShelf
    PROVE  CountInv'
<1> USE TidyFields
<1>0. [Next]_vars
  BY DEF Next, Instruction
<1>1. pc = 2 /\ verdict = "running" /\ op = "none" /\ answer = "none"
  <2>1. pc \in {1, 2, 3, 4, 5, 6, 7, 8, 9, 10, 11, 12}
    BY <1>0, TidyNext
  <2> QED
    BY <2>1 DEF IndicateShelf, Ready, Quiet, Now
<1>2. /\ op' = "none" /\ ph' = "idle" /\ answer' = "none" /\ astray' = astray
      /\ where' = where /\ held' = held /\ faults' = faults /\ loaded' = loaded
      /\ UNCHANGED doorVars
  BY <1>1 DEF IndicateShelf, Drive, DriveTo, arms, mvars, Inv, Phases
<1>3. Whose' /\ Picking' /\ Placing'
  BY <1>2, Waiting
<1>4. pc' = 3 /\ verdict' = verdict
  BY <1>1, TidyFollow DEF IndicateShelf
<1>5. Where' /\ Between'
  BY <1>4 DEF Where, Between
<1>6. astray \/ loaded' <= Cardinality(InWasher') + faults'
  BY <1>2, CoverStays DEF CountInv, Counted
<1> QED
  BY <1>0, <1>2, <1>3, <1>5, <1>6, TidyShown DEF Counted

\* The look at the table comes first.
LEMMA PerceiveCount ==
    ASSUME Inv, CountInv, job = "tidy", Perceive
    PROVE  CountInv'
<1> USE TidyFields
<1>0. [Next]_vars
  BY DEF Next, Instruction
<1>1. pc = 1 /\ verdict = "running" /\ op = "none" /\ answer = "none" /\ Now.no = "next"
  <2>1. pc \in {1, 2, 3, 4, 5, 6, 7, 8, 9, 10, 11, 12}
    BY <1>0, TidyNext
  <2> QED
    BY <2>1 DEF Perceive, Ready, Quiet, Now
<1>2. /\ op' = "none" /\ ph' = "idle" /\ answer' = "none" /\ astray' = astray
      /\ where' = where /\ held' = held /\ faults' = faults /\ loaded' = loaded
      /\ UNCHANGED doorVars
  BY <1>1 DEF Perceive, arms, mvars, Inv, Phases
<1>3. Whose' /\ Picking' /\ Placing'
  BY <1>2, Waiting
<1>4. pc' = 2 /\ verdict' = verdict
  <2>1. PICK r \in {"yes", "no"} : Follow(r)
    BY DEF Perceive
  <2> QED
    BY <1>1, <2>1, TidyFollow
<1>5. Where' /\ Between'
  BY <1>4 DEF Where, Between
<1>6. astray \/ loaded' <= Cardinality(InWasher') + faults'
  BY <1>2, CoverStays DEF CountInv, Counted
<1> QED
  BY <1>0, <1>2, <1>3, <1>5, <1>6, TidyShown DEF Counted

\* The place that has put the object in pays for the item that is counted now.
LEMMA LoadedCount ==
    ASSUME Inv, CountInv, job = "tidy", Loaded
    PROVE  CountInv'
<1> USE TidyFields
<1>0. [Next]_vars
  BY DEF Next, Instruction
<1>1. pc \in {7, 12} /\ verdict = "running" /\ op = "none" /\ answer = "none"
  <2>1. pc \in {1, 2, 3, 4, 5, 6, 7, 8, 9, 10, 11, 12}
    BY <1>0, TidyNext
  <2> QED
    BY <2>1 DEF Loaded, Ready, Quiet, Now
<1>2. /\ op' = "none" /\ ph' = "idle" /\ answer' = "none" /\ astray' = astray
      /\ where' = where /\ held' = held /\ faults' = faults /\ loaded' = loaded + 1
      /\ UNCHANGED doorVars
  BY <1>1 DEF Loaded, arms, mvars, Inv, Phases
<1>3. Whose' /\ Picking' /\ Placing'
  BY <1>2, Waiting
<1>4. (pc' = 8 /\ verdict' = verdict) \/ verdict' = "complete"
  BY <1>1, TidyFollow DEF Loaded
<1>5. Where' /\ Between'
  BY <1>4 DEF Where, Between
<1>6. astray \/ loaded' <= Cardinality(InWasher') + faults'
  <2>1. astray \/ loaded + 1 <= Cardinality(InWasher) + faults
    BY <1>1 DEF CountInv, Counted, Between, Spare
  <2> QED
    BY <1>2, <2>1 DEF InWasher
<1> QED
  BY <1>0, <1>2, <1>3, <1>5, <1>6, TidyShown DEF Counted

\* The place is called with "auto", which is the arm with the only record.
LEMMA CallArmCount ==
    ASSUME Inv, CountInv, job = "tidy", CallArm
    PROVE  CountInv'
<1> USE TidyFields
<1>0. [Next]_vars
  BY DEF Next, Instruction
<1>1. /\ op = "none" /\ answer = "none" /\ verdict = "running"
      /\ \/ pc \in {4, 9} /\ StartPick("auto")
         \/ pc \in {6, 11} /\ StartPlace("auto")
  <2>1. pc \in {1, 2, 3, 4, 5, 6, 7, 8, 9, 10, 11, 12}
    BY <1>0, TidyNext
  <2>2. PICK arm \in Arms : /\ arm = Now.arg
                            /\ \/ Ready("pick") /\ StartPick(arm)
                               \/ Ready("place") /\ StartPlace(arm)
    BY DEF CallArm
  <2> QED
    BY <2>1, <2>2 DEF Ready, Quiet, Now
<1>2. /\ where' = where /\ held' = held /\ faults' = faults /\ loaded' = loaded /\ at' = at
      /\ pc' = pc /\ verdict' = verdict /\ astray' = astray /\ UNCHANGED doorVars
  BY <1>1 DEF CallArm, Still, StartPick, StartPlace, arms
<1>3. ph = "idle"
  BY <1>1 DEF Inv, Phases
<1>4. Whose'
  BY <1>1, <1>2 DEF Whose, StartPick, StartPlace
<1>5. CASE astray
  BY <1>0, <1>2, <1>4, <1>5, TidyShown
<1>6. CASE ~astray
  <2>1. loaded' <= Cardinality(InWasher') + faults'
    BY <1>2, <1>6, CoverStays DEF CountInv, Counted
  <2>2. Where'
    BY <1>2, <1>6 DEF CountInv, Counted, Where
  <2>3. CASE pc \in {4, 9} /\ StartPick("auto")
    <3>1. op' = "pick" /\ ph' = "locate" /\ answer' = "none"
      BY <1>1, <2>3 DEF StartPick
    <3>2. Picking' /\ Placing' /\ Between'
      BY <1>2, <2>3, <3>1 DEF Picking, Placing, Between
    <3> QED
      BY <1>0, <1>2, <1>4, <2>1, <2>2, <3>2, TidyShown DEF Counted
  <2>4. CASE pc \in {6, 11} /\ StartPlace("auto")
    <3>1. Certain
      BY <1>1, <1>6, <2>4 DEF CountInv, Counted, Between
    <3>2. CASE op' = "place" /\ ph' = "scan" /\ answer' = "none" /\ hand' \in Hands /\ held = {hand'}
      <4>1. PICK h \in Hands : h = hand' /\ held = {h}
        BY <3>2
      <4>2. Sure(hand)'
        BY <1>2, <3>1, <4>1, CoverStays DEF Certain, Sure, Holding
      <4>3. Picking' /\ Placing' /\ Between'
        BY <1>2, <2>4, <3>2, <4>2 DEF Picking, Placing, Between
      <4> QED
        BY <1>0, <1>2, <1>4, <2>1, <2>2, <4>3, TidyShown DEF Counted
    <3>3. CASE op' = "none" /\ ph' = "idle" /\ answer' = "no"
      <4>1. Picking' /\ Placing' /\ Between'
        BY <1>2, <2>4, <3>3 DEF Picking, Placing, Between
      <4> QED
        BY <1>0, <1>2, <1>4, <2>1, <2>2, <4>1, TidyShown DEF Counted
    <3> QED
      BY <1>1, <1>3, <2>4, <3>2, <3>3 DEF StartPlace, HandToEmpty
  <2> QED
    BY <1>1, <2>3, <2>4
<1> QED
  BY <1>5, <1>6

\* Only a "yes" leads on to the drive to the dishwasher, or to the count.
LEMMA ArmAnswersCount ==
    ASSUME Inv, CountInv, job = "tidy", ArmAnswers
    PROVE  CountInv'
<1> USE TidyFields
<1>0. [Next]_vars
  BY DEF Next, Instruction
<1>1. answer # "none" /\ pc \in {4, 6, 9, 11} /\ verdict = "running" /\ op = "none" /\ ph = "idle"
  BY DEF ArmAnswers, Hear, CountInv, Whose, Inv, Phases
<1>2. Follow(answer)
  BY <1>1 DEF ArmAnswers, Now
<1>3. /\ op' = "none" /\ ph' = "idle" /\ answer' = "none" /\ at' = at /\ astray' = astray
      /\ where' = where /\ held' = held /\ faults' = faults /\ loaded' = loaded
      /\ UNCHANGED doorVars
  BY <1>1 DEF ArmAnswers, Hear, arms
<1>4. Whose' /\ Picking' /\ Placing'
  BY <1>3, Waiting
<1>5. CASE astray
  BY <1>0, <1>3, <1>4, <1>5, TidyShown
<1>6. CASE ~astray
  <2>1. loaded' <= Cardinality(InWasher') + faults'
    BY <1>3, <1>6, CoverStays DEF CountInv, Counted
  <2>2. CASE answer = "yes"
    <3>1. pc' = pc + 1 /\ verdict' = verdict
      BY <1>1, <1>2, <2>2, TidyFollow
    <3>2. /\ pc \in {4, 9} => pc' \in {5, 10} /\ Certain'
          /\ pc \in {6, 11} => pc' \in {7, 12} /\ Spare' /\ at = "washer"
      BY <1>1, <1>3, <1>6, <2>2, <3>1, CoverStays DEF CountInv, Counted, Picking, Placing, Where
    <3>3. Where' /\ Between'
      BY <1>1, <1>3, <3>1, <3>2 DEF Where, Between
    <3> QED
      BY <1>0, <1>3, <1>4, <2>1, <3>3, TidyShown DEF Counted
  <2>3. CASE answer # "yes"
    <3>1. pc' \in {2, 8} \/ verdict' = "complete"
      BY <1>1, <1>2, <2>3, TidyFollow
    <3>2. Where' /\ Between'
      BY <3>1 DEF Where, Between
    <3> QED
      BY <1>0, <1>3, <1>4, <2>1, <3>2, TidyShown DEF Counted
  <2> QED
    BY <2>2, <2>3
<1> QED
  BY <1>5, <1>6

LEMMA CountStep ==
    ASSUME IsFiniteSet(Objects), Inv, CountInv, [Next]_vars
    PROVE  CountInv'
<1>1. CASE job # "tidy"
  BY <1>1, InCode DEF CountInv
<1>2. CASE job = "tidy"
  <2>1. CASE UNCHANGED vars
    <3>1. UNCHANGED doorVars /\ astray' = astray
      BY <2>1 DEF vars, taskVars
    <3>2. Whose' = Whose /\ Counted' = Counted
      <4>1. /\ UNCHANGED <<op, ph, hand, good, answer, held, where, at, faults>>
            /\ UNCHANGED <<job, pc, verdict, loaded>>
        BY <2>1 DEF vars, mvars, arms, progress, taskVars
      <4> QED
        BY <4>1 DEF Whose, Counted, Where, Picking, Placing, Between, Certain, Sure, Spare, Holding,
                    InWasher
    <3> QED
      BY <1>2, <3>1, <3>2, TidyShown DEF CountInv
  <2> QED
    BY <1>2, <2>1, TidyNext, ArmCount, GoToCount, ShelfCount, PerceiveCount, CallArmCount, ArmAnswersCount,
       LoadedCount
<1> QED
  BY <1>1, <1>2

LEMMA CountStart == TaskInit => CountInv
<1> SUFFICES ASSUME TaskInit PROVE CountInv
  OBVIOUS
<1>1. job \in Jobs /\ pc = 1 /\ loaded = 0 /\ verdict = "running" /\ DoorShut
  BY DEF TaskInit, DoorInit, DoorShut
<1>2. pc \in DOMAIN Code
  BY <1>1, JobsAssumption, CodeDomain
<1>3. Whose
  BY DEF TaskInit, ArmsInit, Whose
<1>4. Where /\ Picking /\ Placing /\ Between
  BY <1>1 DEF TaskInit, ArmsInit, Where, Picking, Placing, Between
<1>5. InWasher = {} /\ faults = 0
  BY DEF TaskInit, ArmsInit, InWasher
<1>6. loaded <= Cardinality(InWasher) + faults
  BY <1>1, <1>5, FS_EmptySet
<1> QED
  BY <1>1, <1>2, <1>3, <1>4, <1>6 DEF CountInv, Counted

\* In every run of a task over finitely many objects: what is counted as loaded is in
\* the dishwasher, but for one item with each call that failed, unless a drive failed
\* (the count of TidyDiningTable and the CloseDishwasher that rests on it).
THEOREM CountTheorem ==
    ASSUME IsFiniteSet(Objects) PROVE TaskSpec => []CountIsLoaded
<1>1. TaskInit => Inv /\ CountInv
  BY TasksStart, InitInv, CountStart DEF Init
<1>2. Inv /\ CountInv /\ [Next]_vars => Inv' /\ CountInv'
  BY TasksStep, StepInv, CountStep
<1>3. Inv /\ CountInv => CountIsLoaded
  <2> SUFFICES ASSUME Inv, CountInv PROVE CountIsLoaded
    OBVIOUS
  <2>1. CASE job = "tidy"
    BY <2>1 DEF CountInv, Counted, CountIsLoaded, InWasher
  <2>2. CASE job # "tidy"
    <3>1. InWasher \subseteq Objects
      BY DEF InWasher
    <3>2. Cardinality(InWasher) \in Nat /\ faults \in Nat
      BY <3>1, FS_CardinalityType, FS_Subset DEF Inv, TypeOK
    <3> QED
      BY <2>2, <3>2 DEF CountInv, CountIsLoaded, InWasher
  <2> QED
    BY <2>1, <2>2
<1> QED
  BY <1>1, <1>2, <1>3, PTL DEF TaskSpec

=============================================================================

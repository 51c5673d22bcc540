------------------------------ MODULE HriTask ------------------------------
(***************************************************************************)
(* The Receptionist task (tasks/HRI/subtasks.py) run by Task.run: two      *)
(* guests are met at the door, remembered, brought to a seat and presented *)
(* to each other, and the host's bag is received and carried after the     *)
(* host.  The guests come and sit down at any time.                        *)
(*                                                                         *)
(* Which seat is whose is left to Seating: here a person is seated or not. *)
(* HostLock models whom the robot then drives after, Follow the threads it *)
(* does so with.                                                           *)
(***************************************************************************)
EXTENDS Recognition, Sequences

CONSTANTS BagEnabled,   \* HRI_ENABLE_BAG
          MaxFaults     \* bound: how many calls fail in a run

Host == "host"
Guests == {1, 2}
\* The ids are pinned, so _dedup_person_id warns and keeps them.
Id(g) == IF g = 1 THEN "guest-1" ELSE "guest-2"

ASSUME HriAssumption ==
    /\ BagEnabled \in BOOLEAN /\ MaxFaults \in Nat
    /\ Ids = {Host} \cup {Id(g) : g \in Guests}

\* The steps in the order of build_hri_task.
Steps == <<"door1", "greet1", "guide1", "offer1", "door2", "greet2", "bag",
           "guide2", "offer2", "audit", "introduce", "follow">>

VARIABLES
    step, tries,    \* Task.run: the step being run and its failed attempts
    phase,          \* where in the step
    verdict,        \* "reset", "running", "complete" or "stopped"
    faults,         \* calls that failed so far
    mapped,         \* world.toml maps the entrance door
    robotAt,        \* "door" or "living"
    where,          \* where everyone is: "outside", "door", "standing", "seated"
    faces, attire,  \* the people memory
    described,      \* ctx.data["host"]["appearance"] is set
    hasBag, bag,    \* ctx.data["has_bag"], and where the bag really is
    mistaken,       \* the wrong labels of the step just made: <<id, person>>
    causes          \* what has gone wrong that can spoil a record

task == <<step, tries, phase, verdict>>
scene == <<mapped, robotAt, where>>
memory == <<faces, attire>>
bagVars == <<hasBag, bag>>
vars == <<task, faults, scene, memory, described, bagVars, mistaken, causes>>

At(name, ph) == verdict = "running" /\ Steps[step] = name /\ phase = ph
DoorStep(g) == IF g = 1 THEN "door1" ELSE "door2"
GreetStep(g) == IF g = 1 THEN "greet1" ELSE "greet2"
GuideStep(g) == IF g = 1 THEN "guide1" ELSE "guide2"
OfferStep(g) == IF g = 1 THEN "offer1" ELSE "offer2"

Init ==
    /\ step = 1 /\ tries = 0 /\ phase = "start" /\ verdict = "reset" /\ faults = 0
    /\ mapped \in BOOLEAN
    /\ robotAt = "living"
    /\ where = [p \in Ids |-> CASE p = Host -> "seated"
                              [] p = Id(1) -> "door"
                              [] p = Id(2) -> "outside"]
    /\ \E old \in {NoRow, {"past"}} :  \* the database of an earlier run, if any
         /\ faces = [id \in Ids |-> old]
         /\ attire = [id \in Ids |-> IF old = NoRow THEN {} ELSE old]
    /\ described = FALSE
    /\ hasBag = FALSE /\ bag = "owner"
    /\ mistaken = {} /\ causes = {}

----------------------------------------------------------------------------
(* Task.run; a step that looks for people keeps the labels it got wrong *)

Ended ==  \* the step returned DONE
    /\ step' = IF step = Len(Steps) THEN step ELSE step + 1
    /\ verdict' = IF step = Len(Steps) THEN "complete" ELSE verdict
    /\ tries' = 0 /\ phase' = "start"

Looks(found) == mistaken' = {c \in found : c[1] # c[2]}

Faulty == faults < MaxFaults /\ faults' = faults + 1
Fine == UNCHANGED faults

AgainAndAgain ==  \* mutant: the attempts are not counted
    phase' = "start" /\ UNCHANGED <<step, tries, verdict>>

Again ==   \* it returned RETRY or raised; only the first GoToDoor is critical
    /\ phase' = "start"
    /\ IF tries = 0
       THEN tries' = 1 /\ UNCHANGED <<step, verdict>>
       ELSE /\ tries' = 0
            /\ IF Steps[step] = "door1"
               THEN verdict' = "stopped" /\ UNCHANGED step
               ELSE /\ step' = IF step = Len(Steps) THEN step ELSE step + 1
                    /\ verdict' = IF step = Len(Steps) THEN "complete" ELSE verdict

Fail == Faulty /\ Again
GoOn(ph) == phase' = ph /\ UNCHANGED <<step, tries, verdict>>
Finish == Fine /\ Ended
Proceed(ph) == Fine /\ GoOn(ph)

\* prepare_run: clear() empties one collection after the other, and a failure
\* in between is only logged.
PrepareRun ==
    /\ verdict = "reset" /\ verdict' = "running"
    /\ \E cleared \in 0..2 :
         /\ IF cleared < 2 THEN Faulty ELSE Fine
         /\ faces' = IF cleared >= 1 THEN [id \in Ids |-> NoRow] ELSE faces
         /\ attire' = IF cleared = 2 THEN [id \in Ids |-> {}] ELSE attire
         /\ causes' = IF cleared < 2 THEN {"reset"} ELSE {}
    /\ UNCHANGED <<step, tries, phase, scene, described, bagVars>> /\ Looks({})

----------------------------------------------------------------------------
(* The people *)

Living == {p \in Ids : where[p] \in {"standing", "seated"}}
Present == IF robotAt = "living" THEN Living ELSE {p \in Ids : where[p] = "door"}

Moves(p, place) ==
    /\ where' = [where EXCEPT ![p] = place]
    /\ UNCHANGED <<task, faults, mapped, robotAt, memory, described, bagVars, causes>>
    /\ Looks({})

\* Guest 1 waits at the door; guest 2 comes some time after.
Arrive ==
    /\ where[Id(2)] = "outside" /\ Id(1) \in Living
    /\ Moves(Id(2), "door")

SitDown(p) == where[p] = "standing" /\ Moves(p, "seated")

----------------------------------------------------------------------------
(* GoToDoor: the loop on the button ends when somebody presses it *)

GoToDoor(g) ==
    /\ At(DoorStep(g), "start")
    /\ \/ /\ ~mapped /\ Fine /\ Again  \* the pose of the missing door is read
          /\ UNCHANGED <<robotAt, causes>>
       \/ /\ Fail                      \* the arm raises
          /\ causes' = IF tries = 1 THEN causes \cup {DoorStep(g)} ELSE causes
          /\ UNCHANGED robotAt
       \/ /\ mapped /\ Ended
          /\ \/ Fine /\ robotAt' = "door" /\ UNCHANGED causes
             \/ /\ Faulty            \* what goto returns is not looked at
                /\ causes' = causes \cup {DoorStep(g)}
                /\ UNCHANGED robotAt
    /\ Looks({})
    /\ UNCHANGED <<mapped, where, memory, described, bagVars>>

----------------------------------------------------------------------------
(* GreetAndLearn *)

\* enroll writes the main collection, then the one for attire; a failure of
\* either is logged.  A face or the clothes may have given no vector; without
\* any nothing is written.
Remember(id, face, clothes) ==
    faces' = Folded(faces, id, face) /\ attire' = Dressed(attire, id, clothes)

Enrolls(id, face, clothes) ==
    \/ Fine /\ Remember(id, face, clothes)
    \/ Faulty /\ UNCHANGED memory
    \/ Faulty /\ Remember(id, face, {})
    \/ Faulty /\ Remember(id, {}, clothes)

\* _posed_capture: the largest face and the largest body of the two bursts.  The
\* look for duplicates counts the records unguarded: it raises before a write.
Greet(g) ==
    /\ At(GreetStep(g), "start")
    /\ \/ Present # {} /\ Fail /\ UNCHANGED <<memory, causes>>
       \/ /\ Ended
          /\ IF Present = {}
             THEN Fine /\ causes' = causes \cup {GreetStep(g)} /\ UNCHANGED memory
             ELSE /\ UNCHANGED causes
                  /\ \E p, q \in Present : Enrolls(Id(g), {p}, {q})
    /\ Looks({})
    /\ UNCHANGED <<scene, described, bagVars>>

----------------------------------------------------------------------------
(* GuideToLivingRoom: whoever waits at the door comes along *)

Guide(g) ==
    /\ At(GuideStep(g), "start")
    /\ \/ Fail /\ causes' = causes \cup {GuideStep(g)} /\ UNCHANGED <<robotAt, where>>
       \/ /\ Finish
          /\ UNCHANGED causes
          /\ robotAt' = "living"
          /\ where' = [p \in Ids |-> IF where[p] = "door" /\ robotAt = "door" THEN "standing"
                                     ELSE where[p]]
    /\ Looks({})
    /\ UNCHANGED <<mapped, memory, described, bagVars>>

----------------------------------------------------------------------------
(* OfferSeat *)

\* find_seated_person_bbox on one frame: somebody on a seat that is detected,
\* or else the only person in the frame.
OnASeat(seen, detected) == {p \in seen \cap detected : where[p] = "seated"}
AnyoneIn(seen, detected) == seen  \* mutant: the first person in the frame
SeatedIn(seen, detected) ==
    IF OnASeat(seen, detected) # {} THEN OnASeat(seen, detected)
    ELSE IF Cardinality(seen) = 1 THEN seen ELSE {}

\* enroll_person_in_box: the largest face with its centre in p's box is p's own,
\* none, or that of somebody in front.
FaceInBox(p, f) == {{p} \cap f.faced} \cup {{q} : q \in f.faced}

\* The first offer describes and remembers the host; not again once the
\* description is there, also if the look for duplicates raised.
EnrollHost(f, detected) ==
    /\ described' \in BOOLEAN   \* the caption may be empty
    /\ IF SeatedIn(f.seen, detected) = {}
       THEN Fine /\ GoOn("look") /\ UNCHANGED <<memory, causes>>
       ELSE \E p \in SeatedIn(f.seen, detected) : \E face \in FaceInBox(p, f) :
               /\ causes' = IF OnASeat(f.seen, detected) = {Host} /\ face \subseteq {Host}
                            THEN causes ELSE causes \cup {"host unseen"}
               /\ \/ GoOn("look") /\ Enrolls(Host, face, {p})
                  \/ Fail /\ UNCHANGED memory

Sweep(g) ==
    /\ At(OfferStep(g), "start")
    /\ IF g = 1 /\ ~described
       THEN \E f \in Frames(Present), detected \in SUBSET Ids : EnrollHost(f, detected)
       ELSE Proceed("look") /\ UNCHANGED <<memory, described, causes>>
    /\ Looks({})
    /\ UNCHANGED <<scene, bagVars>>

\* locate_people reads the memory unguarded.
LookAround(g) ==
    /\ At(OfferStep(g), "look")
    /\ \/ Fail /\ Looks({})
       \/ /\ Proceed("pick")
          /\ \E found \in Swept(faces, attire, Ids \ {Id(g)}, Present) : Looks(found)
    /\ UNCHANGED <<scene, memory, described, bagVars, causes>>

\* No seat may be found or picked; the arm that points at one may raise.
PickSeat(g) ==
    /\ At(OfferStep(g), "pick")
    /\ (Finish \/ Proceed("wait") \/ Fail)
    /\ Looks({})
    /\ UNCHANGED <<scene, memory, described, bagVars, causes>>

\* wait_until_seated, then back to the living room with the arm home.
WaitSeated(g) ==
    /\ At(OfferStep(g), "wait")
    /\ \/ Fail /\ Looks({}) /\ UNCHANGED robotAt
       \/ /\ \/ robotAt' = "living" /\ (Finish \/ Fail)
             \/ UNCHANGED robotAt /\ Faulty /\ Ended
          /\ \E found \in {{}} \cup Looked(faces, attire, {Id(g)}, Present) : Looks(found)
    /\ UNCHANGED <<mapped, where, memory, described, bagVars, causes>>

----------------------------------------------------------------------------
(* ReceiveBag *)

\* The gripper opens, whatever it holds.
OpenHand ==
    /\ At("bag", "start")
    /\ IF ~BagEnabled THEN Finish /\ UNCHANGED bag
       ELSE /\ bag' = IF bag = "hand" THEN "floor" ELSE bag
            /\ (Proceed("handover") \/ Fail)   \* the arm raises
    /\ Looks({})
    /\ UNCHANGED <<scene, memory, described, hasBag, causes>>

\* The effort rises or the time is up: either way the bag counts as received.
CloseHand ==
    /\ At("bag", "handover")
    /\ \/ Fail /\ UNCHANGED bagVars
       \/ /\ hasBag' = TRUE
          /\ \/ bag' = (IF bag = "owner" THEN "hand" ELSE bag) /\ (Finish \/ Fail)
             \/ UNCHANGED bag /\ Faulty /\ Ended
    /\ Looks({})
    /\ UNCHANGED <<scene, memory, described, causes>>

----------------------------------------------------------------------------
(* AuditIdentities and IntroduceGuests *)

\* The audit only reads the memory; it may raise the margin of the follower.
Audit ==
    /\ At("audit", "start") /\ Finish
    /\ Looks({})
    /\ UNCHANGED <<scene, memory, described, bagVars, causes>>

\* The guests are looked for once more, before each is shown to the other.
Introduce ==
    /\ At("introduce", "start")
    /\ \/ Fail /\ Looks({})
       \/ /\ Finish
          /\ \E found \in {{}} \cup Swept(faces, attire, {Id(1), Id(2)}, Present) : Looks(found)
    /\ UNCHANGED <<scene, memory, described, bagVars, causes>>

----------------------------------------------------------------------------
(* FollowHostAndDropBag *)

\* refresh_person_attire: the host gets the clothes of whoever is so labelled.
Refresh ==
    \E found \in {{}} \cup Looked(faces, attire, {Host}, Present) :
        LET p == {c[2] : c \in found}
        IN  /\ Looks(found)
            /\ attire' \in {attire, Dressed(attire, Host, p)}
            /\ causes' = IF p \subseteq {Host} THEN causes ELSE causes \cup {"mistaken"}

\* The bag is placed right here, or after a follow that ends at a word from
\* the host or with the host lost.  A failed release is only logged.
FollowAndDrop ==
    /\ At("follow", "start")
    /\ \/ /\ ~hasBag /\ Finish
          /\ Looks({}) /\ UNCHANGED <<attire, causes, bagVars>>
       \/ /\ hasBag /\ Fail    \* follow_person raises, after the refresh
          /\ Refresh
          /\ UNCHANGED bagVars
       \/ /\ hasBag /\ Ended
          /\ Refresh
          /\ hasBag' = FALSE
          /\ \/ Fine /\ bag' = IF bag = "hand" THEN "floor" ELSE bag
             \/ Faulty /\ UNCHANGED bag
    /\ UNCHANGED <<scene, faces, described>>

----------------------------------------------------------------------------
Guest == Arrive \/ \E p \in Ids : SitDown(p)

Robot ==
    \/ PrepareRun
    \/ \E g \in Guests : \/ GoToDoor(g) \/ Greet(g) \/ Guide(g)
                         \/ Sweep(g) \/ LookAround(g) \/ PickSeat(g) \/ WaitSeated(g)
    \/ OpenHand \/ CloseHand \/ Audit \/ Introduce \/ FollowAndDrop

Next == Robot \/ Guest

\* The task's own thread goes on, and somebody presses the start button.
Spec == Init /\ [][Next]_vars /\ WF_vars(Robot)

----------------------------------------------------------------------------
Foreign(id) == (faces[id] # NoRow /\ faces[id] \ {id} # {}) \/ attire[id] \ {id} # {}

(***************************************************************************)
(* A guest's record holds looks of somebody else only if the database was  *)
(* not emptied, the robot never got to the door it greeted this guest at   *)
(* (GoToDoor ignores goto's answer), or the first guest was left there for *)
(* the second one's greeting; the host's only if something went wrong or   *)
(* the host was not the one person seen on a seat at the first offer, or   *)
(* another's face lay in the host's box, or, for the clothes, if the       *)
(* refresh took another label for the host's.                              *)
(***************************************************************************)
RecordsHaveCause ==
    verdict = "reset" \/
    /\ \A g \in Guests : Foreign(Id(g)) =>
         causes \cap ({"reset", "door1"} \cup IF g = 1 THEN {} ELSE {"guide1", "door2"}) # {}
    /\ Foreign(Host) => causes # {}

(***************************************************************************)
(* A person is labelled as somebody else only if one of the two records is *)
(* foreign, this person has no record or none of the clothes, or neither   *)
(* record has a face: a clothes-only match with a look-alike is otherwise  *)
(* ambiguous, and a face outweighs the clothes.                            *)
(***************************************************************************)
LabelsHaveCause ==
    \A c \in mistaken :
        \/ Foreign(c[1]) \/ Foreign(c[2])
        \/ faces[c[2]] = NoRow \/ attire[c[2]] = {}
        \/ faces[c[1]] = {} /\ faces[c[2]] = {}

(***************************************************************************)
(* Only the host is ever remembered as the host: enroll_person_in_box says *)
(* a guest standing next to the robot cannot be.  The code falsifies it    *)
(* (README, section 6), and no run checks it.                              *)
(***************************************************************************)
HostRecordIsHost == verdict # "reset" /\ "reset" \notin causes => ~Foreign(Host)

\* Every step ends and is tried at most twice, so the task ends.
TaskEnds == <>(verdict \in {"complete", "stopped"})
=============================================================================

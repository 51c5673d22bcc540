----------------------------- MODULE Restaurant -----------------------------
(***************************************************************************)
(* The Restaurant task, tasks/Restaurant/subtasks.py and skills.py, as     *)
(* tasks/base.py runs it: anchor the bar, then serve callers one by one    *)
(* (ServeCustomers) or take several orders first (ServeCustomersBatched).  *)
(*                                                                         *)
(* The room is a line: a customer sits at an integer point, the bar is at  *)
(* 0.  What the robot knows of a customer is the point a detection was     *)
(* lifted to, off by a bias when seen from afar, or a bearing alone.       *)
(***************************************************************************)
EXTENDS Integers, FiniteSets, Sequences, Functions

CONSTANTS
  Customers,
  NoOne,            \* nobody has answered yet
  NoFix,            \* world_xy of a caller seen without depth
  Seat,             \* where each customer sits
  Biases,           \* errors of a lift from afar ("depth biases SHORT")
  HandledRadius,    \* RESTAURANT_HANDLED_RADIUS_M, and RESTAURANT_CALLER_DEDUP_M
  ReacquireRadius,  \* RESTAURANT_REACQUIRE_RADIUS_M
  ServeRadius,      \* RESTAURANT_SERVE_REACQUIRE_RADIUS_M
  Target,           \* RESTAURANT_TARGET_CUSTOMERS
  ExtraAttempts,    \* RESTAURANT_EXTRA_ATTEMPTS
  MaxFails,         \* RESTAURANT_MAX_FAILS_PER_SPOT
  BatchSize,        \* RESTAURANT_BATCH_SIZE
  Tries,            \* attempts of a step: max_retries + 1
  MaxSteps,         \* detections during one approach
  Modes,            \* settings to consider
  Sizes,            \* numbers of items an order may have
  MaxUnits,         \* max_units of the score lines
  RaiseBound        \* bound: orders on record when a step that is run again
                    \* raises, for each setting

Lines == {"understand_order", "pickup_items", "serve_order"}
Statuses == {"DETECTED", "APPROACHED", "ORDERED", "RELAYED", "PICKED", "SERVED", "FAILED"}

ASSUME RestaurantAssumption ==
  /\ IsFiniteSet(Customers) /\ NoOne \notin Customers /\ NoFix \notin Int
  /\ Seat \in [Customers -> Nat] /\ Biases \subseteq Int /\ 0 \in Biases
  /\ IsFiniteSet(Biases)
  /\ {HandledRadius, ReacquireRadius, ServeRadius, ExtraAttempts, MaxSteps} \subseteq Nat
  /\ RaiseBound \in [Modes -> Nat]
  /\ {Target, MaxFails, BatchSize, Tries} \subseteq Nat \ {0}
  /\ Sizes \subseteq Nat \ {0}
  /\ Modes \subseteq [live : BOOLEAN, batched : BOOLEAN, tray : BOOLEAN, arm : BOOLEAN]
  /\ MaxUnits \in [Lines -> Nat]

VARIABLES
  mode,      \* LIVE_SCAN, BATCH, TRAY_MODE and ARM_CALIBRATED
  phase,     \* where the task is
  tries,     \* attempts of the current step that failed
  attempts,  \* serve cycles begun by this run of the step
  handled,   \* points of customers that have ordered
  giveups,   \* [at, fails] of the spots that failed
  callers,   \* batched: sightings of the sweep still to visit
  taken,     \* batched: orders still to deliver
  orders,    \* ctx.data["orders"]: at, status, items, and of history: who
             \* gave it, items confirmed received and handed over
  cur,       \* the order in hand
  caller,    \* the sighting in hand: at, and who it really is
  target,    \* running estimate of an approach
  steps,     \* detections of this approach
  item,      \* gripper: items of the order tried
  goal,      \* where the base was last sent: the bar or into the room
  score,     \* units claimed, on the lines a confirmation stands behind
  unsure     \* a sighting was off, or the step began anew (history)

book    == <<attempts, handled, giveups>>
batch   == <<callers, taken>>
sight   == <<caller, target, steps>>
inHand  == <<cur, sight, item>>
vars    == <<mode, phase, tries, book, batch, orders, inHand, goal, score, unsure>>

-----------------------------------------------------------------------------
(* Perception *)

Near(p, q, r) == p # NoFix /\ q # NoFix /\ p - q \in (-r)..r
Distance(p, q) == IF p < q THEN q - p ELSE p - q

(* The depth on the chest, or of the whole box when the shoulders are hidden. *)
Lifts(c) == {Seat[c] + b : b \in Biases}

(* Without depth the column of the torso still gives the way to turn. *)
Bearings == {[who |-> c, at |-> NoFix] : c \in Customers}

(* Wavers as seen from the bar; only the live scan keeps one without depth. *)
Sightings ==
  (UNION {{[who |-> c, at |-> p] : p \in Lifts(c)} : c \in Customers})
  \cup (IF mode.live THEN Bearings ELSE {})

(* A sweep may see any of the wavers, but each place once (_dedup_callers). *)
Deduped(seen) == \A s, t \in seen : s # t => ~Near(s.at, t.at, HandledRadius)
Swept == {seen \in SUBSET {s \in Sightings : s.at # NoFix} : Deduped(seen)}

(* find_person_near: of the visible people within the radius the nearest, or
   with a caption of the customer the one it fits, if several are near. *)
Within(p, r, visible) == {c \in visible : Near(Seat[c], p, r)}
PersonNear(p, r, visible) ==
  LET within == Within(p, r, visible)
  IN  {c \in within : \A d \in within : Distance(Seat[c], p) <= Distance(Seat[d], p)}
Captioned(cands) == IF Cardinality(cands) > 1 THEN cands ELSE {}

(* Points a fresh detection may put a person near p at; p itself if none. *)
Refined(p) ==
  {p} \cup {Seat[c] : c \in UNION {PersonNear(p, ReacquireRadius, v) : v \in SUBSET Customers}}

(* Who answers when the robot turns to p and asks. *)
Answering(p) == PersonNear(p, ReacquireRadius, Customers)

(* exclude_handled, and the same test inside a sweep: a caller without a fix is
   never blocked. *)
Blocked ==
  Range(handled) \cup {g.at : g \in {f \in Range(giveups) : f.fails >= MaxFails}}
Open(call, points) == \A b \in points : ~Near(call.at, b, HandledRadius)
NextCaller == {call \in Sightings : Open(call, Blocked)}

(* TaskContext.score never claims a line beyond its maximum. *)
Award(sheet, line, n) ==
  [sheet EXCEPT ![line] = IF @ + n > MaxUnits[line] THEN MaxUnits[line] ELSE @ + n]

(* Mutant: every failure opens a spot of its own. *)
NoteFailureApart(spots, at) ==
  IF at = NoFix THEN spots ELSE Append(spots, [at |-> at, fails |-> 1])

(* note_failure: count at the first spot within the radius. *)
NoteFailure(spots, at) ==
  LET here == {i \in 1..Len(spots) : Near(spots[i].at, at, HandledRadius)} IN
  IF at = NoFix THEN spots
  ELSE IF here = {} THEN Append(spots, [at |-> at, fails |-> 1])
  ELSE LET i == CHOOSE i \in here : \A j \in here : i <= j
       IN  [spots EXCEPT ![i].fails = @ + 1]

-----------------------------------------------------------------------------
NoCaller == [who |-> NoOne, at |-> NoFix]

(* A sighting is dropped once its order is taken or given up. *)
Forget == caller' = NoCaller /\ target' = 0 /\ steps' = 0

FirstPhase == IF mode.batched THEN "sweep" ELSE "scan"

Init ==
  /\ mode \in Modes
  /\ phase = "anchor" /\ tries = 0
  /\ attempts = 0 /\ handled = <<>> /\ giveups = <<>>
  /\ callers = <<>> /\ taken = <<>> /\ orders = <<>>
  /\ cur = 0 /\ caller = NoCaller /\ target = 0
  /\ steps = 0 /\ item = 0
  /\ goal = "bar"
  /\ score = [l \in Lines |-> 0]
  /\ unsure = FALSE

(* GoToStart: without an odometry fix (or with a drive that fails) it retries,
   and being critical it ends the task. *)
Anchors ==
  /\ phase = "anchor"
  /\ phase' = FirstPhase /\ tries' = 0
  /\ UNCHANGED <<mode, book, batch, orders, inHand, goal, score, unsure>>

AnchorFails ==
  /\ phase = "anchor"
  /\ tries' = tries + 1
  /\ phase' = IF tries' < Tries THEN "anchor" ELSE "over"
  /\ UNCHANGED <<mode, book, batch, orders, inHand, goal, score, unsure>>

(* _take_one_order up to the approach: the order is recorded first. *)
BeginOrder(call) ==
  /\ orders' = Append(orders, [at |-> call.at, status |-> "DETECTED", items |-> 0,
                               who |-> NoOne, got |-> 0, gave |-> 0])
  /\ cur' = Len(orders) + 1
  /\ caller' = call
  /\ steps' = 0 /\ item' = 0
  /\ target' \in IF call.at = NoFix THEN Lifts(call.who) ELSE {call.at}
  /\ unsure' = (unsure \/ call.at # Seat[call.who])
  /\ phase' = "approach"

-----------------------------------------------------------------------------
(* ServeCustomers: the loop head, and _next_caller, which returns some waver
   that is not blocked, or none: the steps or the one turn of the sweep come to
   their end, run out of time or lose the odometry. *)
SweepAgain == Len(handled) < Target /\ attempts < Target + ExtraAttempts

ScanFinds ==
  /\ phase = "scan" /\ SweepAgain
  /\ attempts' = attempts + 1
  /\ \E call \in NextCaller : BeginOrder(call)
  /\ UNCHANGED <<mode, tries, handled, giveups, batch, goal, score>>

ScanFindsNobody ==
  /\ phase = "scan" /\ SweepAgain
  /\ attempts' = attempts + 1
  /\ UNCHANGED <<mode, phase, tries, handled, giveups, batch, orders, inHand, goal,
                 score, unsure>>

ScanEnds ==
  /\ phase = "scan" /\ ~SweepAgain
  /\ phase' = "over"
  /\ UNCHANGED <<mode, tries, book, batch, orders, inHand, goal, score, unsure>>

(* The sightings of a sweep in a row, by their distance from the bar. *)
NearestFirst(seen) ==
  {row \in Injection(1..Cardinality(seen), seen) :
     \A i, j \in 1..Cardinality(seen) :
       i < j => Distance(row[i].at, 0) <= Distance(row[j].at, 0)}

(* ServeCustomersBatched: one sweep, deduplicated, nearest first. *)
Sweep ==
  /\ phase = "sweep"
  /\ \E seen \in Swept :
       /\ callers' \in NearestFirst(seen)
       /\ phase' = IF seen = {} THEN "over" ELSE "gather"
  /\ UNCHANGED <<mode, tries, book, taken, orders, inHand, goal, score, unsure>>

Want == IF BatchSize < Target THEN BatchSize ELSE Target

GatherNext ==
  /\ phase = "gather" /\ callers # <<>> /\ Len(taken) < Want
  /\ callers' = Tail(callers)
  /\ IF Open(Head(callers), Range(handled))
     THEN BeginOrder(Head(callers))
     ELSE UNCHANGED <<phase, orders, inHand, unsure>>
  /\ UNCHANGED <<mode, tries, book, taken, goal, score>>

GatherEnds ==
  /\ phase = "gather" /\ (callers = <<>> \/ Len(taken) >= Want)
  /\ phase' = IF taken = <<>> THEN "over" ELSE "deliver"
  /\ UNCHANGED <<mode, tries, book, batch, orders, inHand, goal, score, unsure>>

DeliverNext ==
  /\ phase = "deliver"
  /\ IF taken = <<>> THEN phase' = "over" /\ UNCHANGED <<taken, cur>>
     ELSE phase' = "relay" /\ cur' = Head(taken) /\ taken' = Tail(taken)
  /\ item' = 0
  /\ UNCHANGED <<mode, tries, book, callers, orders, caller, target, steps, goal,
                 score, unsure>>

-----------------------------------------------------------------------------
(* _take_one_order *)

Status(o, s) == orders' = [orders EXCEPT ![o].status = s]

(* return_to_bar and approach_to_standoff: where the base is sent last. *)
ToBar == goal' = "bar"
ToRoom == goal' = "room"

(* live_approach_caller looks again on the way; what approach_customer sees on
   its way (of the people near, one who calls) it keeps to itself. *)
ApproachRefines ==
  /\ phase = "approach" /\ steps < MaxSteps
  /\ target' \in IF mode.live THEN Refined(target) ELSE {target}
  /\ steps' = steps + 1
  /\ ToRoom
  /\ UNCHANGED <<mode, phase, tries, book, batch, orders, cur, caller, item, score, unsure>>

(* _lost_recover scans for any waver, handled or not. *)
ApproachRecovers ==
  /\ phase = "approach" /\ mode.live /\ steps < MaxSteps
  /\ \E call \in Sightings :
       target' \in IF call.at = NoFix THEN Lifts(call.who) ELSE {call.at}
  /\ steps' = steps + 1
  /\ ToRoom /\ unsure' = TRUE
  /\ UNCHANGED <<mode, phase, tries, book, batch, orders, cur, caller, item, score>>

(* The order has failed: the serial loop notes the spot, the batched one goes
   on to its next caller. *)
GiveUp ==
  /\ Status(cur, "FAILED")
  /\ giveups' = IF mode.batched THEN giveups ELSE NoteFailure(giveups, caller.at)
  /\ phase' = IF mode.batched THEN "gather" ELSE "scan"
  /\ Forget
  /\ UNCHANGED <<attempts, handled, cur, item>>

(* No odometry fix before the first drive; else the live approach has gone back
   to the bar, the other one is left where it is. *)
ApproachFails ==
  /\ phase = "approach"
  /\ GiveUp
  /\ goal' \in {goal, IF mode.live THEN "bar" ELSE "room"}
  /\ UNCHANGED <<mode, tries, batch, score, unsure>>

(* The seat is refined from close by: around the first sighting, or around the
   running estimate when live. *)
SeatUpClose == Refined(IF mode.live THEN target ELSE caller.at)

ApproachReaches ==
  /\ phase = "approach"
  /\ \E p \in SeatUpClose :
       orders' = [orders EXCEPT ![cur].at = p, ![cur].status = "APPROACHED"]
  /\ ToRoom
  /\ phase' = "ask"
  /\ target' = 0 /\ steps' = 0
  /\ UNCHANGED <<mode, tries, book, batch, cur, caller, item, unsure, score>>

Ordered(c, n) ==
  orders' = [orders EXCEPT ![cur].status = "ORDERED", ![cur].items = n, ![cur].who = c]

(* take_order: no items after all re-asks. *)
AskFails ==
  /\ phase = "ask"
  /\ GiveUp
  /\ UNCHANGED <<mode, tries, batch, goal, score, unsure>>

(* Mutant: the seat is not marked until the order has been delivered. *)
AskUnmarked ==
  /\ phase = "ask"
  /\ \E c \in Answering(orders[cur].at), n \in Sizes : Ordered(c, n)
  /\ score' = Award(score, "understand_order", 1)
  /\ UNCHANGED handled
  /\ IF mode.batched THEN taken' = Append(taken, cur) /\ phase' = "gather"
                     ELSE UNCHANGED taken /\ phase' = "relay"
  /\ Forget
  /\ UNCHANGED <<mode, tries, attempts, giveups, callers, cur, item, goal, unsure>>

(* The serial loop marks the refined seat, the batched one the coarse point. *)
AskUnderstood ==
  /\ phase = "ask"
  /\ \E c \in Answering(orders[cur].at), n \in Sizes : Ordered(c, n)
  /\ score' = Award(score, "understand_order", 1)
  /\ handled' = Append(handled, IF mode.batched THEN caller.at ELSE orders[cur].at)
  /\ IF mode.batched THEN taken' = Append(taken, cur) /\ phase' = "gather"
                     ELSE UNCHANGED taken /\ phase' = "relay"
  /\ Forget
  /\ UNCHANGED <<mode, tries, attempts, giveups, callers, cur, item, goal, unsure>>

-----------------------------------------------------------------------------
(* _deliver_order *)

Delivered == phase' = IF mode.batched THEN "deliver" ELSE "scan"

(* To the bar, tell the barman; then the tray, or the arm if it may move. *)
Relay ==
  /\ phase = "relay"
  /\ ToBar
  /\ Status(cur, "RELAYED")
  /\ IF mode.tray THEN phase' = "load"
     ELSE IF mode.arm THEN phase' = "pick" ELSE Delivered
  /\ UNCHANGED <<mode, tries, book, batch, inHand, unsure, score>>

(* _await_handoff: a go-ahead is heard in one of its tries, or it is not. *)
GoAhead == BOOLEAN

(* _serve_with_tray: the order is carried whether or not the barman's go-ahead
   was heard; the pickup is claimed only if it was. *)
Load ==
  /\ phase = "load"
  /\ \E heard \in GoAhead :
       LET n == IF heard THEN orders[cur].items ELSE 0 IN
       /\ orders' = [orders EXCEPT ![cur].status = "PICKED", ![cur].got = n]
       /\ score' = Award(score, "pickup_items", n)
  /\ phase' = "carry"
  /\ UNCHANGED <<mode, tries, book, batch, inHand, goal, unsure>>

(* return_to_customer: somebody within the serving radius, or nobody. *)
Refound ==
  LET p == orders[cur].at
  IN  {Seat[c] : c \in UNION {PersonNear(p, ServeRadius, v) \cup Captioned(Within(p, ServeRadius, v))
                               : v \in SUBSET Customers}}

Carry ==
  /\ phase = "carry"
  /\ \E p \in Refound : orders' = [orders EXCEPT ![cur].at = p]
  /\ ToRoom
  /\ phase' = "present"
  /\ UNCHANGED <<mode, tries, book, batch, inHand, unsure, score>>

(* Mutant: the tray counts as served when it is presented. *)
PresentUnheard ==
  /\ phase = "present"
  /\ \E heard \in BOOLEAN :
       orders' = [orders EXCEPT ![cur].status = "SERVED",
                                ![cur].gave = IF heard THEN orders[cur].items ELSE 0]
  /\ score' = Award(score, "serve_order", orders[cur].items)
  /\ ToBar
  /\ Delivered
  /\ UNCHANGED <<mode, tries, book, batch, inHand, unsure>>

CarryLost ==
  /\ phase = "carry"
  /\ ToBar
  /\ Delivered
  /\ UNCHANGED <<mode, tries, book, batch, orders, inHand, score, unsure>>

(* Served only if the customer is heard to have taken the items. *)
Present ==
  /\ phase = "present"
  /\ ToBar
  /\ Delivered
  /\ \E heard \in GoAhead :
       IF heard
       THEN /\ orders' = [orders EXCEPT ![cur].status = "SERVED",
                                        ![cur].gave = orders[cur].items]
            /\ score' = Award(score, "serve_order", orders[cur].items)
       ELSE UNCHANGED <<orders, score>>
  /\ UNCHANGED <<mode, tries, book, batch, inHand, unsure>>

(* _pick_and_serve: one item per trip. *)
PickFails ==
  /\ phase = "pick" /\ item < orders[cur].items
  /\ item' = item + 1
  /\ UNCHANGED <<mode, phase, tries, book, batch, orders, cur, caller, target, steps,
                 goal, score, unsure>>

Pick ==
  /\ phase = "pick" /\ item < orders[cur].items
  /\ item' = item + 1
  /\ orders' = [orders EXCEPT ![cur].status = "PICKED", ![cur].got = @ + 1]
  /\ score' = Award(score, "pickup_items", 1)
  /\ phase' = "bring"
  /\ UNCHANGED <<mode, tries, book, batch, cur, caller, target, steps, goal, unsure>>

(* After the loop: served if any item was placed. *)
Conclude ==
  /\ orders' = [orders EXCEPT ![cur].status = IF orders[cur].gave > 0 THEN "SERVED" ELSE @]
  /\ Delivered

PickEnds ==
  /\ phase = "pick" /\ item = orders[cur].items
  /\ Conclude
  /\ UNCHANGED <<mode, tries, book, batch, inHand, goal, score, unsure>>

Bring ==
  /\ phase = "bring"
  /\ \E p \in Refound : orders' = [orders EXCEPT ![cur].at = p]
  /\ ToRoom
  /\ phase' = "place"
  /\ UNCHANGED <<mode, tries, book, batch, inHand, unsure, score>>

(* Still holding the item: give up the rest of the order. *)
BringLost ==
  /\ phase = "bring"
  /\ ToBar
  /\ Conclude
  /\ UNCHANGED <<mode, tries, book, batch, inHand, score, unsure>>

Place ==
  /\ phase = "place"
  /\ \/ /\ orders' = [orders EXCEPT ![cur].gave = @ + 1]
        /\ score' = Award(score, "serve_order", 1)
     \/ UNCHANGED <<orders, score>>
  /\ ToBar
  /\ phase' = "pick"
  /\ UNCHANGED <<mode, tries, book, batch, inHand, unsure>>

-----------------------------------------------------------------------------
Serving == phase \notin {"anchor", "over"}

(* Mutant: a failing step is run again as often as it fails. *)
RaisesUnbounded ==
  /\ Serving
  /\ phase' = FirstPhase
  /\ attempts' = 0 /\ handled' = <<>> /\ giveups' = <<>>
  /\ callers' = <<>> /\ taken' = <<>> /\ orders' = <<>>
  /\ Forget /\ cur' = 0 /\ item' = 0
  /\ unsure' = TRUE
  /\ UNCHANGED <<mode, tries, goal, score>>

(* The step raises: Task.run runs it again from the top, with the orders kept
   and everything local gone, or gives it up. *)
Raises ==
  /\ Serving /\ (tries + 1 < Tries => Len(orders) <= RaiseBound[mode])
  /\ tries' = tries + 1
  /\ phase' = IF tries' < Tries THEN FirstPhase ELSE "over"
  /\ attempts' = 0 /\ handled' = <<>> /\ giveups' = <<>>
  /\ callers' = <<>> /\ taken' = <<>>
  /\ Forget /\ cur' = 0 /\ item' = 0
  /\ unsure' = (unsure \/ orders # <<>>)
  /\ UNCHANGED <<mode, orders, goal, score>>

Next ==
  \/ Anchors \/ AnchorFails
  \/ ScanFinds \/ ScanFindsNobody \/ ScanEnds
  \/ Sweep \/ GatherNext \/ GatherEnds \/ DeliverNext
  \/ ApproachRefines \/ ApproachRecovers \/ ApproachFails \/ ApproachReaches
  \/ AskFails \/ AskUnderstood
  \/ Relay \/ Load \/ Carry \/ CarryLost \/ Present
  \/ Pick \/ PickFails \/ PickEnds \/ Bring \/ BringLost \/ Place
  \/ Raises

Spec == Init /\ [][Next]_vars

(* One thread runs the task, and every call it makes returns. *)
FairSpec == Spec /\ WF_vars(Next)

-----------------------------------------------------------------------------
(* Properties *)

Points == Int \cup {NoFix}
Order == [at : Points, status : Statuses, items : Sizes \cup {0},
          who : Customers \cup {NoOne}, got : Nat, gave : Nat]

(* Type correctness of the task's state; of no order more items are received or
   handed over than were ordered. *)
TypeOK ==
  /\ mode \in Modes
  /\ phase \in {"anchor", "scan", "sweep", "gather", "deliver", "approach", "ask", "relay",
                "load", "carry", "present", "pick", "bring", "place", "over"}
  /\ tries \in 0..Tries /\ attempts \in 0..(Target + ExtraAttempts)
  /\ handled \in Seq(Int) /\ Len(handled) <= Target
  /\ giveups \in Seq([at : Int, fails : Nat])
  /\ callers \in Seq([who : Customers, at : Int]) /\ taken \in Seq(Nat)
  /\ orders \in Seq(Order) /\ cur \in 0..Len(orders)
  /\ \A o \in 1..Len(orders) :
       orders[o].got <= orders[o].items /\ orders[o].gave <= orders[o].items
  /\ caller \in [who : Customers \cup {NoOne}, at : Points] /\ target \in Int
  /\ steps \in 0..MaxSteps /\ item \in Nat
  /\ goal \in {"bar", "room"} /\ unsure \in BOOLEAN
  /\ score \in [Lines -> Nat] /\ \A l \in Lines : score[l] <= MaxUnits[l]

OrdersOf(c) == {o \in 1..Len(orders) : orders[o].who = c}

(* "We loop until this many DISTINCT customers are handled": a customer who
   keeps waving is not asked for a second order, as long as every sighting was
   exact, nobody was lost on the way and the step was not run again. *)
OneOrderEachIfSure ==
  unsure \/ \A c \in Customers : Cardinality(OrdersOf(c)) <= 1

(* The same whatever happens: "a still-waving customer re-seen on a later sweep
   can't be served twice".  The code falsifies it (README, section 6), and no run
   checks it. *)
OneOrderEach == \A c \in Customers : Cardinality(OrdersOf(c)) <= 1

(* "One uncooperative caller can't burn every attempt": with exact sightings no
   customer costs more than MaxFails failed orders, so that attempts are left. *)
FailuresAt(p) ==
  {o \in 1..Len(orders) : orders[o].status = "FAILED" /\ orders[o].at = p}
PatienceBounded ==
  unsure \/ \A c \in Customers : Cardinality(FailuresAt(Seat[c])) <= MaxFails

(* A served order is one whose customer was heard to have taken the items, or
   got them placed, and every such order is called served when its delivery is
   over; the score sheet claims exactly the items confirmed on both sides. *)
Got  == [o \in 1..Len(orders) |-> orders[o].got]
Gave == [o \in 1..Len(orders) |-> orders[o].gave]
UpTo(counts) ==
  LET sum[n \in 0..Len(counts)] == IF n = 0 THEN 0 ELSE sum[n - 1] + counts[n] IN sum
Total(counts) == UpTo(counts)[Len(counts)]
Claimed(line, n) == score[line] = IF n > MaxUnits[line] THEN MaxUnits[line] ELSE n
ServedIsConfirmed ==
  /\ \A o \in 1..Len(orders) :
       /\ orders[o].status = "SERVED" => orders[o].gave > 0
       /\ phase \in {"scan", "deliver"} /\ tries = 0 /\ orders[o].gave > 0
            => orders[o].status = "SERVED"
  /\ Claimed("pickup_items", Total(Got))
  /\ Claimed("serve_order", Total(Gave))

(* The task comes to its end: neither an empty room nor a customer who never
   orders, nor a step that raises, keeps it going. *)
TaskEnds == <>(phase = "over")
=============================================================================

-------------------------- MODULE RestaurantProofs --------------------------
(***************************************************************************)
(* What holds of the Restaurant task for any number of customers, seats,   *)
(* biases, targets, attempts, batches and settings: what is served was     *)
(* confirmed; and, when no two customers sit within the re-acquire radius  *)
(* of each other, one order each and bounded patience.                     *)
(***************************************************************************)
EXTENDS Restaurant, FiniteSetTheorems, FunctionTheorems, SequenceTheorems,
        WellFoundedInduction, NaturalsInduction, TLAPS

Approaching == {"approach", "ask"}
Trips == {"pick", "bring", "place"}
Working == Approaching \cup Trips \cup {"relay", "load", "carry", "present"}

OrdersOK ==
  /\ orders \in Seq(Order) /\ cur \in 0..Len(orders)
  /\ \A o \in 1..Len(orders) :
       orders[o].got <= orders[o].items /\ orders[o].gave <= orders[o].items

RestOK ==
  /\ mode \in Modes
  /\ phase \in Working \cup {"anchor", "scan", "sweep", "gather", "deliver", "over"}
  /\ tries \in 0..Tries /\ attempts \in 0..(Target + ExtraAttempts)
  /\ handled \in Seq(Int) /\ Len(handled) <= Target
  /\ giveups \in Seq([at : Int, fails : Nat])
  /\ callers \in Seq([who : Customers, at : Int]) /\ taken \in Seq(Nat)
  /\ caller \in [who : Customers \cup {NoOne}, at : Points] /\ target \in Int
  /\ steps \in 0..MaxSteps /\ item \in Nat
  /\ goal \in {"bar", "room"} /\ unsure \in BOOLEAN
  /\ score \in [Lines -> Nat] /\ \A l \in Lines : score[l] <= MaxUnits[l]

(* An order in hand exists, and so do those to deliver; the sighting in hand is *)
(* of somebody, with a point unless the live scan found it by its bearing; a    *)
(* batch has marked a seat for every order it has taken.                        *)
Placed ==
  /\ phase # "over" => tries < Tries
  /\ phase \in Working => cur \in 1..Len(orders)
  /\ phase \in {"anchor", "sweep"} => handled = <<>> /\ taken = <<>>
  /\ phase = "anchor" => orders = <<>>
  /\ phase \in Approaching =>
       /\ caller.who \in Customers
       /\ Len(handled) < Target
       /\ mode.batched \/ ~mode.live => caller.at \in Int
  /\ phase = "ask" => orders[cur].at \in Int
  /\ mode.batched /\ phase \in Approaching \cup {"gather"} => Len(handled) = Len(taken)
  /\ mode.batched => phase # "scan"
  /\ ~mode.batched => phase \notin {"sweep", "gather", "deliver"}
  /\ \A i \in 1..Len(taken) : taken[i] \in 1..Len(orders)

(* Nothing of the order has been received or handed over.                       *)
Fresh(o) ==
  /\ orders[o].got = 0 /\ orders[o].gave = 0
  /\ orders[o].status \notin {"SERVED", "FAILED"}

(* How far the order in hand and those of the batch are.                        *)
Pending ==
  /\ \A i \in 1..Len(taken) :
       /\ Fresh(taken[i]) /\ orders[taken[i]].items > 0
       /\ phase \in Working => taken[i] # cur
       /\ \A j \in 1..Len(taken) : taken[i] = taken[j] => i = j
  /\ phase \in Approaching \cup {"relay", "load"} => Fresh(cur)
  /\ phase \in Approaching \cup {"relay"} => item = 0
  /\ phase \in Working \ Approaching =>
       orders[cur].items > 0 /\ orders[cur].status \notin {"SERVED", "FAILED"}
  /\ phase \in {"carry", "present"} => orders[cur].gave = 0
  /\ phase \in Trips =>
       /\ orders[cur].got <= item /\ item <= orders[cur].items
       /\ orders[cur].gave + (IF phase = "pick" THEN 0 ELSE 1) <= orders[cur].got

(* Served orders were handed over; what was handed over is called served, once *)
(* its delivery is over, unless the step was run again.                        *)
Honest ==
  \A o \in 1..Len(orders) :
    /\ orders[o].status = "SERVED" => orders[o].gave > 0
    /\ tries = 0 /\ orders[o].gave > 0 /\ orders[o].status # "SERVED"
         => o = cur /\ phase \in Trips

Books ==
  /\ Claimed("pickup_items", Total(Got))
  /\ Claimed("serve_order", Total(Gave))

ServiceInv == OrdersOK /\ RestOK /\ Placed /\ Pending /\ Honest /\ Books

-----------------------------------------------------------------------------
(* The assumptions on the constants, taken apart.                              *)
LEMMA Counts ==
  /\ HandledRadius \in Nat /\ ReacquireRadius \in Nat /\ ServeRadius \in Nat
  /\ ExtraAttempts \in Nat /\ MaxSteps \in Nat
  /\ Target \in Nat \ {0} /\ MaxFails \in Nat \ {0} /\ BatchSize \in Nat \ {0}
  /\ Tries \in Nat \ {0}
<1>1. /\ {HandledRadius, ReacquireRadius, ServeRadius, ExtraAttempts, MaxSteps} \subseteq Nat
      /\ {Target, MaxFails, BatchSize, Tries} \subseteq Nat \ {0}
  BY RestaurantAssumption, Zenon
<1> QED BY <1>1

LEMMA Room ==
  /\ NoOne \notin Customers /\ NoFix \notin Int
  /\ Seat \in [Customers -> Nat] /\ Biases \subseteq Int
  /\ Sizes \subseteq Nat \ {0} /\ MaxUnits \in [Lines -> Nat]
  BY RestaurantAssumption, Zenon

LEMMA Settings ==
  Modes \subseteq [live : BOOLEAN, batched : BOOLEAN, tray : BOOLEAN, arm : BOOLEAN]
  BY RestaurantAssumption, Zenon

-----------------------------------------------------------------------------
(* Steps on the list of orders.                                                *)

(* What each field of an order is.                                             *)
LEMMA FieldsOf ==
  ASSUME orders \in Seq(Order), NEW o \in 1..Len(orders)
  PROVE  /\ orders[o] \in Order
         /\ orders[o].at \in Points /\ orders[o].status \in Statuses
         /\ orders[o].items \in Sizes \cup {0} /\ orders[o].items \in Nat
         /\ orders[o].who \in Customers \cup {NoOne}
         /\ orders[o].got \in Nat /\ orders[o].gave \in Nat
<1>1. orders[o] \in Order
  BY ElementOfSeq
<1>2. /\ orders[o].at \in Points /\ orders[o].status \in Statuses
      /\ orders[o].items \in Sizes \cup {0} /\ orders[o].who \in Customers \cup {NoOne}
      /\ orders[o].got \in Nat /\ orders[o].gave \in Nat
  BY <1>1 DEF Order
<1>3. orders[o].items \in Nat
  <2>1. Sizes \subseteq Nat \ {0}
    BY Room, Zenon
  <2>2. \A x \in Sizes \cup {0} : x \in Nat
    BY <2>1
  <2> QED BY <1>2, <2>2, Zenon
<1> QED BY <1>1, <1>2, <1>3

(* The fields of the order in hand become these, the others stay.              *)
Wrote(p, s, n, c, g, h) ==
  /\ orders' \in Seq(Order) /\ Len(orders') = Len(orders)
  /\ orders'[cur].at = p /\ orders'[cur].status = s /\ orders'[cur].items = n
  /\ orders'[cur].who = c /\ orders'[cur].got = g /\ orders'[cur].gave = h
  /\ \A o \in 1..Len(orders) : o # cur => orders'[o] = orders[o]

LEMMA WroteOne ==
  ASSUME orders \in Seq(Order), cur \in 1..Len(orders), NEW r \in Order,
         orders' = [orders EXCEPT ![cur] = r]
  PROVE  Wrote(r.at, r.status, r.items, r.who, r.got, r.gave)
<1>1. DOMAIN orders = 1..Len(orders) /\ Len(orders) \in Nat
  BY LenProperties
<1>2. orders' \in Seq(Order) /\ Len(orders') = Len(orders)
  <2>1. /\ [orders EXCEPT ![cur] = r] \in Seq(Order)
        /\ Len([orders EXCEPT ![cur] = r]) = Len(orders)
    BY <1>1, ExceptSeq
  <2> QED BY <2>1
<1>3. orders'[cur] = r /\ \A o \in 1..Len(orders) : o # cur => orders'[o] = orders[o]
  BY <1>1
<1>4. /\ orders'[cur].at = r.at /\ orders'[cur].status = r.status
      /\ orders'[cur].items = r.items /\ orders'[cur].who = r.who
      /\ orders'[cur].got = r.got /\ orders'[cur].gave = r.gave
  BY <1>3, Zenon
<1> QED BY <1>2, <1>3, <1>4, Zenon DEF Wrote

LEMMA StatusWrites ==
  ASSUME orders \in Seq(Order), cur \in 1..Len(orders), NEW s \in Statuses,
         Status(cur, s)
  PROVE  Wrote(orders[cur].at, s, orders[cur].items, orders[cur].who, orders[cur].got,
               orders[cur].gave)
<1> DEFINE r == [orders[cur] EXCEPT !.status = s]
<1>1. r \in Order /\ r.status = s /\ r.at = orders[cur].at /\ r.items = orders[cur].items
      /\ r.who = orders[cur].who /\ r.got = orders[cur].got /\ r.gave = orders[cur].gave
  BY FieldsOf DEF Order
<1>2. orders' = [orders EXCEPT ![cur] = r]
  BY DEF Status
<1> HIDE DEF r
<1>3. Wrote(r.at, r.status, r.items, r.who, r.got, r.gave)
  BY <1>1, <1>2, WroteOne
<1> QED BY <1>1, <1>3

LEMMA ReachWrites ==
  ASSUME orders \in Seq(Order), cur \in 1..Len(orders), NEW p \in Points,
         orders' = [orders EXCEPT ![cur].at = p, ![cur].status = "APPROACHED"]
  PROVE  Wrote(p, "APPROACHED", orders[cur].items, orders[cur].who, orders[cur].got,
               orders[cur].gave)
<1> DEFINE r == [orders[cur] EXCEPT !.at = p, !.status = "APPROACHED"]
<1>1. r \in Order /\ r.status = "APPROACHED" /\ r.at = p /\ r.items = orders[cur].items
      /\ r.who = orders[cur].who /\ r.got = orders[cur].got /\ r.gave = orders[cur].gave
  BY FieldsOf DEF Order, Statuses
<1>2. orders' = [orders EXCEPT ![cur] = r]
  BY LenProperties
<1> HIDE DEF r
<1>3. Wrote(r.at, r.status, r.items, r.who, r.got, r.gave)
  BY <1>1, <1>2, WroteOne
<1> QED BY <1>1, <1>3

LEMMA OrderedWrites ==
  ASSUME orders \in Seq(Order), cur \in 1..Len(orders), NEW c \in Customers, NEW n \in Sizes,
         Ordered(c, n)
  PROVE  Wrote(orders[cur].at, "ORDERED", n, c, orders[cur].got, orders[cur].gave)
<1> DEFINE r == [orders[cur] EXCEPT !.status = "ORDERED", !.items = n, !.who = c]
<1>1. r \in Order /\ r.status = "ORDERED" /\ r.at = orders[cur].at /\ r.items = n
      /\ r.who = c /\ r.got = orders[cur].got /\ r.gave = orders[cur].gave
  BY FieldsOf DEF Order, Statuses
<1>2. orders' = [orders EXCEPT ![cur] = r]
  BY LenProperties DEF Ordered
<1> HIDE DEF r
<1>3. Wrote(r.at, r.status, r.items, r.who, r.got, r.gave)
  BY <1>1, <1>2, WroteOne
<1> QED BY <1>1, <1>3

LEMMA PickedWrites ==
  ASSUME orders \in Seq(Order), cur \in 1..Len(orders), NEW n \in Nat,
         orders' = [orders EXCEPT ![cur].status = "PICKED", ![cur].got = n]
  PROVE  Wrote(orders[cur].at, "PICKED", orders[cur].items, orders[cur].who, n,
               orders[cur].gave)
<1> DEFINE r == [orders[cur] EXCEPT !.status = "PICKED", !.got = n]
<1>1. r \in Order /\ r.status = "PICKED" /\ r.at = orders[cur].at /\ r.items = orders[cur].items
      /\ r.who = orders[cur].who /\ r.got = n /\ r.gave = orders[cur].gave
  BY FieldsOf DEF Order, Statuses
<1>2. orders' = [orders EXCEPT ![cur] = r]
  BY LenProperties
<1> HIDE DEF r
<1>3. Wrote(r.at, r.status, r.items, r.who, r.got, r.gave)
  BY <1>1, <1>2, WroteOne
<1> QED BY <1>1, <1>3

LEMMA FoundWrites ==
  ASSUME orders \in Seq(Order), cur \in 1..Len(orders), NEW p \in Points,
         orders' = [orders EXCEPT ![cur].at = p]
  PROVE  Wrote(p, orders[cur].status, orders[cur].items, orders[cur].who, orders[cur].got,
               orders[cur].gave)
<1> DEFINE r == [orders[cur] EXCEPT !.at = p]
<1>1. r \in Order /\ r.status = orders[cur].status /\ r.at = p /\ r.items = orders[cur].items
      /\ r.who = orders[cur].who /\ r.got = orders[cur].got /\ r.gave = orders[cur].gave
  BY FieldsOf DEF Order
<1>2. orders' = [orders EXCEPT ![cur] = r]
  OBVIOUS
<1> HIDE DEF r
<1>3. Wrote(r.at, r.status, r.items, r.who, r.got, r.gave)
  BY <1>1, <1>2, WroteOne
<1> QED BY <1>1, <1>3

LEMMA ServedWrites ==
  ASSUME orders \in Seq(Order), cur \in 1..Len(orders), NEW n \in Nat,
         orders' = [orders EXCEPT ![cur].status = "SERVED", ![cur].gave = n]
  PROVE  Wrote(orders[cur].at, "SERVED", orders[cur].items, orders[cur].who,
               orders[cur].got, n)
<1> DEFINE r == [orders[cur] EXCEPT !.status = "SERVED", !.gave = n]
<1>1. r \in Order /\ r.status = "SERVED" /\ r.at = orders[cur].at /\ r.items = orders[cur].items
      /\ r.who = orders[cur].who /\ r.got = orders[cur].got /\ r.gave = n
  BY FieldsOf DEF Order, Statuses
<1>2. orders' = [orders EXCEPT ![cur] = r]
  BY LenProperties
<1> HIDE DEF r
<1>3. Wrote(r.at, r.status, r.items, r.who, r.got, r.gave)
  BY <1>1, <1>2, WroteOne
<1> QED BY <1>1, <1>3

LEMMA PlacedWrites ==
  ASSUME orders \in Seq(Order), cur \in 1..Len(orders), NEW n \in Nat,
         orders' = [orders EXCEPT ![cur].gave = n]
  PROVE  Wrote(orders[cur].at, orders[cur].status, orders[cur].items, orders[cur].who,
               orders[cur].got, n)
<1> DEFINE r == [orders[cur] EXCEPT !.gave = n]
<1>1. r \in Order /\ r.status = orders[cur].status /\ r.at = orders[cur].at
      /\ r.items = orders[cur].items /\ r.who = orders[cur].who
      /\ r.got = orders[cur].got /\ r.gave = n
  BY FieldsOf DEF Order
<1>2. orders' = [orders EXCEPT ![cur] = r]
  OBVIOUS
<1> HIDE DEF r
<1>3. Wrote(r.at, r.status, r.items, r.who, r.got, r.gave)
  BY <1>1, <1>2, WroteOne
<1> QED BY <1>1, <1>3

(* The loop after the last trip: served if any item was placed.                *)
LEMMA ConcludeWrites ==
  ASSUME orders \in Seq(Order), cur \in 1..Len(orders), Conclude
  PROVE  Wrote(orders[cur].at,
               IF orders[cur].gave > 0 THEN "SERVED" ELSE orders[cur].status,
               orders[cur].items, orders[cur].who, orders[cur].got, orders[cur].gave)
<1>1. CASE orders[cur].gave > 0
  BY <1>1, StatusWrites DEF Conclude, Status, Statuses
<1>2. CASE ~(orders[cur].gave > 0)
  BY <1>2, StatusWrites, FieldsOf DEF Conclude, Status
<1> QED BY <1>1, <1>2

(* A new order, for a sighting, at the end of the list and in hand.            *)
LEMMA BeginWrites ==
  ASSUME orders \in Seq(Order), NEW call, call.at \in Points, BeginOrder(call)
  PROVE  /\ orders' \in Seq(Order) /\ Len(orders') = Len(orders) + 1
         /\ cur' = Len(orders) + 1
         /\ \A o \in 1..Len(orders) : orders'[o] = orders[o]
         /\ orders'[cur'].at = call.at /\ orders'[cur'].status = "DETECTED"
         /\ orders'[cur'].items = 0 /\ orders'[cur'].who = NoOne
         /\ orders'[cur'].got = 0 /\ orders'[cur'].gave = 0
<1> DEFINE r == [at |-> call.at, status |-> "DETECTED", items |-> 0,
                 who |-> NoOne, got |-> 0, gave |-> 0]
<1>1. r \in Order
  BY DEF Order, Statuses
<1>2. orders' = Append(orders, r) /\ cur' = Len(orders) + 1
  BY DEF BeginOrder
<1>3. r.at = call.at /\ r.status = "DETECTED" /\ r.items = 0 /\ r.who = NoOne
      /\ r.got = 0 /\ r.gave = 0
  OBVIOUS
<1> HIDE DEF r
<1> QED BY <1>1, <1>2, <1>3, AppendProperties, LenProperties

LEMMA WroteOK ==
  ASSUME OrdersOK, cur \in 1..Len(orders), cur' = cur \/ cur' = 0,
         NEW p, NEW s, NEW n \in Nat, NEW c, NEW g \in Nat, NEW h \in Nat,
         g <= n, h <= n, Wrote(p, s, n, c, g, h)
  PROVE  OrdersOK'
<1>1. orders' \in Seq(Order) /\ Len(orders') = Len(orders) /\ cur' \in 0..Len(orders')
  BY LenProperties DEF Wrote, OrdersOK
<1>2. ASSUME NEW o \in 1..Len(orders')
      PROVE  orders'[o].got <= orders'[o].items /\ orders'[o].gave <= orders'[o].items
  <2>1. CASE o = cur
    BY <2>1 DEF Wrote
  <2>2. CASE o # cur
    BY <2>2, <1>1 DEF Wrote, OrdersOK
  <2> QED BY <2>1, <2>2
<1> QED BY <1>1, <1>2 DEF OrdersOK

(* An award adds what the line has left, and touches no other line.            *)
LEMMA AwardAdds ==
  ASSUME score \in [Lines -> Nat], \A l \in Lines : score[l] <= MaxUnits[l],
         NEW line \in Lines, NEW n \in Nat, score' = Award(score, line, n)
  PROVE  /\ score' \in [Lines -> Nat] /\ \A l \in Lines : score'[l] <= MaxUnits[l]
         /\ \A l \in Lines : l # line => score'[l] = score[l]
         /\ score'[line] = IF score[line] + n > MaxUnits[line] THEN MaxUnits[line]
                           ELSE score[line] + n
<1>1. MaxUnits \in [Lines -> Nat]
  BY Room, Zenon
<1> DEFINE v == IF score[line] + n > MaxUnits[line] THEN MaxUnits[line]
                ELSE score[line] + n
<1>2. v \in Nat /\ v <= MaxUnits[line]
  BY <1>1
<1>3. score' = [score EXCEPT ![line] = v]
  BY DEF Award
<1> HIDE DEF v
<1>4. score'[line] = v /\ score' \in [Lines -> Nat]
      /\ \A l \in Lines : l # line => score'[l] = score[l]
  BY <1>2, <1>3
<1> QED BY <1>2, <1>4 DEF v

-----------------------------------------------------------------------------
(* Points near points.                                                         *)
LEMMA NearPoints ==
  ASSUME NEW S \in SUBSET Customers, NEW p, NEW r
  PROVE  /\ PersonNear(p, r, S) \subseteq S
         /\ \A c \in PersonNear(p, r, S) : Near(Seat[c], p, r)
  BY DEF PersonNear, Within

LEMMA SeatIsPoint ==
  ASSUME NEW c \in Customers
  PROVE  Seat[c] \in Nat /\ Seat[c] \in Int /\ Seat[c] # NoFix /\ Seat[c] \in Points
<1>1. Seat \in [Customers -> Nat] /\ NoFix \notin Int
  BY Room, Zenon
<1> QED BY <1>1 DEF Points

LEMMA RefinedIsPoint ==
  ASSUME NEW p \in Int, NEW q \in Refined(p)
  PROVE  q \in Int
<1>1. \A v \in SUBSET Customers : PersonNear(p, ReacquireRadius, v) \subseteq Customers
  BY NearPoints
<1>2. q = p \/ \E c \in Customers : q = Seat[c]
  BY <1>1 DEF Refined
<1> QED BY <1>2, SeatIsPoint

LEMMA RefoundIsPoint ==
  ASSUME NEW q \in Refound
  PROVE  q \in Points
<1>1. PICK c \in UNION {PersonNear(orders[cur].at, ServeRadius, v)
                         \cup Captioned(Within(orders[cur].at, ServeRadius, v))
                         : v \in SUBSET Customers} : q = Seat[c]
  BY DEF Refound
<1>2. c \in Customers
  BY <1>1 DEF PersonNear, Captioned, Within
<1> QED BY <1>1, <1>2, SeatIsPoint

LEMMA LiftsArePoints ==
  ASSUME NEW c \in Customers, NEW p \in Lifts(c)
  PROVE  p \in Int /\ p \in Points /\ p # NoFix
<1>1. Biases \subseteq Int /\ NoFix \notin Int
  BY Room, Zenon
<1>2. PICK b \in Biases : p = Seat[c] + b
  BY DEF Lifts
<1>3. Seat[c] \in Int /\ b \in Int
  BY <1>1, SeatIsPoint
<1> QED BY <1>1, <1>2, <1>3 DEF Points

LEMMA SightingKinds ==
  ASSUME NEW call \in Sightings
  PROVE  \/ \E c \in Customers : \E q \in Lifts(c) : call = [who |-> c, at |-> q]
         \/ call \in Bearings /\ mode.live
<1> DEFINE lifted == UNION {{[who |-> c, at |-> q] : q \in Lifts(c)} : c \in Customers}
<1>1. call \in lifted \cup IF mode.live THEN Bearings ELSE {}
  BY Zenon DEF Sightings
<1>2. call \in lifted => \E c \in Customers : \E q \in Lifts(c) : call = [who |-> c, at |-> q]
  OBVIOUS
<1> HIDE DEF lifted
<1>3. CASE mode.live
  BY <1>1, <1>2, <1>3, Zenon
<1>4. CASE ~mode.live
  <2>1. call \in lifted \cup {}
    BY <1>1, <1>4, Zenon
  <2> QED BY <2>1, <1>2, Zenon
<1> QED BY <1>3, <1>4, Zenon

LEMMA SightingIs ==
  ASSUME NEW call \in Sightings
  PROVE  /\ call \in [who : Customers, at : Points]
         /\ call.who \in Customers /\ call.at \in Points
         /\ call.at # NoFix => call.at \in Int
         /\ call.at = NoFix => mode.live
<1>1. CASE \E c \in Customers : \E q \in Lifts(c) : call = [who |-> c, at |-> q]
  BY <1>1, LiftsArePoints
<1>2. CASE call \in Bearings /\ mode.live
  BY <1>2 DEF Bearings, Points
<1>3. \/ \E c \in Customers : \E q \in Lifts(c) : call = [who |-> c, at |-> q]
      \/ call \in Bearings /\ mode.live
  BY SightingKinds
<1> QED BY <1>1, <1>2, <1>3

LEMMA SweptIs ==
  ASSUME NEW seen \in Swept
  PROVE  /\ seen \subseteq [who : Customers, at : Int]
         /\ \A s, t \in seen : s # t => s.at # t.at
<1>1. seen \subseteq Sightings /\ (\A s \in seen : s.at # NoFix) /\ Deduped(seen)
  BY DEF Swept
<1>2. ASSUME NEW s \in seen PROVE s \in [who : Customers, at : Int]
  BY <1>1, SightingIs
<1>3. ASSUME NEW s \in seen, NEW t \in seen, s # t PROVE s.at # t.at
  <2>1. ~Near(s.at, t.at, HandledRadius) /\ s.at \in Int /\ t.at \in Int
    BY <1>1, <1>2, <1>3 DEF Deduped
  <2> QED BY <2>1, <1>1, Counts DEF Near
<1> QED BY <1>2, <1>3

(* A sweep is finite, so it can be put in a row.                               *)
LEMMA SweptIsFinite ==
  ASSUME NEW seen \in Swept
  PROVE  IsFiniteSet(seen)
<1> DEFINE S == Customers \X Biases
           T == {s \in Sightings : s.at # NoFix}
           U == {[who |-> e[1], at |-> Seat[e[1]] + e[2]] : e \in S}
           f == [e \in S |-> [who |-> e[1], at |-> Seat[e[1]] + e[2]]]
<1>1. IsFiniteSet(S)
  <2>1. IsFiniteSet(Customers) /\ IsFiniteSet(Biases)
    BY RestaurantAssumption, Zenon
  <2> QED BY <2>1, FS_Product
<1>2. f \in Surjection(S, U)
  BY DEF Surjection
<1>3. IsFiniteSet(U)
  <2> HIDE DEF S, U, f
  <2> QED BY <1>1, <1>2, FS_Surjection
<1>4. ASSUME NEW s \in seen PROVE s \in U
  <2>1. s \in Sightings /\ s.at # NoFix
    BY DEF Swept
  <2>2. CASE s \in Bearings
    BY <2>1, <2>2 DEF Bearings
  <2>3. CASE \E c \in Customers : \E q \in Lifts(c) : s = [who |-> c, at |-> q]
    <3>1. PICK c \in Customers : \E q \in Lifts(c) : s = [who |-> c, at |-> q]
      BY <2>3
    <3>2. PICK b \in Biases : s = [who |-> c, at |-> Seat[c] + b]
      BY <3>1 DEF Lifts
    <3>3. <<c, b>> \in S /\ <<c, b>>[1] = c /\ <<c, b>>[2] = b
      BY <3>2
    <3> QED BY <3>2, <3>3
  <2> QED BY <2>1, <2>2, <2>3, SightingKinds
<1> HIDE DEF U
<1>5. seen \in SUBSET U
  BY <1>4
<1> QED BY <1>3, <1>5, FS_Subset

LEMMA RowIs ==
  ASSUME NEW seen \in Swept, NEW row \in NearestFirst(seen)
  PROVE  /\ row \in Seq([who : Customers, at : Int])
         /\ \A i, j \in 1..Len(row) : row[i].at = row[j].at => i = j
<1> DEFINE n == Cardinality(seen)
<1>1. n \in Nat
  BY SweptIsFinite, FS_CardinalityType
<1>2. row \in [1..n -> seen] /\ \A i, j \in 1..n : row[i] = row[j] => i = j
  BY DEF NearestFirst, Injection, IsInjective
<1> HIDE DEF n
<1>3. row \in Seq(seen) /\ Len(row) = n
  BY <1>1, <1>2
<1>4. row \in Seq([who : Customers, at : Int])
  <2> DEFINE W == [who : Customers, at : Int]
  <2>1. seen \subseteq W
    BY SweptIs
  <2> HIDE DEF W
  <2>2. row \in Seq(W)
    BY <1>1, <1>2, <2>1
  <2> QED BY <2>2 DEF W
<1>5. ASSUME NEW i \in 1..n, NEW j \in 1..n, row[i].at = row[j].at PROVE i = j
  <2>1. row[i] \in seen /\ row[j] \in seen
    BY <1>2
  <2>2. row[i] = row[j]
    BY <1>5, <2>1, SweptIs
  <2> QED BY <1>2, <2>2
<1> QED BY <1>3, <1>4, <1>5

-----------------------------------------------------------------------------
(* UpTo gives the running sums of a sequence of numbers: whatever satisfies    *)
(* its recursion ends in the Total.                                            *)

LEMMA LeastExists ==
  ASSUME NEW S \in SUBSET Nat, S # {}
  PROVE  \E x \in S : \A y \in S : x <= y
<1>1. PICK x \in S : \A y \in S : ~(<<y, x>> \in OpToRel(<, Nat))
  BY WFMin, NatLessThanWellFounded
<1>2. \A y \in S : ~(y < x)
  BY <1>1 DEF OpToRel
<1> QED BY <1>2

Sums(counts, f) ==
  /\ f[0] = 0
  /\ \A i \in 1..Len(counts) : f[i] = f[i - 1] + counts[i]

SumsUpto(counts, n) ==
  \E f \in [0..n -> Nat] : f[0] = 0 /\ \A i \in 1..n : f[i] = f[i - 1] + counts[i]

LEMMA SumExists ==
  ASSUME NEW counts \in Seq(Nat)
  PROVE  \E f \in [0..Len(counts) -> Nat] : Sums(counts, f)
<1> DEFINE L == Len(counts)
           Bad == {n \in 0..L : ~SumsUpto(counts, n)}
<1>1. L \in Nat /\ L \in 0..L /\ Bad \in SUBSET Nat
  OBVIOUS
<1>2. SUFFICES ASSUME Bad # {} PROVE FALSE
  BY <1>1 DEF Sums, SumsUpto
<1>3. PICK n \in Bad : \A m \in Bad : n <= m
  BY <1>1, <1>2, LeastExists
<1>4. CASE n = 0
  <2>1. [i \in 0..0 |-> 0] \in [0..0 -> Nat]
    OBVIOUS
  <2>2. SumsUpto(counts, 0)
    <3>1. [i \in 0..0 |-> 0][0] = 0 /\ 1..0 = {}
      OBVIOUS
    <3> QED BY <2>1, <3>1 DEF SumsUpto
  <2> QED BY <1>3, <1>4, <2>2
<1>5. CASE n # 0
  <2>1. n \in 0..L /\ n - 1 \in 0..L /\ ~(n <= n - 1)
    BY <1>1, <1>3, <1>5
  <2>2. SumsUpto(counts, n - 1)
    BY <1>3, <2>1
  <2>3. PICK f \in [0..(n - 1) -> Nat] :
          f[0] = 0 /\ \A i \in 1..(n - 1) : f[i] = f[i - 1] + counts[i]
    BY <2>2 DEF SumsUpto
  <2> DEFINE g == [i \in 0..n |-> IF i = n THEN f[n - 1] + counts[n] ELSE f[i]]
  <2>4. counts[n] \in Nat /\ f[n - 1] \in Nat /\ f[n - 1] + counts[n] \in Nat
    BY <2>1, <2>3, <1>5
  <2>5. g \in [0..n -> Nat] /\ g[0] = 0
    BY <1>5, <2>1, <2>3, <2>4
  <2>6. \A i \in 1..n : g[i] = g[i - 1] + counts[i]
    BY <1>5, <2>1, <2>3
  <2>7. SumsUpto(counts, n)
    BY <2>5, <2>6 DEF SumsUpto
  <2> QED BY <1>3, <2>7
<1> QED BY <1>4, <1>5

LEMMA SumsAgree ==
  ASSUME NEW counts \in Seq(Nat), NEW f, NEW g, Sums(counts, f), Sums(counts, g)
  PROVE  \A i \in 0..Len(counts) : f[i] = g[i]
<1> DEFINE Bad == {i \in 0..Len(counts) : f[i] # g[i]}
<1>1. SUFFICES ASSUME Bad # {} PROVE FALSE
  OBVIOUS
<1>2. PICK n \in Bad : \A m \in Bad : n <= m
  <2>1. Bad \in SUBSET Nat
    OBVIOUS
  <2> QED BY <1>1, <2>1, LeastExists
<1>3. n # 0
  BY <1>2 DEF Sums
<1>4. n \in 1..Len(counts) /\ n - 1 \in 0..Len(counts) /\ ~(n <= n - 1)
  BY <1>2, <1>3
<1>5. n - 1 \notin Bad
  BY <1>2, <1>4
<1>6. f[n - 1] = g[n - 1]
  BY <1>4, <1>5
<1>7. f[n] = f[n - 1] + counts[n] /\ g[n] = g[n - 1] + counts[n]
  BY <1>4 DEF Sums
<1> QED BY <1>2, <1>6, <1>7

LEMMA TotalBySums ==
  ASSUME NEW counts \in Seq(Nat), NEW f, Sums(counts, f)
  PROVE  Total(counts) = f[Len(counts)] /\ Total(counts) \in Nat
<1>1. PICK s \in [0..Len(counts) -> Nat] : Sums(counts, s)
  BY SumExists
<1>2. s = [i \in 0..Len(counts) |-> IF i = 0 THEN 0 ELSE s[i - 1] + counts[i]]
  BY <1>1 DEF Sums
<1>3. UpTo(counts) = [i \in 0..Len(counts) |->
                IF i = 0 THEN 0 ELSE UpTo(counts)[i - 1] + counts[i]]
  BY <1>2 DEF UpTo
<1>4. Sums(counts, UpTo(counts))
  <2> DEFINE t == UpTo(counts)
  <2> HIDE DEF t
  <2>1. t = [i \in 0..Len(counts) |-> IF i = 0 THEN 0 ELSE t[i - 1] + counts[i]]
    BY <1>3 DEF t
  <2>2. Sums(counts, t)
    <3>1. t[0] = 0
      BY <2>1
    <3>2. ASSUME NEW i \in 1..Len(counts) PROVE t[i] = t[i - 1] + counts[i]
      <4>1. i \in 0..Len(counts) /\ i # 0
        OBVIOUS
      <4>2. t[i] = IF i = 0 THEN 0 ELSE t[i - 1] + counts[i]
        BY <2>1, <4>1, Zenon
      <4> QED BY <4>1, <4>2
    <3> QED BY <3>1, <3>2 DEF Sums
  <2> QED BY <2>2 DEF t
<1>5. Total(counts) = UpTo(counts)[Len(counts)]
  BY Zenon DEF Total
<1>6. Len(counts) \in 0..Len(counts)
  OBVIOUS
<1> QED BY <1>1, <1>4, <1>5, <1>6, SumsAgree

LEMMA TotalOfNone == Total(<<>>) = 0
<1> DEFINE f == [i \in 0..0 |-> 0]
<1>1. <<>> \in Seq(Nat) /\ Len(<<>>) = 0 /\ f[0] = 0
  OBVIOUS
<1>2. Sums(<<>>, f)
  BY <1>1 DEF Sums
<1> QED BY <1>1, <1>2, TotalBySums

LEMMA TotalOfMore ==
  ASSUME NEW counts \in Seq(Nat), NEW j \in 1..Len(counts), NEW k \in Nat
  PROVE  Total([counts EXCEPT ![j] = @ + k]) = Total(counts) + k
<1> DEFINE L == Len(counts)
<1>1. PICK f \in [0..L -> Nat] : Sums(counts, f)
  BY SumExists
<1> DEFINE more == [counts EXCEPT ![j] = @ + k]
           g == [i \in 0..L |-> IF i < j THEN f[i] ELSE f[i] + k]
<1>2. more \in Seq(Nat) /\ Len(more) = L /\ L \in Nat
      /\ \A i \in 1..L : more[i] = IF i = j THEN counts[i] + k ELSE counts[i]
  OBVIOUS
<1>3. Sums(more, g)
  <2> HIDE DEF more
  <2>1. g[0] = 0
    BY <1>1, <1>2 DEF Sums
  <2>2. ASSUME NEW i \in 1..L PROVE g[i] = g[i - 1] + more[i]
    <3>1. i \in 0..L /\ i - 1 \in 0..L
      BY <1>2
    <3>2. counts[i] \in Nat /\ f[i] \in Nat /\ f[i - 1] \in Nat
      <4>1. f[i] \in Nat /\ f[i - 1] \in Nat
        BY <3>1
      <4> QED BY <1>2, <4>1
    <3>3. f[i] = f[i - 1] + counts[i]
      BY <1>1 DEF Sums
    <3>4. /\ g[i] = IF i < j THEN f[i] ELSE f[i] + k
          /\ g[i - 1] = IF i - 1 < j THEN f[i - 1] ELSE f[i - 1] + k
          /\ more[i] = IF i = j THEN counts[i] + k ELSE counts[i]
      BY <1>2, <3>1
    <3> HIDE DEF g
    <3>5. CASE i < j
      <4>1. i - 1 < j /\ i # j
        BY <1>2, <3>5
      <4> QED BY <3>3, <3>4, <3>5, <4>1
    <3>6. CASE i = j
      <4>1. i - 1 < j /\ ~(i < j)
        BY <1>2, <3>6
      <4> QED BY <3>2, <3>3, <3>4, <3>6, <4>1
    <3>7. CASE i > j
      <4>1. ~(i - 1 < j) /\ ~(i < j) /\ i # j
        BY <1>2, <3>7
      <4> QED BY <3>2, <3>3, <3>4, <4>1
    <3> QED BY <1>2, <3>5, <3>6, <3>7
  <2> QED BY <1>2, <2>1, <2>2 DEF Sums
<1>4. g[L] = f[L] + k
  BY <1>2
<1> QED BY <1>1, <1>2, <1>3, <1>4, TotalBySums

LEMMA TotalWithZeros ==
  ASSUME NEW counts \in Seq(Nat), NEW more \in Seq(Nat), Len(counts) <= Len(more),
         \A i \in 1..Len(more) : more[i] = IF i <= Len(counts) THEN counts[i] ELSE 0
  PROVE  Total(more) = Total(counts)
<1> DEFINE L == Len(counts)
           M == Len(more)
<1>1. PICK f \in [0..L -> Nat] : Sums(counts, f)
  BY SumExists
<1> DEFINE g == [i \in 0..M |-> IF i <= L THEN f[i] ELSE f[L]]
<1>2. L \in Nat /\ M \in Nat
  OBVIOUS
<1>3. Sums(more, g)
  <2>1. g[0] = 0
    BY <1>1, <1>2 DEF Sums
  <2>2. ASSUME NEW i \in 1..M PROVE g[i] = g[i - 1] + more[i]
    <3>1. i \in 0..M /\ i - 1 \in 0..M
      BY <1>2
    <3>2. CASE i <= L
      <4>1. f[i] = f[i - 1] + counts[i]
        BY <1>1, <1>2, <3>2 DEF Sums
      <4> QED BY <1>2, <3>1, <3>2, <4>1
    <3>3. CASE i > L
      <4>1. g[i] = f[L] /\ g[i - 1] = f[L] /\ more[i] = 0 /\ f[L] \in Nat
        BY <1>1, <1>2, <3>1, <3>3
      <4> QED BY <4>1
    <3> QED BY <1>2, <3>2, <3>3
  <2> QED BY <2>1, <2>2 DEF Sums
<1>4. g[M] = f[L]
  BY <1>2
<1> QED BY <1>1, <1>2, <1>3, <1>4, TotalBySums


-----------------------------------------------------------------------------
(* The totals of what was received and handed over.                            *)

LEMMA GotIs ==
  ASSUME orders \in Seq(Order)
  PROVE  /\ Got \in Seq(Nat) /\ Len(Got) = Len(orders)
         /\ Gave \in Seq(Nat) /\ Len(Gave) = Len(orders)
<1>1. Len(orders) \in Nat /\ \A o \in 1..Len(orders) :
                               orders[o].got \in Nat /\ orders[o].gave \in Nat
  BY FieldsOf, LenProperties
<1> QED BY <1>1 DEF Got, Gave

LEMMA TotalsOfWrote ==
  ASSUME orders \in Seq(Order), cur \in 1..Len(orders), NEW p, NEW s, NEW n, NEW c,
         NEW dg \in Nat, NEW dh \in Nat,
         Wrote(p, s, n, c, orders[cur].got + dg, orders[cur].gave + dh)
  PROVE  Total(Got)' = Total(Got) + dg /\ Total(Gave)' = Total(Gave) + dh
<1>1. orders' \in Seq(Order) /\ Len(orders') = Len(orders)
  BY DEF Wrote
<1>2. /\ Got \in Seq(Nat) /\ Len(Got) = Len(orders)
      /\ Gave \in Seq(Nat) /\ Len(Gave) = Len(orders)
  BY GotIs
<1>3. Got' = [Got EXCEPT ![cur] = @ + dg]
  BY <1>1 DEF Got, Wrote
<1>4. Gave' = [Gave EXCEPT ![cur] = @ + dh]
  BY <1>1 DEF Gave, Wrote
<1>5. Total(Got') = Total(Got) + dg
  BY <1>2, <1>3, TotalOfMore
<1>6. Total(Gave') = Total(Gave) + dh
  BY <1>2, <1>4, TotalOfMore
<1> QED BY <1>5, <1>6

LEMMA TotalsOfBegun ==
  ASSUME orders \in Seq(Order), orders' \in Seq(Order), Len(orders') = Len(orders) + 1,
         \A o \in 1..Len(orders) : orders'[o] = orders[o],
         orders'[Len(orders) + 1].got = 0, orders'[Len(orders) + 1].gave = 0
  PROVE  Total(Got)' = Total(Got) /\ Total(Gave)' = Total(Gave)
<1> DEFINE got == [o \in 1..Len(orders') |-> orders'[o].got]
           gave == [o \in 1..Len(orders') |-> orders'[o].gave]
<1>1. /\ Got \in Seq(Nat) /\ Len(Got) = Len(orders)
      /\ Gave \in Seq(Nat) /\ Len(Gave) = Len(orders)
  BY GotIs
<1>2. got \in Seq(Nat) /\ Len(got) = Len(orders) + 1
      /\ gave \in Seq(Nat) /\ Len(gave) = Len(orders) + 1
  <2>1. \A o \in 1..Len(orders') : orders'[o].got \in Nat /\ orders'[o].gave \in Nat
    <3>1. \A o \in 1..Len(orders) : orders[o].got \in Nat /\ orders[o].gave \in Nat
      BY FieldsOf
    <3> QED BY <3>1, LenProperties
  <2> QED BY <2>1, LenProperties
<1>3. \A o \in 1..Len(got) : got[o] = IF o <= Len(Got) THEN Got[o] ELSE 0
  BY <1>1, <1>2, LenProperties DEF Got
<1>4. \A o \in 1..Len(gave) : gave[o] = IF o <= Len(Gave) THEN Gave[o] ELSE 0
  BY <1>1, <1>2, LenProperties DEF Gave
<1>5. Got' = got /\ Gave' = gave
  BY DEF Got, Gave
<1> HIDE DEF got, gave
<1>6. Len(Got) <= Len(got) /\ Len(Gave) <= Len(gave)
  BY <1>1, <1>2, LenProperties
<1>7. Total(got) = Total(Got) /\ Total(gave) = Total(Gave)
  BY <1>1, <1>2, <1>3, <1>4, <1>6, TotalWithZeros
<1> QED BY <1>5, <1>7

(* A claim follows what is confirmed.                                          *)
LEMMA ClaimsFollow ==
  ASSUME score \in [Lines -> Nat], \A l \in Lines : score[l] <= MaxUnits[l],
         NEW line \in Lines, NEW n \in Nat, NEW t \in Nat, Claimed(line, t),
         score' = Award(score, line, n)
  PROVE  score'[line] = IF t + n > MaxUnits[line] THEN MaxUnits[line] ELSE t + n
<1>1. MaxUnits[line] \in Nat /\ score[line] \in Nat
  BY Room, Zenon
<1>2. score[line] = IF t > MaxUnits[line] THEN MaxUnits[line] ELSE t
  BY DEF Claimed
<1>3. score'[line] = IF score[line] + n > MaxUnits[line] THEN MaxUnits[line]
                     ELSE score[line] + n
  BY AwardAdds
<1> QED BY <1>1, <1>2, <1>3

-----------------------------------------------------------------------------
(* Steps that write nothing on an order.                                       *)

LEMMA BooksSame ==
  ASSUME Books, UNCHANGED <<orders, score>>
  PROVE  Books'
BY DEF Books, Claimed, Got, Gave

LEMMA OrdersSame ==
  ASSUME OrdersOK, UNCHANGED orders, cur' \in 0..Len(orders)
  PROVE  OrdersOK'
BY DEF OrdersOK

(* What the loops count up to.                                                 *)
LEMMA WantIs == Want \in Nat /\ Want <= Target
BY Counts DEF Want

LEMMA HeadIsMember ==
  ASSUME NEW S, NEW s \in Seq(S), s # <<>>
  PROVE  /\ Head(s) = s[1] /\ 1 \in 1..Len(s) /\ Head(s) \in S
         /\ Tail(s) \in Seq(S) /\ Len(Tail(s)) = Len(s) - 1
         /\ \A i \in 1..Len(Tail(s)) : Tail(s)[i] = s[i + 1] /\ i + 1 \in 1..Len(s)
BY HeadTailProperties, ElementOfSeq, LenProperties

LEMMA FirstPhaseIs ==
  /\ mode.batched => FirstPhase = "sweep"
  /\ ~mode.batched => FirstPhase = "scan"
BY Zenon DEF FirstPhase

LEMMA QuietPhases ==
  ASSUME ServiceInv,
         Anchors \/ AnchorFails \/ ScanFindsNobody \/ ScanEnds \/ GatherEnds
  PROVE  ServiceInv'
<1>1. OrdersOK' /\ Books' /\ UNCHANGED <<orders, cur, taken, item, score>>
  BY OrdersSame, BooksSame
     DEF ServiceInv, OrdersOK, Anchors, AnchorFails, ScanFindsNobody, ScanEnds,
         GatherEnds, batch, inHand
<1>2. CASE Anchors
  <2>1. RestOK'
    BY <1>2, Counts DEF ServiceInv, RestOK, Anchors, book, batch, inHand, sight, FirstPhase, Working, Approaching, Trips
  <2>2. Placed'
    BY <1>2, Counts, FirstPhaseIs DEF ServiceInv, Placed, Anchors, book, batch, inHand, sight, Working, Approaching, Trips
  <2>3. Pending' /\ Honest'
    BY <1>1, <1>2, FirstPhaseIs DEF ServiceInv, Placed, Pending, Honest, Fresh, Anchors, Working, Approaching, Trips
  <2> QED BY <1>1, <2>1, <2>2, <2>3 DEF ServiceInv
<1>3. CASE AnchorFails
  <2>1. RestOK'
    BY <1>3, Counts DEF ServiceInv, RestOK, AnchorFails, book, batch, inHand, sight, Working, Approaching, Trips, Placed
  <2>2. Placed'
    BY <1>3, Counts DEF ServiceInv, Placed, AnchorFails, RestOK, book, batch, inHand, sight, Working, Approaching, Trips
  <2>3. Pending' /\ Honest'
    BY <1>1, <1>3 DEF ServiceInv, Placed, Pending, Honest, Fresh, AnchorFails, Working, Approaching, Trips
  <2> QED BY <1>1, <2>1, <2>2, <2>3 DEF ServiceInv
<1>4. CASE ScanFindsNobody
  <2>1. RestOK'
    BY <1>4, Counts DEF ServiceInv, RestOK, ScanFindsNobody, SweepAgain, batch, inHand, sight
  <2>2. Placed' /\ Pending' /\ Honest'
    BY <1>4 DEF ServiceInv, Placed, Pending, Honest, Fresh, ScanFindsNobody, batch, inHand, sight
  <2> QED BY <1>1, <2>1, <2>2 DEF ServiceInv
<1>5. CASE ScanEnds
  <2>1. RestOK'
    BY <1>5 DEF ServiceInv, RestOK, ScanEnds, book, batch, inHand, sight
  <2>2. Placed' /\ Pending' /\ Honest'
    BY <1>5 DEF ServiceInv, Placed, Pending, Honest, Fresh, ScanEnds, book, batch, inHand, sight, Working, Approaching, Trips
  <2> QED BY <1>1, <2>1, <2>2 DEF ServiceInv
<1>6. CASE GatherEnds
  <2>0. phase' \in {"over", "deliver"} /\ phase = "gather"
    BY <1>6 DEF GatherEnds
  <2>1. RestOK'
    BY <1>6, <2>0 DEF ServiceInv, RestOK, GatherEnds, book, batch, inHand, sight
  <2>2. Placed' /\ Pending' /\ Honest'
    BY <1>6, <2>0 DEF ServiceInv, Placed, Pending, Honest, Fresh, GatherEnds, book, batch, inHand, sight, Working, Approaching, Trips
  <2> QED BY <1>1, <2>1, <2>2 DEF ServiceInv
<1> QED BY <1>2, <1>3, <1>4, <1>5, <1>6

LEMMA QuietBatch ==
  ASSUME ServiceInv, Sweep \/ DeliverNext
  PROVE  ServiceInv'
<1>1. CASE Sweep
  <2>1. UNCHANGED <<mode, tries, book, taken, orders, inHand, goal, score, unsure>> /\ phase = "sweep"
        /\ phase' \in {"over", "gather"}
    BY <1>1 DEF Sweep
  <2>2. callers' \in Seq([who : Customers, at : Int])
    BY <1>1, RowIs DEF Sweep
  <2>3. OrdersOK' /\ Books'
    BY <2>1, OrdersSame, BooksSame DEF ServiceInv, OrdersOK, inHand
  <2>4. RestOK'
    BY <2>1, <2>2 DEF ServiceInv, RestOK, book, inHand, sight
  <2>5. Placed' /\ Pending' /\ Honest'
    BY <2>1 DEF ServiceInv, Placed, Pending, Honest, Fresh, book, inHand, sight, Working, Approaching, Trips
  <2> QED BY <2>3, <2>4, <2>5 DEF ServiceInv
<1>2. CASE DeliverNext
  <2>1. CASE taken = <<>>
    <3>1. UNCHANGED <<mode, tries, book, callers, taken, orders, cur, caller, target, steps, goal, score, unsure>>
          /\ phase = "deliver" /\ phase' = "over" /\ item' = 0
      BY <1>2, <2>1 DEF DeliverNext
    <3>2. OrdersOK' /\ Books'
      BY <3>1, OrdersSame, BooksSame DEF ServiceInv, OrdersOK
    <3>3. RestOK'
      BY <3>1 DEF ServiceInv, RestOK, book
    <3>4. Placed' /\ Pending' /\ Honest'
      BY <3>1 DEF ServiceInv, Placed, Pending, Honest, Fresh, book, Working, Approaching, Trips
    <3> QED BY <3>2, <3>3, <3>4 DEF ServiceInv
  <2>2. CASE taken # <<>>
    <3>1. UNCHANGED <<mode, tries, book, callers, orders, caller, target, steps, goal, score, unsure>>
          /\ phase = "deliver" /\ phase' = "relay" /\ item' = 0
          /\ cur' = Head(taken) /\ taken' = Tail(taken)
      BY <1>2, <2>2 DEF DeliverNext
    <3>2. taken \in Seq(Nat)
      BY DEF ServiceInv, RestOK
    <3>3. /\ cur' = taken[1] /\ 1 \in 1..Len(taken) /\ taken' \in Seq(Nat)
          /\ Len(taken') = Len(taken) - 1 /\ Len(taken) \in Nat
          /\ \A i \in 1..Len(taken') : taken'[i] = taken[i + 1] /\ i + 1 \in 1..Len(taken)
      BY <2>2, <3>1, <3>2, HeadIsMember, LenProperties
    <3>4. cur' \in 1..Len(orders)
      BY <3>3 DEF ServiceInv, Placed
    <3>5. OrdersOK' /\ Books'
      BY <3>1, <3>4, OrdersSame, BooksSame, LenProperties DEF ServiceInv, OrdersOK
    <3>6. RestOK'
      BY <3>1, <3>3 DEF ServiceInv, RestOK, book, Working
    <3>7. Placed'
      BY <3>1, <3>3, <3>4 DEF ServiceInv, Placed, book, Working, Approaching, Trips
    <3>8. Fresh(cur)' /\ orders'[cur'].items > 0
      BY <3>1, <3>3 DEF ServiceInv, Pending, Fresh
    <3>9. \A i \in 1..Len(taken') :
            /\ Fresh(taken[i])' /\ orders'[taken'[i]].items > 0 /\ taken'[i] # cur'
            /\ \A j \in 1..Len(taken') : taken'[i] = taken'[j] => i = j
      BY <3>1, <3>3 DEF ServiceInv, Pending, Fresh
    <3>10. Pending'
      BY <3>1, <3>8, <3>9 DEF Pending, Fresh, Working, Approaching, Trips
    <3>11. Honest'
      BY <3>1 DEF ServiceInv, Honest, Working, Approaching, Trips
    <3> QED BY <3>5, <3>6, <3>7, <3>10, <3>11 DEF ServiceInv
  <2> QED BY <2>1, <2>2
<1> QED BY <1>1, <1>2

LEMMA QuietApproach ==
  ASSUME ServiceInv, ApproachRefines \/ ApproachRecovers
  PROVE  ServiceInv'
<1>1. /\ UNCHANGED <<mode, phase, tries, book, batch, orders, cur, caller, item, score>>
      /\ phase = "approach" /\ steps < MaxSteps /\ steps' = steps + 1 /\ goal' = "room"
      /\ unsure' \in BOOLEAN
  BY DEF ApproachRefines, ApproachRecovers, ToRoom, ServiceInv, RestOK
<1>2. target' \in Int
  <2>1. target \in Int
    BY DEF ServiceInv, RestOK
  <2>2. CASE ApproachRefines
    <3>1. CASE mode.live
      BY <2>1, <2>2, <3>1, RefinedIsPoint DEF ApproachRefines
    <3>2. CASE ~mode.live
      BY <2>1, <2>2, <3>2 DEF ApproachRefines
    <3> QED BY <3>1, <3>2
  <2>3. CASE ApproachRecovers
    <3>1. PICK call \in Sightings :
            target' \in IF call.at = NoFix THEN Lifts(call.who) ELSE {call.at}
      BY <2>3 DEF ApproachRecovers
    <3> QED BY <3>1, SightingIs, LiftsArePoints
  <2> QED BY <2>2, <2>3
<1>3. OrdersOK' /\ Books'
  BY <1>1, OrdersSame, BooksSame DEF ServiceInv, OrdersOK
<1>4. RestOK'
  BY <1>1, <1>2, Counts DEF ServiceInv, RestOK, book, batch
<1>5. Placed' /\ Pending' /\ Honest'
  BY <1>1 DEF ServiceInv, Placed, Pending, Honest, Fresh, book, batch
<1> QED BY <1>3, <1>4, <1>5 DEF ServiceInv

LEMMA DeliveredIs ==
  ASSUME Delivered
  PROVE  (mode.batched /\ phase' = "deliver") \/ (~mode.batched /\ phase' = "scan")
BY Zenon DEF Delivered

LEMMA QuietTrips ==
  ASSUME ServiceInv, CarryLost \/ PickFails
  PROVE  ServiceInv'
<1>1. CASE CarryLost
  <2>1. /\ UNCHANGED <<mode, tries, book, batch, orders, inHand, score, unsure>>
        /\ phase = "carry" /\ goal' = "bar"
    BY <1>1 DEF CarryLost, ToBar
  <2>2. (mode.batched /\ phase' = "deliver") \/ (~mode.batched /\ phase' = "scan")
    BY <1>1, DeliveredIs DEF CarryLost
  <2>3. OrdersOK' /\ Books'
    BY <2>1, OrdersSame, BooksSame DEF ServiceInv, OrdersOK, inHand
  <2>4. RestOK'
    BY <2>1, <2>2 DEF ServiceInv, RestOK, book, batch, inHand, sight
  <2>5. Placed'
    BY <2>1, <2>2 DEF ServiceInv, Placed, book, batch, inHand, sight, Working, Approaching, Trips
  <2>6. Pending' /\ Honest'
    BY <2>1, <2>2, FieldsOf DEF ServiceInv, OrdersOK, Placed, Pending, Honest, Fresh, batch, inHand, sight, Working, Approaching, Trips
  <2> QED BY <2>3, <2>4, <2>5, <2>6 DEF ServiceInv
<1>2. CASE PickFails
  <2>1. /\ UNCHANGED <<mode, phase, tries, book, batch, orders, cur, caller, target, steps, goal,
                       score, unsure>>
        /\ phase = "pick" /\ item < orders[cur].items /\ item' = item + 1
    BY <1>2 DEF PickFails
  <2>2. OrdersOK' /\ Books'
    BY <2>1, OrdersSame, BooksSame DEF ServiceInv, OrdersOK
  <2>3. RestOK'
    BY <2>1 DEF ServiceInv, RestOK, book, batch
  <2>4. Placed'
    BY <2>1 DEF ServiceInv, Placed, book, batch
  <2>5. orders'[cur'].got <= item' /\ item' <= orders'[cur'].items
    <3>1. cur \in 1..Len(orders) /\ orders \in Seq(Order) /\ item \in Nat /\ orders[cur].got <= item
      BY <2>1 DEF ServiceInv, OrdersOK, RestOK, Placed, Pending, Working, Trips
    <3>2. orders[cur].got \in Nat /\ orders[cur].items \in Nat
      BY <3>1, FieldsOf
    <3> QED BY <2>1, <3>1, <3>2
  <2>6. Pending' /\ Honest'
    BY <2>1, <2>5 DEF ServiceInv, Pending, Honest, Fresh, batch, Working, Approaching, Trips
  <2> QED BY <2>2, <2>3, <2>4, <2>6 DEF ServiceInv
<1> QED BY <1>1, <1>2

LEMMA QuietRaises ==
  ASSUME ServiceInv, Raises
  PROVE  ServiceInv'
<1>1. /\ UNCHANGED <<mode, orders, goal, score>>
      /\ phase \notin {"anchor", "over"} /\ tries' = tries + 1
      /\ attempts' = 0 /\ handled' = <<>> /\ giveups' = <<>> /\ callers' = <<>> /\ taken' = <<>>
      /\ caller' = NoCaller /\ target' = 0 /\ steps' = 0 /\ cur' = 0 /\ item' = 0
      /\ unsure' = (unsure \/ orders # <<>>)
  BY DEF Raises, Forget, Serving
<1>2. /\ phase' \in {"sweep", "scan", "over"}
      /\ phase' # "over" => tries' < Tries
      /\ mode.batched => phase' # "scan"
      /\ ~mode.batched => phase' # "sweep"
  <2>1. phase' = IF tries' < Tries THEN FirstPhase ELSE "over"
    BY DEF Raises
  <2> QED BY <2>1, FirstPhaseIs
<1>3. tries \in Nat /\ tries < Tries
  BY <1>1, Counts DEF ServiceInv, RestOK, Placed
<1>4. OrdersOK' /\ Books'
  BY <1>1, OrdersSame, BooksSame, LenProperties DEF ServiceInv, OrdersOK
<1>5. NoCaller \in [who : Customers \cup {NoOne}, at : Points]
  BY DEF NoCaller, Points
<1>6. RestOK'
  BY <1>1, <1>2, <1>3, <1>5, Counts DEF ServiceInv, RestOK
<1>7. Placed'
  BY <1>1, <1>2 DEF Placed, Working, Approaching, Trips
<1>8. Pending'
  BY <1>1, <1>2 DEF Pending, Working, Approaching, Trips
<1>9. Honest'
  <2>1. tries' # 0
    BY <1>1, <1>3
  <2> QED BY <1>1, <2>1 DEF ServiceInv, Honest
<1> QED BY <1>7, <1>8, <1>9, <1>4, <1>6, <1>7 DEF ServiceInv

-----------------------------------------------------------------------------
(* Steps that begin an order, take it or give it up.                           *)

LEMMA BeginStep ==
  ASSUME ServiceInv, NEW call \in [who : Customers, at : Points], BeginOrder(call),
         mode.batched \/ ~mode.live => call.at \in Int,
         UNCHANGED <<mode, tries, handled, giveups, taken, goal, score>>,
         \/ phase = "scan" /\ ~mode.batched /\ Len(handled) < Target
         \/ phase = "gather" /\ mode.batched /\ Len(taken) < Target,
         attempts' \in 0..(Target + ExtraAttempts),
         callers' \in Seq([who : Customers, at : Int])
  PROVE  ServiceInv'
<1>0. call.at \in Points /\ call.who \in Customers
  OBVIOUS
<1>1. /\ orders' \in Seq(Order) /\ Len(orders') = Len(orders) + 1 /\ cur' = Len(orders) + 1
      /\ \A o \in 1..Len(orders) : orders'[o] = orders[o]
      /\ orders'[cur'].status = "DETECTED" /\ orders'[cur'].items = 0
      /\ orders'[cur'].got = 0 /\ orders'[cur'].gave = 0
      /\ Len(orders) \in Nat /\ orders \in Seq(Order)
  BY <1>0, BeginWrites, LenProperties DEF ServiceInv, OrdersOK
<1>2. /\ phase' = "approach" /\ caller' = call /\ steps' = 0 /\ item' = 0
      /\ unsure' = (unsure \/ call.at # Seat[call.who])
      /\ target' \in IF call.at = NoFix THEN Lifts(call.who) ELSE {call.at}
  BY DEF BeginOrder
<1>3. target' \in Int
  BY <1>0, <1>2, LiftsArePoints DEF Points
<1>4. OrdersOK'
  <2>1. \A o \in 1..Len(orders) :
          orders[o].got <= orders[o].items /\ orders[o].gave <= orders[o].items
    BY DEF ServiceInv, OrdersOK
  <2>2. ASSUME NEW o \in 1..Len(orders')
        PROVE  orders'[o].got <= orders'[o].items /\ orders'[o].gave <= orders'[o].items
    <3>1. CASE o = cur'
      BY <1>1, <3>1
    <3>2. CASE o # cur'
      <4>1. o \in 1..Len(orders)
        BY <1>1, <3>2
      <4> QED BY <1>1, <2>1, <4>1
    <3> QED BY <3>1, <3>2
  <2>3. cur' \in 0..Len(orders')
    BY <1>1
  <2> QED BY <1>1, <2>2, <2>3 DEF OrdersOK
<1>5. RestOK'
  BY <1>2, <1>3, Counts DEF ServiceInv, RestOK, Working, Approaching
<1>6. Len(handled) < Target
  BY DEF ServiceInv, Placed
<1>7. Placed'
  <2>1. \A i \in 1..Len(taken) : taken[i] \in 1..Len(orders')
    BY <1>1 DEF ServiceInv, Placed
  <2>2. /\ tries < Tries /\ cur' \in 1..Len(orders')
        /\ mode.batched => Len(handled) = Len(taken)
    BY <1>1 DEF ServiceInv, Placed
  <2> QED BY <1>0, <1>2, <1>6, <2>1, <2>2 DEF Placed, Working, Approaching, Trips
<1>8. Pending'
  <2>1. \A i \in 1..Len(taken) :
          /\ taken[i] \in 1..Len(orders) /\ taken[i] # cur'
          /\ Fresh(taken[i]) /\ orders[taken[i]].items > 0
          /\ \A j \in 1..Len(taken) : taken[i] = taken[j] => i = j
    <3>1. \A i \in 1..Len(taken) :
            /\ taken[i] \in 1..Len(orders) /\ Fresh(taken[i]) /\ orders[taken[i]].items > 0
            /\ \A j \in 1..Len(taken) : taken[i] = taken[j] => i = j
      BY DEF ServiceInv, Placed, Pending
    <3>2. \A o \in 1..Len(orders) : o # cur'
      BY <1>1
    <3> QED BY <3>1, <3>2
  <2> QED BY <1>1, <1>2, <2>1 DEF Pending, Fresh, Working, Approaching, Trips
<1>9. Honest'
  <2>1. \A o \in 1..Len(orders) :
          /\ orders[o].status = "SERVED" => orders[o].gave > 0
          /\ ~(tries = 0 /\ orders[o].gave > 0 /\ orders[o].status # "SERVED")
    BY DEF ServiceInv, Honest, Trips
  <2>2. ASSUME NEW o \in 1..Len(orders')
        PROVE  /\ orders'[o].status = "SERVED" => orders'[o].gave > 0
               /\ ~(tries = 0 /\ orders'[o].gave > 0 /\ orders'[o].status # "SERVED")
    <3>1. CASE o = cur'
      BY <1>1, <3>1
    <3>2. CASE o # cur'
      <4>1. o \in 1..Len(orders)
        BY <1>1, <3>2
      <4> QED BY <1>1, <2>1, <4>1
    <3> QED BY <3>1, <3>2
  <2> QED BY <2>2 DEF Honest
<1>10. Books'
  <2>1. Total(Got)' = Total(Got) /\ Total(Gave)' = Total(Gave)
    BY <1>1, TotalsOfBegun
  <2> QED BY <2>1 DEF ServiceInv, Books, Claimed
<1> QED BY <1>4, <1>5, <1>7, <1>8, <1>9, <1>10 DEF ServiceInv

LEMMA ScanFindsStep ==
  ASSUME ServiceInv, ScanFinds
  PROVE  ServiceInv'
<1>1. PICK call \in NextCaller : BeginOrder(call)
  BY DEF ScanFinds
<1>2. /\ call \in [who : Customers, at : Points]
      /\ call.at # NoFix => call.at \in Int
      /\ call.at = NoFix => mode.live
  BY SightingIs DEF NextCaller
<1>3. ~mode.batched
  BY DEF ServiceInv, Placed, ScanFinds
<1>4. /\ UNCHANGED <<mode, tries, handled, giveups, taken, goal, score>>
      /\ phase = "scan" /\ Len(handled) < Target /\ callers' = callers
      /\ attempts' = attempts + 1 /\ attempts < Target + ExtraAttempts
  BY DEF ScanFinds, SweepAgain, batch
<1>5. attempts' \in 0..(Target + ExtraAttempts)
      /\ callers' \in Seq([who : Customers, at : Int])
  BY <1>4, Counts DEF ServiceInv, RestOK
<1> QED BY <1>1, <1>2, <1>3, <1>4, <1>5, BeginStep

LEMMA GatherNextStep ==
  ASSUME ServiceInv, GatherNext
  PROVE  ServiceInv'
<1> DEFINE W == [who : Customers, at : Int]
<1>1. /\ UNCHANGED <<mode, tries, attempts, handled, giveups, taken, goal, score>>
      /\ phase = "gather" /\ callers # <<>> /\ callers' = Tail(callers) /\ Len(taken) < Want
  BY DEF GatherNext, book
<1>2. callers \in Seq(W)
  BY DEF ServiceInv, RestOK
<1> HIDE DEF W
<1>3. Head(callers) \in W /\ callers' \in Seq(W)
  BY <1>1, <1>2, HeadIsMember
<1> USE DEF W
<1>4. /\ Head(callers) \in [who : Customers, at : Points] /\ Head(callers).at \in Int
      /\ callers' \in Seq([who : Customers, at : Int])
  BY <1>3 DEF Points
<1>5. CASE Open(Head(callers), Range(handled))
  <2>1. BeginOrder(Head(callers))
    BY <1>5 DEF GatherNext
  <2>2. mode.batched /\ Len(taken) < Target
    <3>1. Len(taken) \in Nat
      BY LenProperties DEF ServiceInv, RestOK
    <3> QED BY <1>1, <3>1, WantIs, Counts DEF ServiceInv, Placed
  <2>3. attempts' \in 0..(Target + ExtraAttempts)
    BY <1>1 DEF ServiceInv, RestOK
  <2> QED BY <1>1, <1>4, <2>1, <2>2, <2>3, BeginStep
<1>6. CASE ~Open(Head(callers), Range(handled))
  <2>1. UNCHANGED <<phase, orders, inHand, unsure>>
    BY <1>6 DEF GatherNext
  <2>2. OrdersOK' /\ Books'
    BY <1>1, <2>1, OrdersSame, BooksSame DEF ServiceInv, OrdersOK, inHand
  <2>3. RestOK'
    BY <1>1, <1>4, <2>1 DEF ServiceInv, RestOK, inHand, sight
  <2>4. Placed' /\ Pending' /\ Honest'
    BY <1>1, <2>1 DEF ServiceInv, Placed, Pending, Honest, Fresh, inHand, sight
  <2> QED BY <2>2, <2>3, <2>4 DEF ServiceInv
<1> QED BY <1>5, <1>6

(* What a batch has taken is left alone by what is written on the order in hand. *)
LEMMA TakenStay ==
  ASSUME ServiceInv, phase \in Working, NEW p, NEW s, NEW n, NEW c, NEW g, NEW h,
         Wrote(p, s, n, c, g, h)
  PROVE  \A i \in 1..Len(taken) :
           /\ taken[i] \in 1..Len(orders) /\ taken[i] # cur
           /\ orders'[taken[i]] = orders[taken[i]]
           /\ Fresh(taken[i]) /\ orders[taken[i]].items > 0
           /\ \A j \in 1..Len(taken) : taken[i] = taken[j] => i = j
BY DEF ServiceInv, Placed, Pending, Wrote

(* note_failure counts at the first spot near the point, or opens one there.   *)
Spots == [at : Int, fails : Nat]
FirstNear(spots, p, i) ==
  /\ Near(spots[i].at, p, HandledRadius)
  /\ \A j \in 1..(i - 1) : ~Near(spots[j].at, p, HandledRadius)

LEMMA SpotIs ==
  ASSUME NEW spots \in Seq(Spots), NEW i \in 1..Len(spots)
  PROVE  spots[i].at \in Int /\ spots[i].fails \in Nat
<1>1. spots[i] \in Spots
  BY ElementOfSeq
<1> QED BY <1>1 DEF Spots

LEMMA NoteFailureIs ==
  ASSUME NEW spots \in Seq(Spots), NEW at \in Int
  PROVE  \/ /\ \A i \in 1..Len(spots) : ~Near(spots[i].at, at, HandledRadius)
            /\ NoteFailure(spots, at) = Append(spots, [at |-> at, fails |-> 1])
         \/ \E i \in 1..Len(spots) :
              /\ FirstNear(spots, at, i)
              /\ NoteFailure(spots, at) = [spots EXCEPT ![i].fails = @ + 1]
<1> DEFINE here == {i \in 1..Len(spots) : Near(spots[i].at, at, HandledRadius)}
<1>0. at # NoFix
  BY Room, Zenon
<1>1. CASE here = {}
  <2>1. NoteFailure(spots, at) = Append(spots, [at |-> at, fails |-> 1])
    BY <1>0, <1>1, Zenon DEF NoteFailure
  <2> QED BY <1>1, <2>1
<1>2. CASE here # {}
  <2> DEFINE i == CHOOSE i \in here : \A j \in here : i <= j
  <2>1. here \in SUBSET Nat
    OBVIOUS
  <2>2. i \in here /\ \A j \in here : i <= j
    BY <1>2, <2>1, LeastExists
  <2>3. NoteFailure(spots, at) = [spots EXCEPT ![i].fails = @ + 1]
    BY <1>0, <1>2, Zenon DEF NoteFailure
  <2> HIDE DEF i
  <2>4. FirstNear(spots, at, i)
    <3>1. Len(spots) \in Nat /\ i \in 1..Len(spots)
      BY <2>2, LenProperties
    <3>2. ASSUME NEW j \in 1..(i - 1) PROVE ~Near(spots[j].at, at, HandledRadius)
      <4>1. j \in 1..Len(spots) /\ ~(i <= j)
        BY <3>1
      <4> QED BY <2>2, <4>1
    <3> QED BY <2>2, <3>2 DEF FirstNear
  <2> QED BY <2>2, <2>3, <2>4
<1> QED BY <1>1, <1>2

LEMMA NoteFailureType ==
  ASSUME NEW spots \in Seq(Spots), NEW at \in Points
  PROVE  NoteFailure(spots, at) \in Seq(Spots)
<1>1. CASE at = NoFix
  <2>1. NoteFailure(spots, at) = spots
    BY <1>1, Zenon DEF NoteFailure
  <2> QED BY <2>1
<1>2. CASE at # NoFix
  <2>1. at \in Int /\ [at |-> at, fails |-> 1] \in Spots
    BY <1>2 DEF Points, Spots
  <2>2. CASE NoteFailure(spots, at) = Append(spots, [at |-> at, fails |-> 1])
    BY <2>1, <2>2, AppendProperties
  <2>3. CASE \E i \in 1..Len(spots) :
               NoteFailure(spots, at) = [spots EXCEPT ![i].fails = @ + 1]
    <3>1. PICK i \in 1..Len(spots) :
            NoteFailure(spots, at) = [spots EXCEPT ![i].fails = @ + 1]
      BY <2>3
    <3> DEFINE r == [spots[i] EXCEPT !.fails = @ + 1]
    <3>2. r \in Spots
      <4>1. spots[i] \in Spots
        BY ElementOfSeq
      <4> QED BY <4>1 DEF Spots
    <3>3. DOMAIN spots = 1..Len(spots)
      BY LenProperties
    <3>4. NoteFailure(spots, at) = [spots EXCEPT ![i] = r]
      BY <3>1
    <3> HIDE DEF r
    <3> QED BY <3>2, <3>3, <3>4, ExceptSeq
  <2> QED BY <2>1, <2>2, <2>3, NoteFailureIs
<1> QED BY <1>1, <1>2

LEMMA GiveUpIs ==
  ASSUME GiveUp
  PROVE  \/ mode.batched /\ phase' = "gather" /\ giveups' = giveups
         \/ ~mode.batched /\ phase' = "scan" /\ giveups' = NoteFailure(giveups, caller.at)
BY Zenon DEF GiveUp

LEMMA GiveUpStep ==
  ASSUME ServiceInv, phase \in Approaching, GiveUp,
         UNCHANGED <<mode, tries, batch, score, unsure>>, goal' \in {"bar", "room"}
  PROVE  ServiceInv'
<1>1. /\ caller' = NoCaller /\ target' = 0 /\ steps' = 0
      /\ UNCHANGED <<attempts, handled, cur, item>>
  BY DEF GiveUp, Forget
<1>2. \/ mode.batched /\ phase' = "gather" /\ giveups' = giveups
      \/ ~mode.batched /\ phase' = "scan" /\ giveups' = NoteFailure(giveups, caller.at)
  BY GiveUpIs
<1>3. orders \in Seq(Order) /\ cur \in 1..Len(orders)
  BY DEF ServiceInv, OrdersOK, Placed, Working
<1>4. Wrote(orders[cur].at, "FAILED", orders[cur].items, orders[cur].who, orders[cur].got,
            orders[cur].gave)
  BY <1>3, StatusWrites DEF GiveUp, Statuses
<1>5. orders[cur].items \in Nat /\ orders[cur].got \in Nat /\ orders[cur].gave \in Nat
  BY <1>3, FieldsOf
<1>6. OrdersOK'
  BY <1>1, <1>3, <1>4, <1>5, WroteOK DEF ServiceInv, OrdersOK
<1>7. RestOK'
  <2>1. giveups' \in Seq(Spots)
    <3>1. giveups \in Seq(Spots) /\ caller.at \in Points
      BY DEF ServiceInv, RestOK, Spots
    <3> QED BY <1>2, <3>1, NoteFailureType
  <2>2. NoCaller \in [who : Customers \cup {NoOne}, at : Points]
    BY DEF NoCaller, Points
  <2>3. phase' \in {"gather", "scan"} /\ goal' \in {"bar", "room"}
    BY <1>2
  <2> QED BY <1>1, <2>1, <2>2, <2>3, Counts DEF ServiceInv, RestOK, batch, Spots
<1>8. \A i \in 1..Len(taken) :
         /\ taken[i] \in 1..Len(orders) /\ taken[i] # cur
         /\ orders'[taken[i]] = orders[taken[i]]
         /\ Fresh(taken[i]) /\ orders[taken[i]].items > 0
         /\ \A j \in 1..Len(taken) : taken[i] = taken[j] => i = j
  BY <1>4, TakenStay DEF Working
<1>9. Len(orders') = Len(orders) /\ taken' = taken /\ orders'[cur].gave = orders[cur].gave
      /\ orders'[cur].status = "FAILED"
      /\ \A o \in 1..Len(orders) : o # cur => orders'[o] = orders[o]
  BY <1>4 DEF Wrote, batch
<1>10. Placed'
  BY <1>1, <1>2, <1>8, <1>9 DEF ServiceInv, Placed, Working, Approaching, Trips
<1>11. Pending'
  BY <1>1, <1>2, <1>8, <1>9 DEF Pending, Fresh, Working, Approaching, Trips
<1>12. Honest'
  <2>1. orders[cur].gave = 0
    BY DEF ServiceInv, Pending, Fresh
  <2>2. phase \notin Trips /\ tries' = tries
    BY DEF Approaching, Trips
  <2>3. \A o \in 1..Len(orders) :
          /\ orders[o].status = "SERVED" => orders[o].gave > 0
          /\ tries = 0 /\ orders[o].gave > 0 => orders[o].status = "SERVED"
    BY <2>2 DEF ServiceInv, Honest
  <2>4. ASSUME NEW o \in 1..Len(orders)
        PROVE  /\ orders'[o].status = "SERVED" => orders'[o].gave > 0
               /\ tries = 0 /\ orders'[o].gave > 0 => orders'[o].status = "SERVED"
    BY <1>9, <2>1, <2>3
  <2> QED BY <1>9, <2>2, <2>4 DEF Honest
<1>13. Books'
  <2>1. Wrote(orders[cur].at, "FAILED", orders[cur].items, orders[cur].who, orders[cur].got + 0,
            orders[cur].gave + 0)
    BY <1>4, <1>5
  <2>2. Total(Got)' = Total(Got) + 0 /\ Total(Gave)' = Total(Gave) + 0
    BY <1>3, <2>1, TotalsOfWrote
  <2>3. Total(Got) \in Nat /\ Total(Gave) \in Nat
    BY <1>3, GotIs, SumExists, TotalBySums
  <2> QED BY <2>2, <2>3 DEF ServiceInv, Books, Claimed
<1> QED BY <1>6, <1>7, <1>10, <1>11, <1>12, <1>13 DEF ServiceInv

LEMMA FailsStep ==
  ASSUME ServiceInv, ApproachFails \/ AskFails
  PROVE  ServiceInv'
<1>1. GiveUp /\ phase \in Approaching
  BY DEF ApproachFails, AskFails, Approaching
<1>2. goal' \in {"bar", "room"}
  BY DEF ApproachFails, AskFails, ServiceInv, RestOK
<1>3. UNCHANGED <<mode, tries, batch, score, unsure>>
  BY DEF ApproachFails, AskFails
<1> QED BY <1>1, <1>2, <1>3, GiveUpStep

LEMMA ReachesStep ==
  ASSUME ServiceInv, ApproachReaches
  PROVE  ServiceInv'
<1>1. /\ UNCHANGED <<mode, tries, book, batch, cur, caller, item, unsure, score>>
      /\ phase = "approach" /\ phase' = "ask" /\ target' = 0 /\ steps' = 0 /\ goal' = "room"
  BY DEF ApproachReaches, ToRoom
<1>2. orders \in Seq(Order) /\ cur \in 1..Len(orders)
  BY <1>1 DEF ServiceInv, OrdersOK, Placed, Working, Approaching
<1>3. PICK p \in SeatUpClose :
        orders' = [orders EXCEPT ![cur].at = p, ![cur].status = "APPROACHED"]
  BY DEF ApproachReaches
<1>4. p \in Int
  <2>1. CASE mode.live
    <3>1. p \in Refined(target)
      BY <2>1, Zenon DEF SeatUpClose
    <3> QED BY <3>1, RefinedIsPoint DEF ServiceInv, RestOK
  <2>2. CASE ~mode.live
    <3>1. p \in Refined(caller.at)
      BY <2>2, Zenon DEF SeatUpClose
    <3>2. caller.at \in Int
      BY <1>1, <2>2 DEF ServiceInv, Placed, Approaching
    <3> QED BY <3>1, <3>2, RefinedIsPoint
  <2> QED BY <2>1, <2>2
<1>5. Wrote(p, "APPROACHED", orders[cur].items, orders[cur].who, orders[cur].got,
            orders[cur].gave)
  BY <1>2, <1>3, <1>4, ReachWrites DEF Points
<1>6. orders[cur].items \in Nat /\ orders[cur].got \in Nat /\ orders[cur].gave \in Nat
  BY <1>2, FieldsOf
<1>7. OrdersOK'
  BY <1>1, <1>2, <1>5, <1>6, WroteOK DEF ServiceInv, OrdersOK
<1>8. RestOK'
  BY <1>1, Counts DEF ServiceInv, RestOK, book, batch, Working, Approaching
<1>9. \A i \in 1..Len(taken) :
         /\ taken[i] \in 1..Len(orders) /\ taken[i] # cur
         /\ orders'[taken[i]] = orders[taken[i]]
         /\ Fresh(taken[i]) /\ orders[taken[i]].items > 0
         /\ \A j \in 1..Len(taken) : taken[i] = taken[j] => i = j
  BY <1>1, <1>5, TakenStay DEF Working, Approaching
<1>10. Len(orders') = Len(orders) /\ taken' = taken /\ orders'[cur].gave = orders[cur].gave
      /\ orders'[cur].status = "APPROACHED" /\ orders'[cur].got = orders[cur].got
      /\ orders'[cur].at = p
      /\ \A o \in 1..Len(orders) : o # cur => orders'[o] = orders[o]
  BY <1>1, <1>5 DEF Wrote, batch
<1>11. Placed'
  BY <1>1, <1>2, <1>4, <1>9, <1>10
     DEF ServiceInv, Placed, book, Working, Approaching, Trips
<1>12. orders[cur].gave = 0 /\ orders[cur].got = 0 /\ item = 0
  BY <1>1 DEF ServiceInv, Pending, Fresh, Approaching
<1>13. Pending'
  BY <1>1, <1>9, <1>10, <1>12 DEF Pending, Fresh, Working, Approaching, Trips
<1>14. Honest'
  <2>1. \A o \in 1..Len(orders) :
          /\ orders[o].status = "SERVED" => orders[o].gave > 0
          /\ tries = 0 /\ orders[o].gave > 0 => orders[o].status = "SERVED"
    BY <1>1 DEF ServiceInv, Honest, Trips
  <2>2. ASSUME NEW o \in 1..Len(orders)
        PROVE  /\ orders'[o].status = "SERVED" => orders'[o].gave > 0
               /\ tries = 0 /\ orders'[o].gave > 0 => orders'[o].status = "SERVED"
    BY <1>10, <1>12, <2>1
  <2> QED BY <1>1, <1>10, <2>2 DEF Honest
<1>15. Books'
  <2>1. Wrote(p, "APPROACHED", orders[cur].items, orders[cur].who, orders[cur].got + 0,
            orders[cur].gave + 0)
    BY <1>5, <1>6
  <2>2. Total(Got)' = Total(Got) + 0 /\ Total(Gave)' = Total(Gave) + 0
    BY <1>2, <2>1, TotalsOfWrote
  <2>3. Total(Got) \in Nat /\ Total(Gave) \in Nat
    BY <1>2, GotIs, SumExists, TotalBySums
  <2> QED BY <1>1, <2>2, <2>3 DEF ServiceInv, Books, Claimed
<1> QED BY <1>7, <1>8, <1>11, <1>13, <1>14, <1>15 DEF ServiceInv

LEMMA AskStep ==
  ASSUME ServiceInv, AskUnderstood
  PROVE  ServiceInv'
<1> DEFINE x == IF mode.batched THEN caller.at ELSE orders[cur].at
<1>1. PICK c \in Answering(orders[cur].at), n \in Sizes : Ordered(c, n)
  BY DEF AskUnderstood
<1>2. /\ UNCHANGED <<mode, tries, attempts, giveups, callers, cur, item, goal, unsure>>
      /\ phase = "ask" /\ caller' = NoCaller /\ target' = 0 /\ steps' = 0
      /\ score' = Award(score, "understand_order", 1) /\ handled' = Append(handled, x)
  BY DEF AskUnderstood, Forget
<1>3. \/ mode.batched /\ taken' = Append(taken, cur) /\ phase' = "gather"
      \/ ~mode.batched /\ taken' = taken /\ phase' = "relay"
  BY Zenon DEF AskUnderstood
<1>4. orders \in Seq(Order) /\ cur \in 1..Len(orders)
  BY <1>2 DEF ServiceInv, OrdersOK, Placed, Working, Approaching
<1>5. c \in Customers /\ n \in Nat /\ n > 0
  <2>1. c \in Customers
    BY NearPoints DEF Answering
  <2>2. Sizes \subseteq Nat \ {0}
    BY Room, Zenon
  <2>3. n \in Nat \ {0}
    BY <2>2
  <2> QED BY <2>1, <2>3
<1>6. Wrote(orders[cur].at, "ORDERED", n, c, orders[cur].got, orders[cur].gave)
  BY <1>1, <1>4, <1>5, OrderedWrites
<1>7. orders[cur].got = 0 /\ orders[cur].gave = 0 /\ item = 0
  BY <1>2 DEF ServiceInv, Pending, Fresh, Approaching
<1>8. OrdersOK'
  BY <1>2, <1>4, <1>5, <1>6, <1>7, WroteOK DEF ServiceInv, OrdersOK
<1>9. x \in Int
  <2>1. orders[cur].at \in Int
    BY <1>2 DEF ServiceInv, Placed
  <2>2. mode.batched => caller.at \in Int
    BY <1>2 DEF ServiceInv, Placed, Approaching
  <2>3. CASE mode.batched
    <3>1. x = caller.at
      BY <2>3, Zenon
    <3> QED BY <2>2, <2>3, <3>1
  <2>4. CASE ~mode.batched
    <3>1. x = orders[cur].at
      BY <2>4, Zenon
    <3> QED BY <2>1, <3>1
  <2> QED BY <2>3, <2>4
<1> HIDE DEF x
<1>10. /\ handled' \in Seq(Int) /\ Len(handled') = Len(handled) + 1
       /\ Len(handled) \in Nat /\ Len(handled) < Target
  BY <1>2, <1>9, AppendProperties, LenProperties DEF ServiceInv, RestOK, Placed, Approaching
<1>11. cur \in Nat /\ taken \in Seq(Nat)
  BY <1>4, LenProperties DEF ServiceInv, RestOK
<1>12. score' \in [Lines -> Nat] /\ (\A l \in Lines : score'[l] <= MaxUnits[l])
       /\ \A l \in Lines : l # "understand_order" => score'[l] = score[l]
  <2>1. "understand_order" \in Lines /\ 1 \in Nat
    BY DEF Lines
  <2> QED BY <1>2, <2>1, AwardAdds DEF ServiceInv, RestOK
<1>13. RestOK'
  <2>1. taken' \in Seq(Nat) /\ phase' \in {"gather", "relay"}
    BY <1>3, <1>11, AppendProperties
  <2>2. NoCaller \in [who : Customers \cup {NoOne}, at : Points]
    BY DEF NoCaller, Points
  <2>3. Len(handled') <= Target
    BY <1>10, Counts
  <2> QED BY <1>2, <1>10, <1>12, <2>1, <2>2, <2>3, Counts DEF ServiceInv, RestOK, Working
<1>14. \A i \in 1..Len(taken) :
         /\ taken[i] \in 1..Len(orders) /\ taken[i] # cur
         /\ orders'[taken[i]] = orders[taken[i]]
         /\ Fresh(taken[i]) /\ orders[taken[i]].items > 0
         /\ \A j \in 1..Len(taken) : taken[i] = taken[j] => i = j
  BY <1>2, <1>6, TakenStay DEF Working, Approaching
<1>15. Len(orders') = Len(orders) /\ orders'[cur].gave = 0 /\ orders'[cur].got = 0
      /\ orders'[cur].status = "ORDERED" /\ orders'[cur].items = n
      /\ \A o \in 1..Len(orders) : o # cur => orders'[o] = orders[o]
  BY <1>6, <1>7 DEF Wrote
<1>16. Honest'
  <2>1. \A o \in 1..Len(orders) :
          /\ orders[o].status = "SERVED" => orders[o].gave > 0
          /\ tries = 0 /\ orders[o].gave > 0 => orders[o].status = "SERVED"
    BY <1>2 DEF ServiceInv, Honest, Trips
  <2>2. ASSUME NEW o \in 1..Len(orders)
        PROVE  /\ orders'[o].status = "SERVED" => orders'[o].gave > 0
               /\ tries = 0 /\ orders'[o].gave > 0 => orders'[o].status = "SERVED"
    BY <1>15, <2>1
  <2> QED BY <1>2, <1>15, <2>2 DEF Honest
<1>17. Books'
  <2>1. Wrote(orders[cur].at, "ORDERED", n, c, orders[cur].got + 0, orders[cur].gave + 0)
    BY <1>6, <1>7
  <2>2. Total(Got)' = Total(Got) + 0 /\ Total(Gave)' = Total(Gave) + 0
    BY <1>4, <2>1, TotalsOfWrote
  <2>3. Total(Got) \in Nat /\ Total(Gave) \in Nat
    BY <1>4, GotIs, SumExists, TotalBySums
  <2>4. score'["pickup_items"] = score["pickup_items"]
        /\ score'["serve_order"] = score["serve_order"]
    BY <1>12 DEF Lines
  <2> QED BY <2>2, <2>3, <2>4 DEF ServiceInv, Books, Claimed
<1>18. Placed' /\ Pending'
  <2>1. CASE mode.batched
    <3>1. taken' = Append(taken, cur) /\ phase' = "gather"
      BY <1>3, <2>1
    <3>2. /\ Len(taken') = Len(taken) + 1 /\ taken'[Len(taken) + 1] = cur /\ Len(taken) \in Nat
          /\ \A i \in 1..Len(taken) : taken'[i] = taken[i]
      BY <1>11, <3>1, AppendProperties, LenProperties
    <3>3. ASSUME NEW i \in 1..Len(taken')
          PROVE  /\ taken'[i] \in 1..Len(orders')
                 /\ Fresh(taken[i])' /\ orders'[taken'[i]].items > 0
                 /\ \A j \in 1..Len(taken') : taken'[i] = taken'[j] => i = j
      <4>1. CASE i = Len(taken) + 1
        <5>1. taken'[i] = cur
          BY <3>2, <4>1
        <5>2. \A j \in 1..Len(taken') : taken'[j] = cur => j = i
          BY <1>14, <3>2, <4>1
        <5> QED BY <1>4, <1>5, <1>15, <5>1, <5>2 DEF Fresh
      <4>2. CASE i # Len(taken) + 1
        <5>1. i \in 1..Len(taken)
          BY <3>2, <4>2
        <5>2. taken'[i] = taken[i]
          BY <3>2, <5>1
        <5>3. \A j \in 1..Len(taken') : taken'[j] = taken[i] => j = i
          BY <1>14, <3>2, <5>1
        <5> QED BY <1>14, <1>15, <5>1, <5>2, <5>3 DEF Fresh
      <4> QED BY <4>1, <4>2
    <3>4. Len(handled') = Len(taken')
      BY <1>2, <1>10, <2>1, <3>2 DEF ServiceInv, Placed, Approaching
    <3>5. Placed'
      BY <1>2, <2>1, <3>1, <3>3, <3>4 DEF ServiceInv, Placed, Working, Approaching, Trips
    <3>6. Pending'
      BY <3>1, <3>3 DEF Pending, Working, Approaching, Trips
    <3> QED BY <3>5, <3>6
  <2>2. CASE ~mode.batched
    <3>1. taken' = taken /\ phase' = "relay"
      BY <1>3, <2>2
    <3>2. Placed'
      BY <1>2, <1>4, <1>14, <1>15, <2>2, <3>1 DEF ServiceInv, Placed, Working, Approaching, Trips
    <3>3. Pending'
      BY <1>2, <1>5, <1>7, <1>14, <1>15, <3>1 DEF Pending, Fresh, Working, Approaching, Trips
    <3> QED BY <3>2, <3>3
  <2> QED BY <2>1, <2>2
<1> QED BY <1>8, <1>13, <1>16, <1>17, <1>18 DEF ServiceInv

-----------------------------------------------------------------------------
(* The delivery of the order in hand.                                          *)

LEMMA DeliveryStep ==
  ASSUME ServiceInv, phase \in Working \ Approaching,
         NEW p, NEW s, NEW g \in Nat, NEW h \in Nat,
         Wrote(p, s, orders[cur].items, orders[cur].who, g, h),
         g <= orders[cur].items, h <= orders[cur].items,
         UNCHANGED <<mode, tries, book, batch, cur, sight, unsure>>,
         goal' \in {"bar", "room"}, item' \in Nat,
         score' \in [Lines -> Nat], \A l \in Lines : score'[l] <= MaxUnits[l],
         \/ phase' \in Working \ Approaching
         \/ mode.batched /\ phase' = "deliver"
         \/ ~mode.batched /\ phase' = "scan",
         s = "SERVED" => h > 0,
         tries = 0 /\ h > 0 /\ s # "SERVED" => phase' \in Trips,
         phase' # "relay", phase' = "load" => g = 0 /\ h = 0,
         phase' \in Working => s \notin {"SERVED", "FAILED"},
         phase' \in {"carry", "present"} => h = 0,
         phase' \in Trips =>
            /\ g <= item' /\ item' <= orders[cur].items
            /\ h + (IF phase' = "pick" THEN 0 ELSE 1) <= g,
         Books'
  PROVE  ServiceInv'
<1>1. orders \in Seq(Order) /\ cur \in 1..Len(orders) /\ phase \in Working
  BY DEF ServiceInv, OrdersOK, Placed
<1>2. orders[cur].items \in Nat /\ orders[cur].items > 0
  BY <1>1, FieldsOf DEF ServiceInv, Pending
<1>3. OrdersOK'
  BY <1>1, <1>2, WroteOK DEF ServiceInv
<1>4. \A i \in 1..Len(taken) :
         /\ taken[i] \in 1..Len(orders) /\ taken[i] # cur
         /\ orders'[taken[i]] = orders[taken[i]]
         /\ Fresh(taken[i]) /\ orders[taken[i]].items > 0
         /\ \A j \in 1..Len(taken) : taken[i] = taken[j] => i = j
  BY <1>1, TakenStay
<1>5. Len(orders') = Len(orders) /\ orders'[cur].gave = h /\ orders'[cur].got = g
      /\ orders'[cur].status = s /\ orders'[cur].items = orders[cur].items
      /\ \A o \in 1..Len(orders) : o # cur => orders'[o] = orders[o]
  BY DEF Wrote
<1>6. phase' \in Working \cup {"scan", "deliver"} /\ phase' \notin Approaching
  BY DEF Approaching
<1>7. RestOK'
  BY <1>6 DEF ServiceInv, RestOK, book, batch, sight
<1>8. Placed'
  BY <1>1, <1>4, <1>5 DEF ServiceInv, Placed, book, batch, Working, Approaching, Trips
<1>9. Pending'
  BY <1>2, <1>4, <1>5 DEF Pending, Fresh, batch, Working, Approaching, Trips
<1>10. Honest'
  <2>1. \A o \in 1..Len(orders) : o # cur =>
          /\ orders[o].status = "SERVED" => orders[o].gave > 0
          /\ tries = 0 /\ orders[o].gave > 0 => orders[o].status = "SERVED"
    BY DEF ServiceInv, Honest
  <2> QED BY <1>5, <2>1 DEF Honest
<1> QED BY <1>3, <1>7, <1>8, <1>9, <1>10 DEF ServiceInv

(* What is written without a confirmation changes no total and no claim.       *)
LEMMA BooksUnmoved ==
  ASSUME ServiceInv, cur \in 1..Len(orders), UNCHANGED score, NEW p, NEW s,
         Wrote(p, s, orders[cur].items, orders[cur].who, orders[cur].got, orders[cur].gave)
  PROVE  Books'
<1>1. orders \in Seq(Order)
  BY DEF ServiceInv, OrdersOK
<1>2. orders[cur].got \in Nat /\ orders[cur].gave \in Nat
  BY <1>1, FieldsOf
<1>3. Wrote(p, s, orders[cur].items, orders[cur].who, orders[cur].got + 0, orders[cur].gave + 0)
  BY <1>2
<1>4. Total(Got)' = Total(Got) + 0 /\ Total(Gave)' = Total(Gave) + 0
  BY <1>1, <1>3, TotalsOfWrote
<1>5. Total(Got) \in Nat /\ Total(Gave) \in Nat
  BY <1>1, GotIs, SumExists, TotalBySums
<1> QED BY <1>4, <1>5 DEF ServiceInv, Books, Claimed

LEMMA BooksMore ==
  ASSUME ServiceInv, cur \in 1..Len(orders), NEW p, NEW s, NEW dg \in Nat, NEW dh \in Nat,
         Wrote(p, s, orders[cur].items, orders[cur].who,
               orders[cur].got + dg, orders[cur].gave + dh),
         \/ dh = 0 /\ score' = Award(score, "pickup_items", dg)
         \/ dg = 0 /\ score' = Award(score, "serve_order", dh)
  PROVE  /\ Books'
         /\ score' \in [Lines -> Nat] /\ \A l \in Lines : score'[l] <= MaxUnits[l]
<1>1. orders \in Seq(Order)
  BY DEF ServiceInv, OrdersOK
<1>2. Total(Got)' = Total(Got) + dg /\ Total(Gave)' = Total(Gave) + dh
  BY <1>1, TotalsOfWrote
<1>3. Total(Got) \in Nat /\ Total(Gave) \in Nat
  BY <1>1, GotIs, SumExists, TotalBySums
<1>4. /\ score \in [Lines -> Nat] /\ \A l \in Lines : score[l] <= MaxUnits[l]
      /\ "pickup_items" \in Lines /\ "serve_order" \in Lines
      /\ Claimed("pickup_items", Total(Got)) /\ Claimed("serve_order", Total(Gave))
  BY DEF ServiceInv, RestOK, Books, Lines
<1>5. CASE dh = 0 /\ score' = Award(score, "pickup_items", dg)
  <2>1. /\ score'["pickup_items"] =
             IF Total(Got) + dg > MaxUnits["pickup_items"] THEN MaxUnits["pickup_items"]
             ELSE Total(Got) + dg
        /\ score'["serve_order"] = score["serve_order"]
        /\ score' \in [Lines -> Nat] /\ \A l \in Lines : score'[l] <= MaxUnits[l]
    BY <1>3, <1>4, <1>5, ClaimsFollow, AwardAdds
  <2> QED BY <1>2, <1>3, <1>4, <1>5, <2>1 DEF Books, Claimed
<1>6. CASE dg = 0 /\ score' = Award(score, "serve_order", dh)
  <2>1. /\ score'["serve_order"] =
             IF Total(Gave) + dh > MaxUnits["serve_order"] THEN MaxUnits["serve_order"]
             ELSE Total(Gave) + dh
        /\ score'["pickup_items"] = score["pickup_items"]
        /\ score' \in [Lines -> Nat] /\ \A l \in Lines : score'[l] <= MaxUnits[l]
    BY <1>3, <1>4, <1>6, ClaimsFollow, AwardAdds
  <2> QED BY <1>2, <1>3, <1>4, <1>6, <2>1 DEF Books, Claimed
<1> QED BY <1>5, <1>6

(* What is known in every phase of a delivery.                                 *)
LEMMA InDelivery ==
  ASSUME ServiceInv, phase \in Working \ Approaching
  PROVE  /\ orders \in Seq(Order) /\ cur \in 1..Len(orders) /\ item \in Nat
         /\ orders[cur].got \in Nat /\ orders[cur].gave \in Nat /\ orders[cur].items \in Nat
         /\ orders[cur].items > 0 /\ orders[cur].status \notin {"SERVED", "FAILED"}
         /\ orders[cur].got <= orders[cur].items /\ orders[cur].gave <= orders[cur].items
         /\ goal \in {"bar", "room"}
         /\ score \in [Lines -> Nat] /\ \A l \in Lines : score[l] <= MaxUnits[l]
<1>1. orders \in Seq(Order) /\ cur \in 1..Len(orders)
  BY DEF ServiceInv, OrdersOK, Placed
<1>2. orders[cur].got \in Nat /\ orders[cur].gave \in Nat /\ orders[cur].items \in Nat
  BY <1>1, FieldsOf
<1> QED BY <1>1, <1>2 DEF ServiceInv, OrdersOK, RestOK, Pending

LEMMA TrayStep ==
  ASSUME ServiceInv, Relay \/ Load \/ Carry \/ Present
  PROVE  ServiceInv'
<1>0. phase \in {"relay", "load", "carry", "present"} /\ phase \in Working \ Approaching
  BY DEF Relay, Load, Carry, Present, Working, Approaching, Trips
<1>1. /\ orders \in Seq(Order) /\ cur \in 1..Len(orders) /\ item \in Nat
      /\ orders[cur].got \in Nat /\ orders[cur].gave \in Nat /\ orders[cur].items \in Nat
      /\ orders[cur].items > 0 /\ orders[cur].status \notin {"SERVED", "FAILED"}
      /\ orders[cur].got <= orders[cur].items /\ orders[cur].gave <= orders[cur].items
      /\ score \in [Lines -> Nat] /\ \A l \in Lines : score[l] <= MaxUnits[l]
      /\ orders[cur].gave = 0
      /\ phase \in {"relay", "load"} => orders[cur].got = 0
  BY <1>0, InDelivery DEF ServiceInv, Pending, Fresh
<1>2. CASE Relay
  <2>1. /\ UNCHANGED <<mode, tries, book, batch, cur, sight, item, unsure, score>>
        /\ phase = "relay" /\ goal' = "bar"
    BY <1>2 DEF Relay, ToBar, inHand
  <2>2. Wrote(orders[cur].at, "RELAYED", orders[cur].items, orders[cur].who,
              orders[cur].got, orders[cur].gave)
    BY <1>1, <1>2, StatusWrites DEF Relay, Statuses
  <2>3. \/ phase' \in {"load", "pick"}
        \/ mode.batched /\ phase' = "deliver"
        \/ ~mode.batched /\ phase' = "scan"
    BY <1>2, Zenon DEF Relay, Delivered
  <2>4. Books'
    BY <1>1, <2>1, <2>2, BooksUnmoved
  <2>5. item \in Nat /\ (phase' = "pick" => orders[cur].got <= item /\ item <= orders[cur].items)
    BY <1>1, <1>2, <2>1 DEF ServiceInv, Pending
  <2> QED BY <1>0, <1>1, <2>1, <2>2, <2>3, <2>4, <2>5, DeliveryStep
          DEF Working, Approaching, Trips
<1>3. CASE Load
  <2>1. /\ UNCHANGED <<mode, tries, book, batch, cur, sight, item, unsure, goal>>
        /\ phase = "load" /\ phase' = "carry"
    BY <1>3 DEF Load, inHand
  <2>2. PICK heard \in GoAhead :
          LET n == IF heard THEN orders[cur].items ELSE 0 IN
          /\ orders' = [orders EXCEPT ![cur].status = "PICKED", ![cur].got = n]
          /\ score' = Award(score, "pickup_items", n)
    BY <1>3 DEF Load
  <2>3. PICK n \in {0, orders[cur].items} :
          /\ orders' = [orders EXCEPT ![cur].status = "PICKED", ![cur].got = n]
          /\ score' = Award(score, "pickup_items", n)
    BY <2>2, Zenon
  <2>4. n \in Nat /\ n <= orders[cur].items /\ n = orders[cur].got + n
        /\ orders[cur].gave + 0 = orders[cur].gave
    BY <1>1, <2>1, <2>3
  <2>5. Wrote(orders[cur].at, "PICKED", orders[cur].items, orders[cur].who, n, orders[cur].gave)
    BY <1>1, <2>3, <2>4, PickedWrites
  <2>6. Wrote(orders[cur].at, "PICKED", orders[cur].items, orders[cur].who,
              orders[cur].got + n, orders[cur].gave + 0)
    BY <2>4, <2>5
  <2>7. /\ Books'
        /\ score' \in [Lines -> Nat] /\ \A l \in Lines : score'[l] <= MaxUnits[l]
    BY <1>1, <2>3, <2>4, <2>6, BooksMore
  <2>8. goal' \in {"bar", "room"} /\ item' \in Nat
    BY <1>0, <2>1, InDelivery
  <2> QED BY <1>0, <1>1, <2>1, <2>4, <2>5, <2>7, <2>8, DeliveryStep
          DEF Working, Approaching, Trips
<1>4. CASE Carry
  <2>1. /\ UNCHANGED <<mode, tries, book, batch, cur, sight, item, unsure, score>>
        /\ phase = "carry" /\ phase' = "present" /\ goal' = "room"
    BY <1>4 DEF Carry, ToRoom, inHand
  <2>2. PICK p \in Refound : orders' = [orders EXCEPT ![cur].at = p]
    BY <1>4 DEF Carry
  <2>3. Wrote(p, orders[cur].status, orders[cur].items, orders[cur].who,
              orders[cur].got, orders[cur].gave)
    BY <1>1, <2>2, RefoundIsPoint, FoundWrites
  <2>4. Books'
    BY <1>1, <2>1, <2>3, BooksUnmoved
  <2> QED BY <1>0, <1>1, <2>1, <2>3, <2>4, DeliveryStep DEF Working, Approaching, Trips
<1>5. CASE Present
  <2>1. /\ UNCHANGED <<mode, tries, book, batch, cur, sight, item, unsure>>
        /\ phase = "present" /\ goal' = "bar"
    BY <1>5 DEF Present, ToBar, inHand
  <2>2. (mode.batched /\ phase' = "deliver") \/ (~mode.batched /\ phase' = "scan")
    BY <1>5, DeliveredIs DEF Present
  <2>3. \/ /\ orders' = [orders EXCEPT ![cur].status = "SERVED",
                                       ![cur].gave = orders[cur].items]
           /\ score' = Award(score, "serve_order", orders[cur].items)
        \/ UNCHANGED <<orders, score>>
    BY <1>5, Zenon DEF Present
  <2>4. CASE /\ orders' = [orders EXCEPT ![cur].status = "SERVED",
                                         ![cur].gave = orders[cur].items]
             /\ score' = Award(score, "serve_order", orders[cur].items)
    <3>1. Wrote(orders[cur].at, "SERVED", orders[cur].items, orders[cur].who,
                orders[cur].got, orders[cur].items)
      BY <1>1, <2>4, ServedWrites
    <3>2. Wrote(orders[cur].at, "SERVED", orders[cur].items, orders[cur].who,
                orders[cur].got + 0, orders[cur].gave + orders[cur].items)
      BY <1>1, <3>1
    <3>3. /\ Books'
          /\ score' \in [Lines -> Nat] /\ \A l \in Lines : score'[l] <= MaxUnits[l]
      BY <1>1, <2>4, <3>2, BooksMore
    <3>4. phase' \in {"deliver", "scan"} /\ phase' \notin Working
          /\ goal' \in {"bar", "room"} /\ item' \in Nat
      BY <1>1, <2>1, <2>2 DEF Working, Approaching, Trips
    <3>5. /\ orders[cur].items \in Nat /\ orders[cur].items > 0
          /\ orders[cur].items <= orders[cur].items /\ orders[cur].got \in Nat
          /\ orders[cur].got <= orders[cur].items
      BY <1>1
    <3>6. phase' \notin Trips
      BY <3>4 DEF Working
    <3> QED BY <1>0, <2>1, <2>2, <3>1, <3>3, <3>4, <3>5, <3>6, DeliveryStep
  <2>5. CASE UNCHANGED <<orders, score>>
    <3>1. Books' /\ OrdersOK'
      BY <2>1, <2>5, BooksSame, OrdersSame DEF ServiceInv, OrdersOK
    <3>2. RestOK'
      BY <2>1, <2>2, <2>5 DEF ServiceInv, RestOK, book, batch, sight
    <3>3. Placed'
      BY <2>1, <2>2, <2>5
         DEF ServiceInv, Placed, book, batch, sight, Working, Approaching, Trips
    <3>4. Pending'
      BY <2>1, <2>2, <2>5 DEF ServiceInv, Pending, Fresh, batch, Working, Approaching, Trips
    <3>5. Honest'
      BY <2>1, <2>5 DEF ServiceInv, Honest, Trips
    <3> QED BY <3>1, <3>2, <3>3, <3>4, <3>5 DEF ServiceInv
  <2> QED BY <2>3, <2>4, <2>5
<1> QED BY <1>2, <1>3, <1>4, <1>5

LEMMA TripStep ==
  ASSUME ServiceInv, Pick \/ PickEnds \/ Bring \/ BringLost \/ Place
  PROVE  ServiceInv'
<1>0. phase \in Trips /\ phase \in Working \ Approaching
  BY DEF Pick, PickEnds, Bring, BringLost, Place, Working, Approaching, Trips
<1>1. /\ orders \in Seq(Order) /\ cur \in 1..Len(orders) /\ item \in Nat
      /\ orders[cur].got \in Nat /\ orders[cur].gave \in Nat /\ orders[cur].items \in Nat
      /\ orders[cur].items > 0 /\ orders[cur].status \notin {"SERVED", "FAILED"}
      /\ orders[cur].got <= orders[cur].items /\ orders[cur].gave <= orders[cur].items
      /\ score \in [Lines -> Nat] /\ \A l \in Lines : score[l] <= MaxUnits[l]
      /\ goal \in {"bar", "room"}
      /\ orders[cur].got <= item /\ item <= orders[cur].items
      /\ orders[cur].gave + (IF phase = "pick" THEN 0 ELSE 1) <= orders[cur].got
  BY <1>0, InDelivery DEF ServiceInv, Pending
<1>2. CASE Pick
  <2>1. /\ UNCHANGED <<mode, tries, book, batch, cur, sight, unsure, goal>>
        /\ phase = "pick" /\ phase' = "bring" /\ item < orders[cur].items /\ item' = item + 1
        /\ orders' = [orders EXCEPT ![cur].status = "PICKED", ![cur].got = @ + 1]
        /\ score' = Award(score, "pickup_items", 1)
    BY <1>2 DEF Pick, sight
  <2> DEFINE n == orders[cur].got + 1
  <2>2. n \in Nat /\ orders' = [orders EXCEPT ![cur].status = "PICKED", ![cur].got = n]
    BY <1>1, <2>1, LenProperties
  <2>3. Wrote(orders[cur].at, "PICKED", orders[cur].items, orders[cur].who,
              orders[cur].got + 1, orders[cur].gave + 0)
    <3> HIDE DEF n
    <3>1. Wrote(orders[cur].at, "PICKED", orders[cur].items, orders[cur].who, n, orders[cur].gave)
      BY <1>1, <2>2, PickedWrites
    <3> QED BY <1>1, <3>1 DEF n
  <2>4. /\ Books'
        /\ score' \in [Lines -> Nat] /\ \A l \in Lines : score'[l] <= MaxUnits[l]
    BY <1>1, <2>1, <2>3, BooksMore
  <2>5. /\ item' \in Nat /\ n <= item' /\ item' <= orders[cur].items
        /\ n <= orders[cur].items
        /\ orders[cur].gave + (IF phase' = "pick" THEN 0 ELSE 1) <= n
    BY <1>1, <2>1
  <2>6. Wrote(orders[cur].at, "PICKED", orders[cur].items, orders[cur].who, n, orders[cur].gave)
    BY <1>1, <2>3
  <2>7. phase' \in Working \ Approaching /\ phase' \in Trips
        /\ phase' \notin {"relay", "load", "carry", "present"}
    BY <2>1 DEF Working, Approaching, Trips
  <2>8. orders[cur].gave \in Nat /\ orders[cur].gave <= orders[cur].items
        /\ goal' \in {"bar", "room"}
        /\ UNCHANGED <<mode, tries, book, batch, cur, sight, unsure>>
    BY <1>1, <2>1
  <2> HIDE DEF n
  <2> QED BY <1>0, <2>2, <2>4, <2>5, <2>6, <2>7, <2>8, DeliveryStep
<1>3. CASE PickEnds \/ BringLost
  <2>1. /\ UNCHANGED <<mode, tries, book, batch, cur, sight, item, unsure, score>>
        /\ goal' \in {"bar", "room"} /\ Conclude
    BY <1>1, <1>3 DEF PickEnds, BringLost, ToBar, inHand
  <2>2. (mode.batched /\ phase' = "deliver") \/ (~mode.batched /\ phase' = "scan")
    BY <2>1, DeliveredIs DEF Conclude
  <2> DEFINE s == IF orders[cur].gave > 0 THEN "SERVED" ELSE orders[cur].status
  <2>3. Wrote(orders[cur].at, s, orders[cur].items, orders[cur].who,
              orders[cur].got, orders[cur].gave)
    BY <1>1, <2>1, ConcludeWrites
  <2>4. /\ s = "SERVED" => orders[cur].gave > 0
        /\ orders[cur].gave > 0 => s = "SERVED"
    BY <1>1
  <2> HIDE DEF s
  <2>5. Books'
    BY <1>1, <2>1, <2>3, BooksUnmoved
  <2> QED BY <1>0, <1>1, <2>1, <2>2, <2>3, <2>4, <2>5, DeliveryStep
          DEF Working, Approaching, Trips
<1>4. CASE Bring
  <2>1. /\ UNCHANGED <<mode, tries, book, batch, cur, sight, item, unsure, score>>
        /\ phase = "bring" /\ phase' = "place" /\ goal' = "room"
    BY <1>4 DEF Bring, ToRoom, inHand
  <2>2. PICK p \in Refound : orders' = [orders EXCEPT ![cur].at = p]
    BY <1>4 DEF Bring
  <2>3. Wrote(p, orders[cur].status, orders[cur].items, orders[cur].who,
              orders[cur].got, orders[cur].gave)
    BY <1>1, <2>2, RefoundIsPoint, FoundWrites
  <2>4. Books'
    BY <1>1, <2>1, <2>3, BooksUnmoved
  <2> QED BY <1>0, <1>1, <2>1, <2>3, <2>4, DeliveryStep DEF Working, Approaching, Trips
<1>5. CASE Place
  <2>1. /\ UNCHANGED <<mode, tries, book, batch, cur, sight, item, unsure>>
        /\ phase = "place" /\ phase' = "pick" /\ goal' = "bar"
    BY <1>5 DEF Place, ToBar, inHand
  <2>2. CASE /\ orders' = [orders EXCEPT ![cur].gave = @ + 1]
             /\ score' = Award(score, "serve_order", 1)
    <3>1. Wrote(orders[cur].at, orders[cur].status, orders[cur].items, orders[cur].who,
                orders[cur].got, orders[cur].gave + 1)
      <4> DEFINE n == orders[cur].gave + 1
      <4>1. n \in Nat /\ orders' = [orders EXCEPT ![cur].gave = n]
        BY <1>1, <2>2, LenProperties
      <4> HIDE DEF n
      <4>2. Wrote(orders[cur].at, orders[cur].status, orders[cur].items, orders[cur].who,
                  orders[cur].got, n)
        BY <1>1, <4>1, PlacedWrites
      <4> QED BY <4>2 DEF n
    <3>2. Wrote(orders[cur].at, orders[cur].status, orders[cur].items, orders[cur].who,
                orders[cur].got + 0, orders[cur].gave + 1)
      BY <1>1, <3>1
    <3>3. /\ Books'
          /\ score' \in [Lines -> Nat] /\ \A l \in Lines : score'[l] <= MaxUnits[l]
      BY <1>1, <2>2, <3>2, BooksMore
    <3>4. /\ orders[cur].gave + 1 \in Nat /\ orders[cur].gave + 1 <= orders[cur].got
          /\ orders[cur].gave + 1 <= orders[cur].items
      BY <1>1, <2>1
    <3> QED BY <1>0, <1>1, <2>1, <3>1, <3>3, <3>4, DeliveryStep DEF Working, Approaching, Trips
  <2>3. CASE UNCHANGED <<orders, score>>
    <3>1. Books' /\ OrdersOK'
      BY <2>1, <2>3, BooksSame, OrdersSame DEF ServiceInv, OrdersOK
    <3>2. RestOK'
      BY <2>1, <2>3 DEF ServiceInv, RestOK, book, batch, sight, Working, Trips
    <3>3. Placed'
      BY <2>1, <2>3
         DEF ServiceInv, Placed, book, batch, sight, Working, Approaching, Trips
    <3>4. Pending'
      <4>1. orders[cur].gave + 0 <= orders[cur].got
        BY <1>1
      <4>2. \A i \in 1..Len(taken) :
              /\ Fresh(taken[i]) /\ orders[taken[i]].items > 0 /\ taken[i] # cur
              /\ \A j \in 1..Len(taken) : taken[i] = taken[j] => i = j
        BY <1>0 DEF ServiceInv, Pending
      <4>3. /\ phase' = "pick" /\ orders' = orders /\ taken' = taken /\ cur' = cur
            /\ item' = item
        BY <2>1, <2>3 DEF batch
      <4> QED BY <1>1, <4>1, <4>2, <4>3 DEF Pending, Fresh, Working, Approaching, Trips
    <3>5. Honest'
      BY <2>1, <2>3 DEF ServiceInv, Honest, Trips
    <3> QED BY <3>1, <3>2, <3>3, <3>4, <3>5 DEF ServiceInv
  <2> QED BY <1>5, <2>2, <2>3 DEF Place
<1> QED BY <1>2, <1>3, <1>4, <1>5

-----------------------------------------------------------------------------
LEMMA ServiceStarts == Init => ServiceInv
<1> SUFFICES ASSUME Init PROVE ServiceInv
  OBVIOUS
<1>1. OrdersOK
  BY DEF Init, OrdersOK
<1>2. RestOK
  <2>1. NoCaller \in [who : Customers \cup {NoOne}, at : Points]
    BY DEF NoCaller, Points
  <2>2. MaxUnits \in [Lines -> Nat]
    BY Room, Zenon
  <2>3. tries \in 0..Tries /\ attempts \in 0..(Target + ExtraAttempts) /\ steps \in 0..MaxSteps
        /\ Len(<<>>) <= Target
    BY Counts DEF Init
  <2>4. /\ handled = <<>> /\ giveups = <<>> /\ callers = <<>> /\ taken = <<>>
        /\ score = [l \in Lines |-> 0] /\ mode \in Modes /\ phase = "anchor"
        /\ caller = NoCaller /\ target = 0 /\ item = 0 /\ goal = "bar" /\ unsure = FALSE
    BY DEF Init
  <2>5. score \in [Lines -> Nat] /\ \A l \in Lines : score[l] <= MaxUnits[l]
    BY <2>2, <2>4
  <2>6. /\ handled \in Seq(Int) /\ Len(handled) <= Target
        /\ giveups \in Seq([at : Int, fails : Nat])
        /\ callers \in Seq([who : Customers, at : Int]) /\ taken \in Seq(Nat)
    BY <2>3, <2>4
  <2>7. caller \in [who : Customers \cup {NoOne}, at : Points]
    BY <2>1, <2>4
  <2>8. /\ target \in Int /\ item \in Nat /\ goal \in {"bar", "room"}
        /\ phase \in Working \cup {"anchor", "scan", "sweep", "gather", "deliver", "over"}
    BY <2>4
  <2>9. unsure \in BOOLEAN /\ mode \in Modes
    BY <2>4
  <2> QED BY <2>3, <2>5, <2>6, <2>7, <2>8, <2>9, Zenon DEF RestOK
<1>3. Placed /\ Pending /\ Honest
  BY Counts DEF Init, Placed, Pending, Honest, Working, Approaching, Trips
<1>4. Books
  <2>1. Got = <<>> /\ Gave = <<>>
    BY DEF Init, Got, Gave
  <2>2. Total(Got) = 0 /\ Total(Gave) = 0
    BY <2>1, TotalOfNone
  <2>3. MaxUnits \in [Lines -> Nat]
    BY Room, Zenon
  <2> QED BY <2>2, <2>3 DEF Init, Books, Claimed, Lines
<1> QED BY <1>1, <1>2, <1>3, <1>4 DEF ServiceInv

LEMMA ServiceGoesOn == ServiceInv /\ [Next]_vars => ServiceInv'
<1> SUFFICES ASSUME ServiceInv, [Next]_vars PROVE ServiceInv'
  OBVIOUS
<1>1. CASE Anchors \/ AnchorFails \/ ScanFindsNobody \/ ScanEnds \/ GatherEnds
  BY <1>1, QuietPhases
<1>2. CASE ScanFinds
  BY <1>2, ScanFindsStep
<1>3. CASE Sweep \/ DeliverNext
  BY <1>3, QuietBatch
<1>4. CASE GatherNext
  BY <1>4, GatherNextStep
<1>5. CASE ApproachRefines \/ ApproachRecovers
  BY <1>5, QuietApproach
<1>6. CASE ApproachFails \/ AskFails
  BY <1>6, FailsStep
<1>7. CASE ApproachReaches
  BY <1>7, ReachesStep
<1>8. CASE AskUnderstood
  BY <1>8, AskStep
<1>9. CASE Relay \/ Load \/ Carry \/ Present
  BY <1>9, TrayStep
<1>10. CASE CarryLost \/ PickFails
  BY <1>10, QuietTrips
<1>11. CASE Pick \/ PickEnds \/ Bring \/ BringLost \/ Place
  BY <1>11, TripStep
<1>12. CASE Raises
  BY <1>12, QuietRaises
<1>13. CASE UNCHANGED vars
  <2>1. OrdersOK' /\ Books'
    BY <1>13, OrdersSame, BooksSame DEF ServiceInv, OrdersOK, vars, inHand
  <2>2. RestOK'
    BY <1>13 DEF ServiceInv, RestOK, vars, book, batch, inHand, sight
  <2>3. Placed' /\ Pending' /\ Honest'
    BY <1>13 DEF ServiceInv, Placed, Pending, Honest, Fresh, vars, book, batch, inHand, sight
  <2> QED BY <2>1, <2>2, <2>3 DEF ServiceInv
<1> QED
  BY <1>1, <1>2, <1>3, <1>4, <1>5, <1>6, <1>7, <1>8, <1>9, <1>10, <1>11, <1>12, <1>13
     DEF Next

(* However the sweeps, approaches, failures and repetitions of a step fall, an *)
(* order exists whenever one is in hand, and the books stay in step.           *)
THEOREM ServiceInvariant == Spec => []ServiceInv
<1> QED BY ServiceStarts, ServiceGoesOn, PTL DEF Spec

(* The task's state is of its type for any number of customers, attempts and   *)
(* settings, and no order has more received or handed over than was ordered.   *)
THEOREM RestaurantTypeCorrect == Spec => []TypeOK
<1>1. ServiceInv => TypeOK
  BY DEF ServiceInv, OrdersOK, RestOK, TypeOK, Working, Approaching, Trips
<1> QED BY <1>1, ServiceInvariant, PTL

(* _deliver_order, _serve_with_tray and _pick_and_serve: an order is SERVED    *)
(* only if the customer took it or got it placed, every such order is called   *)
(* SERVED when its delivery is over, and the score claims what was confirmed,  *)
(* for any number of orders and items and whatever fails on the way.           *)
THEOREM ServedTheorem == Spec => []ServedIsConfirmed
<1>1. ServiceInv => ServedIsConfirmed
  BY DEF ServiceInv, Honest, Books, ServedIsConfirmed, Trips
<1> QED BY <1>1, ServiceInvariant, PTL

-----------------------------------------------------------------------------
(* One order each, and patience.  The tables must be apart: with two customers *)
(* within RESTAURANT_REACQUIRE_RADIUS_M of each other even an exact sighting   *)
(* may be refined to the neighbour.                                            *)
TablesApart ==
  \A c, d \in Customers : c # d => Distance(Seat[c], Seat[d]) > ReacquireRadius

(* As long as nothing was unsure, who has ordered sits at a handled point, and *)
(* has ordered once; the caller in hand sits where it was seen, and where its  *)
(* order is, and at no handled point.                                          *)
Known ==
  unsure \/
  /\ \A o \in 1..Len(orders) :
       orders[o].who # NoOne => Seat[orders[o].who] \in Range(handled)
  /\ \A o, q \in 1..Len(orders) :
       orders[o].who # NoOne /\ orders[o].who = orders[q].who => o = q
  /\ phase \in Approaching =>
       /\ caller.at = Seat[caller.who] /\ orders[cur].at = caller.at
       /\ Open(caller, Range(handled))
       /\ phase = "approach" => target = caller.at

(* A batch visits each place of its sweep once.                                *)
FailedOrder(o) == orders[o].status = "FAILED"
Visited ==
  mode.batched =>
    /\ \A i, j \in 1..Len(callers) : callers[i].at = callers[j].at => i = j
    /\ phase \in Approaching => \A i \in 1..Len(callers) : callers[i].at # caller.at
    /\ ~unsure =>
         /\ phase = "sweep" => orders = <<>>
         /\ \A o, q \in 1..Len(orders) :
              FailedOrder(o) /\ FailedOrder(q) /\ orders[o].at = orders[q].at => o = q
         /\ \A o \in 1..Len(orders) : FailedOrder(o) =>
              /\ \A i \in 1..Len(callers) : callers[i].at # orders[o].at
              /\ phase \in Approaching => caller.at # orders[o].at

(* Serving one by one, the first spot near a seat has counted every order that *)
(* failed there, and no caller is near a spot that has counted enough.         *)
Counted(c) ==
  FailuresAt(Seat[c]) # {} =>
    \E i \in 1..Len(giveups) :
      /\ FirstNear(giveups, Seat[c], i)
      /\ Cardinality(FailuresAt(Seat[c])) <= giveups[i].fails
Patient ==
  ~mode.batched =>
    /\ \A i \in 1..Len(giveups) :
         /\ giveups[i].fails <= MaxFails
         /\ phase \in Approaching /\ Near(caller.at, giveups[i].at, HandledRadius)
              => giveups[i].fails < MaxFails
    /\ ~unsure => \A c \in Customers : Counted(c)

-----------------------------------------------------------------------------
LEMMA NearIsNoFurther ==
  ASSUME NEW c \in Customers, NEW d \in Customers, TablesApart,
         Near(Seat[d], Seat[c], ReacquireRadius)
  PROVE  d = c
<1>1. Seat[c] \in Int /\ Seat[d] \in Int /\ ReacquireRadius \in Nat
  BY SeatIsPoint, Counts
<1>2. Seat[d] - Seat[c] \in (-ReacquireRadius)..ReacquireRadius
  BY DEF Near
<1>3. SUFFICES ASSUME d # c PROVE FALSE
  OBVIOUS
<1>4. Distance(Seat[d], Seat[c]) > ReacquireRadius
  BY <1>3 DEF TablesApart
<1> QED BY <1>1, <1>2, <1>4 DEF Distance

LEMMA RefinedAlone ==
  ASSUME NEW c \in Customers, NEW q \in Refined(Seat[c]), TablesApart
  PROVE  q = Seat[c]
<1>1. CASE q \in {Seat[d] : d \in UNION {PersonNear(Seat[c], ReacquireRadius, v)
                                          : v \in SUBSET Customers}}
  <2>1. PICK d \in UNION {PersonNear(Seat[c], ReacquireRadius, v) : v \in SUBSET Customers} :
          q = Seat[d]
    BY <1>1
  <2>2. d \in Customers /\ Near(Seat[d], Seat[c], ReacquireRadius)
    BY <2>1, NearPoints
  <2> QED BY <2>1, <2>2, NearIsNoFurther
<1> QED BY <1>1 DEF Refined

LEMMA AnswersAlone ==
  ASSUME NEW c \in Customers, NEW d \in Answering(Seat[c]), TablesApart
  PROVE  d = c
<1>1. d \in Customers /\ Near(Seat[d], Seat[c], ReacquireRadius)
  BY NearPoints DEF Answering
<1> QED BY <1>1, NearIsNoFurther

LEMMA NearSelf ==
  ASSUME NEW p \in Int
  PROVE  Near(p, p, HandledRadius)
<1>1. p # NoFix
  BY Room, Zenon
<1> QED BY <1>1, Counts DEF Near

LEMMA NearBothWays ==
  ASSUME NEW p \in Int, NEW q \in Int
  PROVE  Near(p, q, HandledRadius) <=> Near(q, p, HandledRadius)
BY Counts DEF Near

(* No order changes hands, and none fails or is forgotten to have failed.      *)
Stays ==
  /\ Len(orders') = Len(orders)
  /\ \A o \in 1..Len(orders) :
       /\ orders'[o].who = orders[o].who
       /\ orders[o].status = "FAILED" \/ orders'[o].status = "FAILED"
            => orders'[o] = orders[o]

LEMMA WroteStays ==
  ASSUME cur \in 1..Len(orders), orders[cur].status # "FAILED", NEW p, NEW s, NEW n,
         NEW g, NEW h, s # "FAILED", Wrote(p, s, n, orders[cur].who, g, h)
  PROVE  Stays
BY DEF Stays, Wrote

LEMMA DeliveryStays ==
  ASSUME ServiceInv,
         \/ Relay \/ Load \/ Carry \/ CarryLost \/ Present
         \/ Pick \/ PickFails \/ PickEnds \/ Bring \/ BringLost \/ Place
  PROVE  /\ Stays /\ phase' \notin Approaching \cup {"sweep"}
         /\ UNCHANGED <<mode, attempts, handled, giveups, callers, unsure>>
<1>1. phase \in Working \ Approaching
  BY DEF Relay, Load, Carry, CarryLost, Present, Pick, PickFails, PickEnds, Bring, BringLost,
         Place, Working, Approaching, Trips
<1>2. /\ orders \in Seq(Order) /\ cur \in 1..Len(orders)
      /\ orders[cur].status \notin {"SERVED", "FAILED"}
      /\ orders[cur].items \in Nat /\ orders[cur].got \in Nat /\ orders[cur].gave \in Nat
  BY <1>1, InDelivery
<1>3. UNCHANGED <<mode, attempts, handled, giveups, callers, unsure>>
  BY DEF Relay, Load, Carry, CarryLost, Present, Pick, PickFails, PickEnds, Bring, BringLost,
         Place, book, batch
<1>4. phase' \notin Approaching \cup {"sweep"}
  <2>1. phase' \in {"load", "pick", "carry", "present", "bring", "place", "deliver", "scan"}
    <3>1. CASE Relay
      BY <3>1, Zenon DEF Relay, Delivered
    <3>2. CASE CarryLost \/ Present \/ PickEnds \/ BringLost
      BY <3>2, DeliveredIs DEF CarryLost, Present, PickEnds, BringLost, Conclude
    <3>3. CASE Load \/ Carry \/ Pick \/ PickFails \/ Bring \/ Place
      BY <3>3 DEF Load, Carry, Pick, PickFails, Bring, Place
    <3> QED BY <3>1, <3>2, <3>3
  <2> QED BY <2>1 DEF Approaching
<1>5. Stays
  <2>1. CASE CarryLost \/ PickFails \/ UNCHANGED orders
    BY <2>1 DEF CarryLost, PickFails, Stays
  <2>2. CASE Relay
    BY <1>2, <2>2, StatusWrites, WroteStays DEF Relay, Statuses
  <2>3. CASE Load
    <3>1. PICK n \in {0, orders[cur].items} :
            orders' = [orders EXCEPT ![cur].status = "PICKED", ![cur].got = n]
      BY <2>3, Zenon DEF Load
    <3>2. n \in Nat
      BY <1>2, <3>1
    <3> QED BY <1>2, <3>1, <3>2, PickedWrites, WroteStays
  <2>4. CASE Carry \/ Bring
    <3>1. PICK p \in Refound : orders' = [orders EXCEPT ![cur].at = p]
      BY <2>4 DEF Carry, Bring
    <3> QED BY <1>2, <3>1, RefoundIsPoint, FoundWrites, WroteStays
  <2>5. CASE Present
    <3>1. \/ orders' = [orders EXCEPT ![cur].status = "SERVED", ![cur].gave = orders[cur].items]
          \/ UNCHANGED orders
      BY <2>5, Zenon DEF Present
    <3> QED BY <1>2, <2>1, <3>1, ServedWrites, WroteStays
  <2>6. CASE Pick
    <3> DEFINE n == orders[cur].got + 1
    <3>1. n \in Nat /\ orders' = [orders EXCEPT ![cur].status = "PICKED", ![cur].got = n]
      BY <1>2, <2>6, LenProperties DEF Pick
    <3> HIDE DEF n
    <3> QED BY <1>2, <3>1, PickedWrites, WroteStays
  <2>7. CASE PickEnds \/ BringLost
    <3>1. Conclude
      BY <2>7 DEF PickEnds, BringLost
    <3> DEFINE s == IF orders[cur].gave > 0 THEN "SERVED" ELSE orders[cur].status
    <3>2. s # "FAILED"
      BY <1>2
    <3>3. Wrote(orders[cur].at, s, orders[cur].items, orders[cur].who, orders[cur].got,
                orders[cur].gave)
      BY <1>2, <3>1, ConcludeWrites
    <3> HIDE DEF s
    <3> QED BY <1>2, <3>2, <3>3, WroteStays
  <2>8. CASE Place
    <3> DEFINE n == orders[cur].gave + 1
    <3>1. n \in Nat /\ (orders' = [orders EXCEPT ![cur].gave = n] \/ UNCHANGED orders)
      BY <1>2, <2>8, LenProperties DEF Place
    <3> HIDE DEF n
    <3> QED BY <1>2, <2>1, <3>1, PlacedWrites, WroteStays
  <2> QED BY <2>1, <2>2, <2>3, <2>4, <2>5, <2>6, <2>7, <2>8
<1> QED BY <1>3, <1>4, <1>5

LEMMA LoopStays ==
  ASSUME ServiceInv,
         \/ Anchors \/ AnchorFails \/ ScanFindsNobody \/ ScanEnds \/ GatherEnds \/ DeliverNext
  PROVE  /\ Stays /\ phase' \notin Approaching /\ (phase' = "sweep" => orders' = <<>>)
         /\ UNCHANGED <<mode, handled, giveups, callers, unsure>>
<1>1. UNCHANGED <<mode, handled, giveups, callers, orders, unsure>>
  BY DEF Anchors, AnchorFails, ScanFindsNobody, ScanEnds, GatherEnds, DeliverNext, book, batch
<1>2. phase' \notin Approaching /\ (phase' = "sweep" => orders' = <<>>)
  <2>1. CASE Anchors
    BY <1>1, <2>1, FirstPhaseIs DEF Anchors, ServiceInv, Placed, Approaching
  <2>2. CASE AnchorFails \/ ScanFindsNobody \/ ScanEnds \/ GatherEnds \/ DeliverNext
    <3>1. phase' \in {"anchor", "over", "scan", "deliver", "relay"}
      BY <2>2 DEF AnchorFails, ScanFindsNobody, ScanEnds, GatherEnds, DeliverNext
    <3> QED BY <3>1 DEF Approaching
  <2> QED BY <2>1, <2>2
<1> QED BY <1>1, <1>2 DEF Stays

(* What a step of the task is, as far as who ordered and what failed goes.     *)
Looped == /\ Stays /\ phase' \notin Approaching
          /\ phase' = "sweep" => orders' = <<>>
          /\ UNCHANGED <<mode, handled, giveups, callers, unsure>>
Skipped == /\ phase = "gather" /\ phase' = "gather" /\ callers # <<>> /\ callers' = Tail(callers)
           /\ UNCHANGED <<mode, orders, handled, giveups, unsure>>
Begun(call) ==
  /\ call \in [who : Customers, at : Points]
  /\ BeginOrder(call)
  /\ \/ /\ phase = "scan" /\ ~mode.batched /\ call \in NextCaller /\ callers' = callers
     \/ /\ phase = "gather" /\ mode.batched /\ Open(call, Range(handled))
        /\ callers # <<>> /\ call = Head(callers) /\ callers' = Tail(callers)
  /\ UNCHANGED <<mode, handled, giveups>>

LEMMA StepKinds ==
  ASSUME ServiceInv, [Next]_vars
  PROVE  \/ Looped
         \/ Skipped
         \/ Sweep
         \/ \E call : Begun(call)
         \/ ApproachFails \/ AskFails
         \/ ApproachRefines \/ ApproachRecovers \/ ApproachReaches
         \/ AskUnderstood
         \/ Raises
         \/ UNCHANGED vars
<1>1. CASE \/ Anchors \/ AnchorFails \/ ScanFindsNobody \/ ScanEnds \/ GatherEnds \/ DeliverNext
  BY <1>1, LoopStays DEF Looped
<1>2. CASE \/ Relay \/ Load \/ Carry \/ CarryLost \/ Present
           \/ Pick \/ PickFails \/ PickEnds \/ Bring \/ BringLost \/ Place
  BY <1>2, DeliveryStays DEF Looped
<1>3. CASE ScanFinds
  <2>1. PICK call \in NextCaller : BeginOrder(call)
    BY <1>3 DEF ScanFinds
  <2>2. call \in [who : Customers, at : Points]
    BY SightingIs DEF NextCaller
  <2>3. /\ phase = "scan" /\ ~mode.batched
        /\ UNCHANGED <<mode, handled, giveups, callers>>
    BY <1>3 DEF ServiceInv, Placed, ScanFinds, batch
  <2>4. Begun(call)
    BY <2>1, <2>2, <2>3 DEF Begun
  <2> QED BY <2>4
<1>4. CASE GatherNext
  <2>1. /\ phase = "gather" /\ callers # <<>> /\ callers' = Tail(callers)
        /\ UNCHANGED <<mode, handled, giveups>>
    BY <1>4 DEF GatherNext, book
  <2>2. CASE Open(Head(callers), Range(handled))
    <3>1. BeginOrder(Head(callers)) /\ mode.batched
      BY <1>4, <2>1, <2>2 DEF GatherNext, ServiceInv, Placed
    <3>2. Head(callers) \in [who : Customers, at : Points]
      <4> DEFINE W == [who : Customers, at : Int]
      <4>1. callers \in Seq(W)
        BY DEF ServiceInv, RestOK
      <4> HIDE DEF W
      <4>2. Head(callers) \in W
        BY <2>1, <4>1, HeadIsMember
      <4> QED BY <4>2 DEF W, Points
    <3>3. Begun(Head(callers))
      BY <2>1, <2>2, <3>1, <3>2 DEF Begun
    <3> QED BY <3>3
  <2>3. CASE ~Open(Head(callers), Range(handled))
    <3>1. UNCHANGED <<phase, orders, unsure>>
      BY <1>4, <2>3 DEF GatherNext
    <3> QED BY <2>1, <3>1 DEF Skipped
  <2> QED BY <2>2, <2>3
<1> QED BY <1>1, <1>2, <1>3, <1>4 DEF Next

LEMMA HandledIs ==
  ASSUME ServiceInv
  PROVE  /\ Range(handled) = {handled[i] : i \in 1..Len(handled)}
         /\ Range(handled) \subseteq Int
<1>1. handled \in Seq(Int)
  BY DEF ServiceInv, RestOK
<1> QED BY <1>1, ElementOfSeq, LenProperties DEF Range

LEMMA BlockedIs ==
  ASSUME ServiceInv, NEW call, Open(call, Blocked)
  PROVE  /\ Open(call, Range(handled))
         /\ \A i \in 1..Len(giveups) :
              Near(call.at, giveups[i].at, HandledRadius) => giveups[i].fails < MaxFails
<1>1. Open(call, Range(handled))
  BY DEF Open, Blocked
<1>2. ASSUME NEW i \in 1..Len(giveups), Near(call.at, giveups[i].at, HandledRadius)
      PROVE  giveups[i].fails < MaxFails
  <2>1. giveups \in Seq(Spots)
    BY DEF ServiceInv, RestOK, Spots
  <2>2. giveups[i] \in Spots /\ giveups[i] \in Range(giveups)
    BY <2>1, ElementOfSeq, LenProperties DEF Range
  <2>3. giveups[i].fails \in Nat
    BY <2>2 DEF Spots
  <2>4. ~(giveups[i].fails >= MaxFails)
    BY <1>2, <2>2 DEF Open, Blocked
  <2> QED BY <2>3, <2>4, Counts
<1> QED BY <1>1, <1>2

LEMMA KnownStep ==
  ASSUME TablesApart, ServiceInv, Known, [Next]_vars
  PROVE  Known'
<1>0. orders \in Seq(Order) /\ Len(orders) \in Nat
  BY LenProperties DEF ServiceInv, OrdersOK
<1>1. CASE Looped
  BY <1>1 DEF Looped, Stays, Known
<1>2. CASE Skipped \/ Sweep
  <2>1. UNCHANGED <<orders, handled, unsure>> /\ phase' \notin Approaching
    BY <1>2 DEF Skipped, Sweep, book, Approaching
  <2> QED BY <2>1 DEF Known
<1>3. CASE \E call : Begun(call)
  <2>1. PICK call : Begun(call)
    BY <1>3
  <2>2. /\ call.who \in Customers /\ call.at \in Points /\ BeginOrder(call)
        /\ UNCHANGED handled
    BY <2>1 DEF Begun
  <2>3. /\ Len(orders') = Len(orders) + 1 /\ cur' = Len(orders) + 1
        /\ \A o \in 1..Len(orders) : orders'[o] = orders[o]
        /\ orders'[cur'].at = call.at /\ orders'[cur'].who = NoOne
    BY <1>0, <2>2, BeginWrites
  <2>4. Open(call, Range(handled))
    <3>1. CASE call \in NextCaller
      BY <3>1, BlockedIs DEF NextCaller
    <3>2. CASE Open(call, Range(handled))
      BY <3>2
    <3> QED BY <2>1, <3>1, <3>2 DEF Begun
  <2>5. /\ unsure' = (unsure \/ call.at # Seat[call.who]) /\ caller' = call
        /\ phase' = "approach"
        /\ target' \in IF call.at = NoFix THEN Lifts(call.who) ELSE {call.at}
    BY <2>2 DEF BeginOrder
  <2>6. SUFFICES ASSUME ~unsure' PROVE Known'
    BY DEF Known
  <2>7. ~unsure /\ call.at = Seat[call.who]
    BY <2>5, <2>6
  <2>8. call.at # NoFix
    BY <2>2, <2>7, SeatIsPoint
  <2>9. /\ caller'.at = Seat[caller'.who] /\ orders'[cur'].at = caller'.at /\ target' = caller'.at
        /\ Open(caller', Range(handled'))
    BY <2>2, <2>3, <2>4, <2>5, <2>7, <2>8
  <2>10. \A o \in 1..Len(orders') :
           orders'[o].who # NoOne => o \in 1..Len(orders) /\ orders'[o] = orders[o]
    BY <1>0, <2>3
  <2>11. \A o \in 1..Len(orders') : orders'[o].who # NoOne => Seat[orders'[o].who] \in Range(handled')
    BY <2>2, <2>7, <2>10 DEF Known
  <2>12. \A o, q \in 1..Len(orders') :
           orders'[o].who # NoOne /\ orders'[o].who = orders'[q].who => o = q
    BY <2>7, <2>10 DEF Known
  <2> QED BY <2>9, <2>11, <2>12 DEF Known, Open
<1>4. CASE ApproachFails \/ AskFails
  <2>1. GiveUp /\ phase \in Approaching /\ UNCHANGED unsure
    BY <1>4 DEF ApproachFails, AskFails, Approaching
  <2>2. phase' \notin Approaching /\ UNCHANGED handled
    BY <2>1, GiveUpIs DEF Approaching, GiveUp
  <2>3. cur \in 1..Len(orders)
    BY <2>1 DEF ServiceInv, Placed, Working
  <2>4. Wrote(orders[cur].at, "FAILED", orders[cur].items, orders[cur].who, orders[cur].got,
            orders[cur].gave)
    BY <1>0, <2>1, <2>3, StatusWrites DEF GiveUp, Statuses
  <2>5. Len(orders') = Len(orders) /\ \A o \in 1..Len(orders) : orders'[o].who = orders[o].who
    BY <2>4 DEF Wrote
  <2> QED BY <2>1, <2>2, <2>5 DEF Known
<1>5. CASE ApproachRefines
  <2>1. /\ UNCHANGED <<phase, handled, orders, cur, caller, unsure>> /\ phase = "approach"
        /\ target' \in IF mode.live THEN Refined(target) ELSE {target}
    BY <1>5 DEF ApproachRefines, book
  <2>2. SUFFICES ASSUME ~unsure PROVE Known'
    BY <2>1 DEF Known
  <2>3. target = Seat[caller.who] /\ caller.who \in Customers /\ target = caller.at
    BY <2>1, <2>2 DEF Known, ServiceInv, Placed, Approaching
  <2>4. target' \in Refined(target)
    <3>1. target \in Refined(target)
      BY DEF Refined
    <3> QED BY <2>1, <3>1, Zenon
  <2>5. target' = target
    BY <2>3, <2>4, RefinedAlone
  <2> QED BY <2>1, <2>5 DEF Known
<1>6. CASE ApproachRecovers
  <2>1. unsure' = TRUE
    BY <1>6 DEF ApproachRecovers
  <2> QED BY <2>1 DEF Known
<1>7. CASE ApproachReaches
  <2>1. /\ UNCHANGED <<handled, cur, caller, unsure>> /\ phase = "approach" /\ phase' = "ask"
    BY <1>7 DEF ApproachReaches, book
  <2>2. SUFFICES ASSUME ~unsure PROVE Known'
    BY <2>1 DEF Known
  <2>3. /\ target = Seat[caller.who] /\ caller.who \in Customers /\ target = caller.at
        /\ cur \in 1..Len(orders)
    BY <2>1, <2>2 DEF Known, ServiceInv, Placed, Approaching, Working
  <2>4. PICK p \in SeatUpClose :
          orders' = [orders EXCEPT ![cur].at = p, ![cur].status = "APPROACHED"]
    BY <1>7 DEF ApproachReaches
  <2>5. p \in Refined(target)
    BY <2>3, Zenon DEF SeatUpClose
  <2>6. p = caller.at /\ p \in Points
    BY <2>3, <2>5, RefinedAlone, SeatIsPoint
  <2>7. Wrote(p, "APPROACHED", orders[cur].items, orders[cur].who, orders[cur].got,
            orders[cur].gave)
    BY <1>0, <2>3, <2>4, <2>6, ReachWrites
  <2>8. /\ Len(orders') = Len(orders) /\ \A o \in 1..Len(orders) : orders'[o].who = orders[o].who
        /\ orders'[cur].at = caller.at
    BY <2>6, <2>7 DEF Wrote
  <2> QED BY <2>1, <2>8 DEF Known, Approaching, Open
<1>8. CASE AskUnderstood
  <2> DEFINE x == IF mode.batched THEN caller.at ELSE orders[cur].at
  <2>1. /\ UNCHANGED <<cur, unsure>> /\ phase = "ask" /\ handled' = Append(handled, x)
        /\ phase' \notin Approaching
    BY <1>8, Zenon DEF AskUnderstood, Approaching
  <2>2. SUFFICES ASSUME ~unsure PROVE Known'
    BY <2>1 DEF Known
  <2>3. /\ orders[cur].at = Seat[caller.who] /\ caller.who \in Customers
        /\ orders[cur].at = caller.at /\ cur \in 1..Len(orders)
        /\ Open(caller, Range(handled))
    BY <2>1, <2>2 DEF Known, ServiceInv, Placed, Approaching, Working
  <2>4. x = Seat[caller.who]
    BY <2>3, Zenon
  <2> HIDE DEF x
  <2>5. PICK c \in Answering(orders[cur].at), n \in Sizes : Ordered(c, n)
    BY <1>8 DEF AskUnderstood
  <2>6. c = caller.who
    BY <2>3, <2>5, AnswersAlone
  <2>7. Wrote(orders[cur].at, "ORDERED", n, c, orders[cur].got, orders[cur].gave)
    BY <1>0, <2>3, <2>5, <2>6, OrderedWrites
  <2>8. /\ Len(orders') = Len(orders) /\ orders'[cur].who = c
        /\ \A o \in 1..Len(orders) : o # cur => orders'[o] = orders[o]
    BY <2>7 DEF Wrote
  <2>9. /\ Range(handled) \subseteq Range(handled') /\ x \in Range(handled')
    <3>1. handled \in Seq(Int) /\ x \in Int
      BY <2>3, <2>4, SeatIsPoint DEF ServiceInv, RestOK
    <3>2. /\ handled' \in Seq(Int) /\ Len(handled') = Len(handled) + 1 /\ Len(handled) \in Nat
          /\ \A i \in 1..Len(handled) : handled'[i] = handled[i]
          /\ handled'[Len(handled) + 1] = x
      BY <2>1, <3>1, AppendProperties, LenProperties
    <3>3. DOMAIN handled = 1..Len(handled) /\ DOMAIN handled' = 1..(Len(handled) + 1)
      BY <3>1, <3>2, LenProperties
    <3> QED BY <3>2, <3>3 DEF Range
  <2>10. \A o \in 1..Len(orders) : orders[o].who = c => FALSE
    <3>1. SUFFICES ASSUME NEW o \in 1..Len(orders), orders[o].who = c PROVE FALSE
      OBVIOUS
    <3>2. c # NoOne
      BY <2>3, <2>6, Room, Zenon
    <3>3. Seat[c] \in Range(handled)
      BY <2>2, <3>1, <3>2 DEF Known
    <3>4. ~Near(Seat[c], Seat[c], HandledRadius)
      BY <2>3, <2>6, <3>3 DEF Open
    <3> QED BY <2>3, <2>6, <3>4, NearSelf, SeatIsPoint
  <2>11. \A o \in 1..Len(orders') :
           orders'[o].who # NoOne => Seat[orders'[o].who] \in Range(handled')
    BY <2>2, <2>4, <2>6, <2>8, <2>9 DEF Known
  <2>12. \A o, q \in 1..Len(orders') :
           orders'[o].who # NoOne /\ orders'[o].who = orders'[q].who => o = q
    BY <2>2, <2>8, <2>10 DEF Known
  <2> QED BY <2>1, <2>11, <2>12 DEF Known
<1>9. CASE Raises
  <2>1. orders' = orders /\ unsure' = (unsure \/ orders # <<>>)
        /\ phase' \notin Approaching
    <3>1. phase' \in {"sweep", "scan", "over"}
      BY <1>9, FirstPhaseIs DEF Raises
    <3> QED BY <1>9, <3>1 DEF Raises, Approaching
  <2>2. CASE orders = <<>>
    <3>1. Len(orders') = 0
      BY <2>1, <2>2
    <3> QED BY <2>1, <3>1 DEF Known
  <2>3. CASE orders # <<>>
    <3>1. unsure'
      BY <2>1, <2>3, Zenon
    <3> QED BY <3>1 DEF Known
  <2> QED BY <2>2, <2>3
<1>10. CASE UNCHANGED vars
  BY <1>10 DEF Known, vars, book, batch, inHand, sight, Open
<1> QED BY <1>1, <1>2, <1>3, <1>4, <1>5, <1>6, <1>7, <1>8, <1>9, <1>10, StepKinds

(* The places of a batch stay apart as it goes along.                          *)
LEMMA PlacesStep ==
  ASSUME ServiceInv, Visited, mode.batched, [Next]_vars
  PROVE  /\ \A i, j \in 1..Len(callers') : callers'[i].at = callers'[j].at => i = j
         /\ phase' \in Approaching => \A i \in 1..Len(callers') : callers'[i].at # caller'.at
<1>1. /\ \A i, j \in 1..Len(callers) : callers[i].at = callers[j].at => i = j
      /\ phase \in Approaching => \A i \in 1..Len(callers) : callers[i].at # caller.at
  BY DEF Visited
<1>2. CASE Looped \/ UNCHANGED vars \/ ApproachRefines \/ ApproachRecovers \/ ApproachReaches
  <2>1. CASE Looped
    BY <1>1, <2>1 DEF Looped
  <2>2. CASE UNCHANGED vars \/ ApproachRefines \/ ApproachRecovers \/ ApproachReaches
    <3>1. callers' = callers /\ caller' = caller /\ (phase' \in Approaching => phase \in Approaching)
      BY <2>2 DEF vars, batch, inHand, sight, ApproachRefines, ApproachRecovers,
                  ApproachReaches, Approaching
    <3> QED BY <1>1, <3>1
  <2> QED BY <1>2, <2>1, <2>2
<1>3. CASE Skipped \/ \E call : Begun(call)
  <2>1. /\ callers # <<>> /\ callers' = Tail(callers)
        /\ phase' \in Approaching => caller' = Head(callers)
    <3>1. CASE Skipped
      BY <3>1 DEF Skipped, Approaching
    <3>2. CASE \E call : Begun(call)
      BY <3>2 DEF Begun, BeginOrder, ServiceInv, Placed
    <3> QED BY <1>3, <3>1, <3>2
  <2> DEFINE W == [who : Customers, at : Int]
  <2>2. callers \in Seq(W)
    BY DEF ServiceInv, RestOK
  <2> HIDE DEF W
  <2>3. /\ Head(callers) = callers[1] /\ 1 \in 1..Len(callers)
        /\ Len(callers') = Len(callers) - 1 /\ Len(callers) \in Nat
        /\ \A i \in 1..Len(callers') : callers'[i] = callers[i + 1] /\ i + 1 \in 1..Len(callers)
    BY <2>1, <2>2, HeadIsMember, LenProperties
  <2>4. ASSUME NEW i \in 1..Len(callers'), NEW j \in 1..Len(callers'),
               callers'[i].at = callers'[j].at
        PROVE  i = j
    <3>1. callers[i + 1].at = callers[j + 1].at
      BY <2>3, <2>4
    <3>2. i + 1 = j + 1
      BY <1>1, <2>3, <3>1
    <3> QED BY <2>3, <3>2
  <2>5. ASSUME NEW i \in 1..Len(callers') PROVE callers'[i].at # Head(callers).at
    <3>1. callers'[i] = callers[i + 1] /\ i + 1 \in 1..Len(callers) /\ i + 1 # 1
      BY <2>3
    <3> QED BY <1>1, <2>3, <3>1
  <2> QED BY <2>1, <2>4, <2>5
<1>4. CASE Sweep
  <2>1. PICK seen \in Swept : callers' \in NearestFirst(seen)
    BY <1>4 DEF Sweep
  <2>2. phase' \notin Approaching
    BY <1>4 DEF Sweep, Approaching
  <2> QED BY <2>1, <2>2, RowIs
<1>5. CASE ApproachFails \/ AskFails \/ AskUnderstood
  <2>1. callers' = callers /\ phase' \notin Approaching
    <3>1. CASE ApproachFails \/ AskFails
      BY <3>1, GiveUpIs DEF ApproachFails, AskFails, batch, Approaching
    <3>2. CASE AskUnderstood
      BY <3>2 DEF AskUnderstood, Approaching
    <3> QED BY <1>5, <3>1, <3>2
  <2> QED BY <1>1, <2>1
<1>6. CASE Raises
  <2>1. callers' = <<>> /\ phase' \notin Approaching
    BY <1>6, FirstPhaseIs DEF Raises, Approaching
  <2> QED BY <2>1
<1> QED BY <1>2, <1>3, <1>4, <1>5, <1>6, StepKinds

(* Each failed order of a batch is at a place the batch has left behind.       *)
FailuresApart ==
  /\ phase = "sweep" => orders = <<>>
  /\ \A o, q \in 1..Len(orders) :
       FailedOrder(o) /\ FailedOrder(q) /\ orders[o].at = orders[q].at => o = q
  /\ \A o \in 1..Len(orders) : FailedOrder(o) =>
       /\ \A i \in 1..Len(callers) : callers[i].at # orders[o].at
       /\ phase \in Approaching => caller.at # orders[o].at

LEMMA FailuresApartStep ==
  ASSUME ServiceInv, Known, Visited, mode.batched, ~unsure', [Next]_vars
  PROVE  FailuresApart'
<1>0. orders \in Seq(Order) /\ Len(orders) \in Nat
  BY LenProperties DEF ServiceInv, OrdersOK
<1>1. ~unsure => FailuresApart
  BY DEF Visited, FailuresApart
<1>2. CASE Looped
  <2>1. /\ Stays /\ phase' \notin Approaching
        /\ phase' = "sweep" => orders' = <<>>
        /\ callers' = callers /\ ~unsure
    BY <1>2 DEF Looped
  <2>2. ASSUME NEW o \in 1..Len(orders'), FailedOrder(o)'
        PROVE  o \in 1..Len(orders) /\ orders'[o] = orders[o] /\ FailedOrder(o)
    BY <2>1, <2>2 DEF Stays, FailedOrder
  <2> QED BY <1>1, <2>1, <2>2 DEF FailuresApart
<1>3. CASE Skipped
  <2>1. callers # <<>> /\ callers' = Tail(callers) /\ UNCHANGED <<orders, phase>> /\ ~unsure
        /\ phase' \notin Approaching \cup {"sweep"}
    BY <1>3 DEF Skipped, Approaching
  <2>2. \A i \in 1..Len(callers') : callers'[i] = callers[i + 1] /\ i + 1 \in 1..Len(callers)
    <3> DEFINE W == [who : Customers, at : Int]
    <3>1. callers \in Seq(W)
      BY DEF ServiceInv, RestOK
    <3> HIDE DEF W
    <3> QED BY <2>1, <3>1, HeadIsMember
  <2> QED BY <1>1, <2>1, <2>2 DEF FailuresApart, FailedOrder
<1>4. CASE Sweep
  <2>1. orders = <<>> /\ orders' = <<>>
    BY <1>1, <1>4 DEF Sweep, FailuresApart
  <2>2. Len(orders') = 0
    BY <2>1
  <2> QED BY <2>1, <2>2 DEF FailuresApart
<1>5. CASE \E call : Begun(call)
  <2>1. PICK call : Begun(call)
    BY <1>5
  <2>2. /\ call.at \in Points /\ BeginOrder(call)
        /\ callers # <<>> /\ call = Head(callers) /\ callers' = Tail(callers)
    BY <2>1 DEF Begun
  <2>3. /\ Len(orders') = Len(orders) + 1 /\ cur' = Len(orders) + 1
        /\ \A o \in 1..Len(orders) : orders'[o] = orders[o]
        /\ orders'[cur'].status = "DETECTED"
    BY <1>0, <2>2, BeginWrites
  <2>4. ~unsure /\ caller' = call /\ phase' = "approach"
    BY <2>2 DEF BeginOrder
  <2>5. ASSUME NEW o \in 1..Len(orders'), FailedOrder(o)'
        PROVE  o \in 1..Len(orders) /\ orders'[o] = orders[o] /\ FailedOrder(o)
    BY <1>0, <2>3, <2>5 DEF FailedOrder
  <2>6. /\ \A i \in 1..Len(callers') : callers'[i] = callers[i + 1] /\ i + 1 \in 1..Len(callers)
        /\ Head(callers) = callers[1] /\ 1 \in 1..Len(callers)
    <3> DEFINE W == [who : Customers, at : Int]
    <3>1. callers \in Seq(W)
      BY DEF ServiceInv, RestOK
    <3> HIDE DEF W
    <3> QED BY <2>2, <3>1, HeadIsMember
  <2>7. ASSUME NEW o \in 1..Len(orders'), FailedOrder(o)'
        PROVE  /\ \A i \in 1..Len(callers') : callers'[i].at # orders'[o].at
               /\ caller'.at # orders'[o].at
    <3>1. o \in 1..Len(orders) /\ orders'[o] = orders[o] /\ FailedOrder(o)
      BY <2>5, <2>7
    <3>2. \A i \in 1..Len(callers) : callers[i].at # orders[o].at
      BY <1>1, <2>4, <3>1 DEF FailuresApart
    <3> QED BY <2>2, <2>4, <2>6, <3>1, <3>2
  <2>8. ASSUME NEW o \in 1..Len(orders'), NEW q \in 1..Len(orders'), FailedOrder(o)', FailedOrder(q)',
               orders'[o].at = orders'[q].at
        PROVE  o = q
    <3>1. /\ o \in 1..Len(orders) /\ orders'[o] = orders[o] /\ FailedOrder(o)
          /\ q \in 1..Len(orders) /\ orders'[q] = orders[q] /\ FailedOrder(q)
      BY <2>5, <2>8
    <3> QED BY <1>1, <2>4, <2>8, <3>1 DEF FailuresApart
  <2> QED BY <2>4, <2>7, <2>8 DEF FailuresApart
<1>6. CASE ApproachFails \/ AskFails
  <2>1. GiveUp /\ phase \in Approaching /\ ~unsure /\ callers' = callers
    BY <1>6 DEF ApproachFails, AskFails, Approaching, batch
  <2>2. phase' = "gather"
    BY <2>1, GiveUpIs
  <2>3. cur \in 1..Len(orders)
    BY <2>1 DEF ServiceInv, Placed, Working
  <2>4. Wrote(orders[cur].at, "FAILED", orders[cur].items, orders[cur].who, orders[cur].got,
            orders[cur].gave)
    BY <1>0, <2>1, <2>3, StatusWrites DEF GiveUp, Statuses
  <2>5. /\ Len(orders') = Len(orders) /\ orders'[cur].at = caller.at
        /\ \A o \in 1..Len(orders) : o # cur => orders'[o] = orders[o]
    BY <2>1, <2>4 DEF Wrote, Known
  <2>6. \A o \in 1..Len(orders) : FailedOrder(o) =>
          /\ \A i \in 1..Len(callers) : callers[i].at # orders[o].at
          /\ caller.at # orders[o].at
    BY <1>1, <2>1 DEF FailuresApart
  <2>7. \A i \in 1..Len(callers) : callers[i].at # caller.at
    BY <2>1 DEF Visited
  <2>8. ASSUME NEW o \in 1..Len(orders'), NEW q \in 1..Len(orders'), FailedOrder(o)', FailedOrder(q)',
               orders'[o].at = orders'[q].at
        PROVE  o = q
    <3>1. o # cur => orders'[o] = orders[o] /\ FailedOrder(o) /\ o \in 1..Len(orders)
      BY <2>5, <2>8 DEF FailedOrder
    <3>2. q # cur => orders'[q] = orders[q] /\ FailedOrder(q) /\ q \in 1..Len(orders)
      BY <2>5, <2>8 DEF FailedOrder
    <3>3. CASE o # cur /\ q # cur
      BY <1>1, <2>1, <2>8, <3>1, <3>2, <3>3 DEF FailuresApart
    <3>4. CASE o = cur /\ q # cur
      BY <2>5, <2>6, <2>8, <3>2, <3>4
    <3>5. CASE o # cur /\ q = cur
      BY <2>5, <2>6, <2>8, <3>1, <3>5
    <3> QED BY <3>3, <3>4, <3>5
  <2>9. ASSUME NEW o \in 1..Len(orders'), FailedOrder(o)'
        PROVE  \A i \in 1..Len(callers') : callers'[i].at # orders'[o].at
    <3>1. CASE o = cur
      BY <2>1, <2>5, <2>7, <3>1
    <3>2. CASE o # cur
      BY <2>1, <2>5, <2>6, <2>9, <3>2 DEF FailedOrder
    <3> QED BY <3>1, <3>2
  <2> QED BY <2>2, <2>8, <2>9 DEF FailuresApart, Approaching
<1>7. CASE ApproachRefines
  <2>1. /\ UNCHANGED <<orders, callers, caller, phase>> /\ ~unsure /\ phase = "approach"
    BY <1>7 DEF ApproachRefines, batch
  <2> QED BY <1>1, <2>1 DEF FailuresApart, FailedOrder
<1>8. CASE ApproachRecovers
  BY <1>8 DEF ApproachRecovers
<1>9. CASE ApproachReaches \/ AskUnderstood
  <2>1. /\ callers' = callers /\ ~unsure /\ phase \in Approaching /\ Fresh(cur)
        /\ cur \in 1..Len(orders) /\ phase' # "sweep"
        /\ phase' \in Approaching => caller' = caller
    BY <1>9 DEF ApproachReaches, AskUnderstood, batch, Approaching, Working, ServiceInv, Placed,
                Pending
  <2>2. /\ Len(orders') = Len(orders) /\ orders'[cur].status # "FAILED"
        /\ \A o \in 1..Len(orders) : o # cur => orders'[o] = orders[o]
    <3>1. CASE ApproachReaches
      BY <1>0, <2>1, <3>1, LenProperties, FieldsOf DEF ApproachReaches, Order
    <3>2. CASE AskUnderstood
      BY <1>0, <2>1, <3>2, LenProperties, FieldsOf DEF AskUnderstood, Ordered, Order
    <3> QED BY <1>9, <3>1, <3>2
  <2>3. ASSUME NEW o \in 1..Len(orders'), FailedOrder(o)'
        PROVE  o \in 1..Len(orders) /\ orders'[o] = orders[o] /\ FailedOrder(o)
    BY <2>2, <2>3 DEF FailedOrder
  <2>4. phase' \in Approaching => phase \in Approaching
    BY <2>1
  <2> QED BY <1>1, <2>1, <2>3 DEF FailuresApart
<1>10. CASE Raises
  <2>1. orders' = orders /\ unsure' = (unsure \/ orders # <<>>)
    BY <1>10 DEF Raises
  <2>2. orders = <<>>
    BY <2>1, Zenon
  <2>3. Len(orders') = 0 /\ orders' = <<>>
    BY <2>1, <2>2
  <2> QED BY <2>3 DEF FailuresApart
<1>11. CASE UNCHANGED vars
  BY <1>1, <1>11 DEF FailuresApart, FailedOrder, vars, batch, inHand, sight
<1> QED BY <1>2, <1>3, <1>4, <1>5, <1>6, <1>7, <1>8, <1>9, <1>10, <1>11, StepKinds

-----------------------------------------------------------------------------
(* Patience of the serial loop.                                                *)

SpotsOK ==
  \A i \in 1..Len(giveups) :
    /\ giveups[i].fails <= MaxFails
    /\ phase \in Approaching /\ Near(caller.at, giveups[i].at, HandledRadius)
         => giveups[i].fails < MaxFails

LEMMA NotedIs ==
  ASSUME NEW spots \in Seq(Spots), NEW i \in 1..Len(spots), NEW more,
         more = [spots EXCEPT ![i].fails = @ + 1]
  PROVE  /\ Len(more) = Len(spots) /\ more[i].at = spots[i].at
         /\ more[i].fails = spots[i].fails + 1 /\ spots[i].fails \in Nat
         /\ \A j \in 1..Len(spots) : j # i => more[j] = spots[j]
         /\ \A j \in 1..Len(spots) : more[j].at = spots[j].at
<1>1. spots[i] \in Spots /\ DOMAIN spots = 1..Len(spots)
  BY ElementOfSeq, LenProperties
<1> DEFINE r == [spots[i] EXCEPT !.fails = @ + 1]
<1>2. r \in Spots /\ r.at = spots[i].at /\ r.fails = spots[i].fails + 1 /\ spots[i].fails \in Nat
  BY <1>1 DEF Spots
<1>3. more = [spots EXCEPT ![i] = r]
  BY <1>1
<1> HIDE DEF r
<1>4. Len([spots EXCEPT ![i] = r]) = Len(spots)
  BY <1>1, <1>2, ExceptSeq
<1>5. more[i] = r /\ \A j \in 1..Len(spots) : j # i => more[j] = spots[j]
  BY <1>1, <1>3
<1> QED BY <1>2, <1>3, <1>4, <1>5

LEMMA SpotsStep ==
  ASSUME ServiceInv, SpotsOK, ~mode.batched, [Next]_vars
  PROVE  SpotsOK'
<1>0. giveups \in Seq(Spots) /\ caller.at \in Points
  BY DEF ServiceInv, RestOK, Spots
<1>1. CASE Looped \/ Skipped
  BY <1>1 DEF Looped, Skipped, SpotsOK, Approaching
<1>2. CASE Sweep \/ Skipped
  BY <1>2 DEF Sweep, Skipped, book, SpotsOK, Approaching
<1>3. CASE \E call : Begun(call)
  <2>1. PICK call : Begun(call)
    BY <1>3
  <2>2. Open(call, Blocked) /\ giveups' = giveups /\ caller' = call
    BY <2>1 DEF Begun, NextCaller, BeginOrder, ServiceInv, Placed
  <2> QED BY <2>2, BlockedIs DEF SpotsOK
<1>4. CASE ApproachFails \/ AskFails
  <2>1. GiveUp /\ phase \in Approaching
    BY <1>4 DEF ApproachFails, AskFails, Approaching
  <2>2. phase' \notin Approaching /\ giveups' = NoteFailure(giveups, caller.at)
    BY <2>1, GiveUpIs DEF Approaching
  <2>3. CASE caller.at = NoFix
    <3>1. giveups' = giveups
      BY <2>2, <2>3, Zenon DEF NoteFailure
    <3> QED BY <2>2, <3>1 DEF SpotsOK
  <2>4. CASE caller.at # NoFix
    <3>1. caller.at \in Int
      BY <1>0, <2>4 DEF Points
    <3>2. CASE giveups' = Append(giveups, [at |-> caller.at, fails |-> 1])
      <4>1. [at |-> caller.at, fails |-> 1] \in Spots
        BY <3>1 DEF Spots
      <4>2. /\ Len(giveups') = Len(giveups) + 1 /\ Len(giveups) \in Nat
            /\ \A i \in 1..Len(giveups) : giveups'[i] = giveups[i]
            /\ giveups'[Len(giveups) + 1] = [at |-> caller.at, fails |-> 1]
        BY <1>0, <3>2, <4>1, AppendProperties, LenProperties
      <4>3. ASSUME NEW i \in 1..Len(giveups') PROVE giveups'[i].fails <= MaxFails
        <5>1. CASE i = Len(giveups) + 1
          BY <4>2, <5>1, Counts
        <5>2. CASE i # Len(giveups) + 1
          BY <4>2, <5>2 DEF SpotsOK
        <5> QED BY <5>1, <5>2
      <4> QED BY <2>2, <4>3 DEF SpotsOK
    <3>3. CASE \E i \in 1..Len(giveups) :
                 /\ FirstNear(giveups, caller.at, i)
                 /\ giveups' = [giveups EXCEPT ![i].fails = @ + 1]
      <4>1. PICK i \in 1..Len(giveups) :
              /\ FirstNear(giveups, caller.at, i)
              /\ giveups' = [giveups EXCEPT ![i].fails = @ + 1]
        BY <3>3
      <4>2. /\ Len(giveups') = Len(giveups) /\ giveups'[i].fails = giveups[i].fails + 1
            /\ giveups[i].fails \in Nat
            /\ \A j \in 1..Len(giveups) : j # i => giveups'[j] = giveups[j]
        BY <1>0, <4>1, NotedIs
      <4>3. Near(caller.at, giveups[i].at, HandledRadius)
        <5>1. giveups[i].at \in Int
          BY <1>0, <4>1, SpotIs
        <5> QED BY <3>1, <4>1, <5>1, NearBothWays DEF FirstNear
      <4>4. giveups[i].fails < MaxFails
        BY <2>1, <4>3 DEF SpotsOK
      <4>5. giveups'[i].fails <= MaxFails
        BY <4>2, <4>4, Counts
      <4>6. \A j \in 1..Len(giveups') : giveups'[j].fails <= MaxFails
        BY <4>2, <4>5 DEF SpotsOK
      <4> QED BY <2>2, <4>6 DEF SpotsOK
    <3> QED BY <1>0, <2>2, <3>1, <3>2, <3>3, NoteFailureIs
  <2> QED BY <2>3, <2>4
<1>5. CASE ApproachRefines \/ ApproachRecovers \/ ApproachReaches
  <2>1. giveups' = giveups /\ caller' = caller /\ phase \in Approaching
    BY <1>5 DEF ApproachRefines, ApproachRecovers, ApproachReaches, book, Approaching
  <2> QED BY <2>1 DEF SpotsOK
<1>6. CASE AskUnderstood
  <2>1. giveups' = giveups /\ phase' \notin Approaching
    BY <1>6 DEF AskUnderstood, Approaching
  <2> QED BY <2>1 DEF SpotsOK
<1>7. CASE Raises
  <2>1. giveups' = <<>>
    BY <1>7 DEF Raises
  <2> QED BY <2>1 DEF SpotsOK
<1>8. CASE UNCHANGED vars
  BY <1>8 DEF SpotsOK, vars, book, inHand, sight
<1> QED BY <1>1, <1>2, <1>3, <1>4, <1>5, <1>6, <1>7, <1>8, StepKinds

(* An order that has not failed before and after a step adds no failure.       *)
LEMMA FailuresSame ==
  ASSUME Len(orders') = Len(orders),
         \A o \in 1..Len(orders) :
           orders'[o] = orders[o] \/ (~FailedOrder(o) /\ ~FailedOrder(o)'),
         NEW p
  PROVE  FailuresAt(p)' = FailuresAt(p)
BY DEF FailuresAt, FailedOrder

LEMMA FailuresFinite ==
  ASSUME orders \in Seq(Order), NEW p
  PROVE  IsFiniteSet(FailuresAt(p)) /\ Cardinality(FailuresAt(p)) \in Nat
<1>1. 1 \in Int /\ Len(orders) \in Int
  BY LenProperties
<1>2. IsFiniteSet(1..Len(orders))
  BY <1>1, FS_Interval
<1>3. FailuresAt(p) \subseteq 1..Len(orders)
  BY DEF FailuresAt
<1> QED BY <1>2, <1>3, FS_Subset, FS_CardinalityType

LEMMA CountedSame ==
  ASSUME NEW c \in Customers, Counted(c), FailuresAt(Seat[c])' = FailuresAt(Seat[c]),
         giveups' = giveups
  PROVE  Counted(c)'
BY DEF Counted, FirstNear

LEMMA CountedStep ==
  ASSUME TablesApart, ServiceInv, Known, Patient, ~mode.batched, ~unsure', [Next]_vars,
         NEW c \in Customers
  PROVE  Counted(c)'
<1>0. /\ orders \in Seq(Order) /\ Len(orders) \in Nat /\ giveups \in Seq(Spots)
  BY LenProperties DEF ServiceInv, OrdersOK, RestOK, Spots
<1>1. ~unsure => Counted(c)
  BY DEF Patient
<1>2. CASE Looped
  <2>1. Stays /\ giveups' = giveups /\ ~unsure
    BY <1>2 DEF Looped
  <2>2. FailuresAt(Seat[c])' = FailuresAt(Seat[c])
    BY <2>1, FailuresSame DEF Stays, FailedOrder
  <2> QED BY <1>1, <2>1, <2>2, CountedSame
<1>3. CASE Skipped \/ Sweep \/ ApproachRefines \/ UNCHANGED vars
  <2>1. orders' = orders /\ giveups' = giveups /\ ~unsure
    BY <1>3 DEF Skipped, Sweep, ApproachRefines, vars, book
  <2>2. FailuresAt(Seat[c])' = FailuresAt(Seat[c])
    BY <2>1 DEF FailuresAt
  <2> QED BY <1>1, <2>1, <2>2, CountedSame
<1>4. CASE \E call : Begun(call)
  <2>1. PICK call : Begun(call)
    BY <1>4
  <2>2. call.at \in Points /\ BeginOrder(call) /\ giveups' = giveups
    BY <2>1 DEF Begun
  <2>3. /\ Len(orders') = Len(orders) + 1 /\ cur' = Len(orders) + 1
        /\ \A o \in 1..Len(orders) : orders'[o] = orders[o]
        /\ orders'[cur'].status = "DETECTED"
    BY <1>0, <2>2, BeginWrites
  <2>4. ~unsure
    BY <2>2 DEF BeginOrder
  <2>5. FailuresAt(Seat[c])' = FailuresAt(Seat[c])
    BY <1>0, <2>3 DEF FailuresAt
  <2> QED BY <1>1, <2>2, <2>4, <2>5, CountedSame
<1>5. CASE ApproachReaches \/ AskUnderstood
  <2>1. /\ giveups' = giveups /\ ~unsure /\ Fresh(cur) /\ cur \in 1..Len(orders)
    BY <1>5 DEF ApproachReaches, AskUnderstood, book, Approaching, Working, ServiceInv, Placed,
                Pending
  <2>2. /\ Len(orders') = Len(orders) /\ orders'[cur].status # "FAILED"
        /\ \A o \in 1..Len(orders) : o # cur => orders'[o] = orders[o]
    <3>1. CASE ApproachReaches
      BY <1>0, <2>1, <3>1, LenProperties, FieldsOf DEF ApproachReaches, Order
    <3>2. CASE AskUnderstood
      BY <1>0, <2>1, <3>2, LenProperties, FieldsOf DEF AskUnderstood, Ordered, Order
    <3> QED BY <1>5, <3>1, <3>2
  <2>3. FailuresAt(Seat[c])' = FailuresAt(Seat[c])
    BY <2>1, <2>2, FailuresSame DEF FailedOrder, Fresh
  <2> QED BY <1>1, <2>1, <2>3, CountedSame
<1>6. CASE ApproachFails \/ AskFails
  <2>1. GiveUp /\ phase \in Approaching /\ ~unsure
    BY <1>6 DEF ApproachFails, AskFails, Approaching
  <2>2. giveups' = NoteFailure(giveups, caller.at)
    BY <2>1, GiveUpIs
  <2>3. cur \in 1..Len(orders) /\ Fresh(cur)
    BY <2>1 DEF ServiceInv, Placed, Pending, Working
  <2>4. Wrote(orders[cur].at, "FAILED", orders[cur].items, orders[cur].who, orders[cur].got,
            orders[cur].gave)
    BY <1>0, <2>1, <2>3, StatusWrites DEF GiveUp, Statuses
  <2>5. /\ Len(orders') = Len(orders) /\ orders'[cur].at = caller.at
        /\ orders'[cur].status = "FAILED"
        /\ \A o \in 1..Len(orders) : o # cur => orders'[o] = orders[o]
    BY <2>1, <2>4 DEF Wrote, Known
  <2>6. caller.at \in Int
    BY <2>1, SeatIsPoint DEF Known, ServiceInv, Placed
  <2> DEFINE F == FailuresAt(Seat[c])
  <2>7. FailuresAt(Seat[c])' = IF Seat[c] = caller.at THEN F \cup {cur} ELSE F
    <3>1. CASE Seat[c] = caller.at
      BY <2>3, <2>5, <3>1 DEF FailuresAt
    <3>2. CASE Seat[c] # caller.at
      BY <2>3, <2>5, <3>2 DEF FailuresAt, Fresh
    <3> QED BY <3>1, <3>2
  <2>8. IsFiniteSet(F) /\ Cardinality(F) \in Nat /\ cur \notin F
    BY <1>0, <2>3, FailuresFinite DEF FailuresAt, Fresh
  <2>9. F = {} => Cardinality(F) = 0
    BY FS_EmptySet
  <2>10. Cardinality(F \cup {cur}) = Cardinality(F) + 1
    BY <2>8, FS_AddElement
  <2>11. F # {} => \E i \in 1..Len(giveups) :
                     FirstNear(giveups, Seat[c], i) /\ Cardinality(F) <= giveups[i].fails
    BY <1>1, <2>1 DEF Counted
  <2>12. \A i \in 1..Len(giveups) : giveups[i].at \in Int /\ giveups[i].fails \in Nat
    BY <1>0, SpotIs
  <2> HIDE DEF F
  <2> DEFINE n == IF Seat[c] = caller.at THEN Cardinality(F) + 1 ELSE Cardinality(F)
  <2>13. Cardinality(FailuresAt(Seat[c]))' = n
    BY <2>7, <2>10
  <2>14. (FailuresAt(Seat[c])' # {}) => F # {} \/ Seat[c] = caller.at
    BY <2>7
  <2>15. SUFFICES ASSUME F # {} \/ Seat[c] = caller.at
                  PROVE  \E i \in 1..Len(giveups') :
                           FirstNear(giveups', Seat[c], i) /\ n <= giveups'[i].fails
    BY <2>13, <2>14 DEF Counted, FirstNear
  <2>16. CASE /\ \A i \in 1..Len(giveups) : ~Near(giveups[i].at, caller.at, HandledRadius)
              /\ giveups' = Append(giveups, [at |-> caller.at, fails |-> 1])
    <3>1. [at |-> caller.at, fails |-> 1] \in Spots
      BY <2>6 DEF Spots
    <3>2. /\ Len(giveups') = Len(giveups) + 1 /\ Len(giveups) \in Nat
          /\ \A i \in 1..Len(giveups) : giveups'[i] = giveups[i]
          /\ giveups'[Len(giveups) + 1] = [at |-> caller.at, fails |-> 1]
      BY <1>0, <2>16, <3>1, AppendProperties, LenProperties
    <3>3. CASE Seat[c] = caller.at
      <4>1. F = {}
        BY <2>11, <2>16, <3>3 DEF FirstNear
      <4>2. n = 1
        BY <2>9, <3>3, <4>1
      <4>3. FirstNear(giveups', Seat[c], Len(giveups) + 1)
        <5>1. Near(caller.at, caller.at, HandledRadius)
          BY <2>6, NearSelf
        <5>2. \A j \in 1..Len(giveups) : ~Near(giveups'[j].at, caller.at, HandledRadius)
          BY <2>16, <3>2
        <5>3. Len(giveups) + 1 - 1 = Len(giveups)
          BY <3>2
        <5> QED BY <3>2, <3>3, <5>1, <5>2, <5>3 DEF FirstNear
      <4>4. Len(giveups) + 1 \in 1..Len(giveups') /\ giveups'[Len(giveups) + 1].fails = 1
        BY <3>2
      <4> HIDE DEF n
      <4> QED BY <4>2, <4>3, <4>4
    <3>4. CASE Seat[c] # caller.at
      <4>1. PICK i \in 1..Len(giveups) :
              FirstNear(giveups, Seat[c], i) /\ Cardinality(F) <= giveups[i].fails
        BY <2>11, <2>15, <3>4
      <4>2. i \in 1..Len(giveups') /\ giveups'[i] = giveups[i]
            /\ \A j \in 1..(i - 1) : giveups'[j] = giveups[j]
        BY <3>2
      <4>3. FirstNear(giveups', Seat[c], i)
        BY <4>1, <4>2 DEF FirstNear
      <4>4. n = Cardinality(F)
        BY <3>4
      <4> HIDE DEF n
      <4> QED BY <4>1, <4>2, <4>3, <4>4
    <3> QED BY <3>3, <3>4
  <2>17. CASE \E i \in 1..Len(giveups) :
                /\ FirstNear(giveups, caller.at, i)
                /\ giveups' = [giveups EXCEPT ![i].fails = @ + 1]
    <3>1. PICK k \in 1..Len(giveups) :
            /\ FirstNear(giveups, caller.at, k)
            /\ giveups' = [giveups EXCEPT ![k].fails = @ + 1]
      BY <2>17
    <3>2. /\ Len(giveups') = Len(giveups) /\ giveups'[k].fails = giveups[k].fails + 1
          /\ \A j \in 1..Len(giveups) : j # k => giveups'[j] = giveups[j]
          /\ \A j \in 1..Len(giveups) : giveups'[j].at = giveups[j].at
      BY <1>0, <3>1, NotedIs
    <3>3. Len(giveups) \in Nat
      BY <1>0, LenProperties
    <3>4. \A p : \A i \in 1..Len(giveups) : FirstNear(giveups, p, i) => FirstNear(giveups', p, i)
      BY <3>2, <3>3 DEF FirstNear
    <3>5. \A i \in 1..Len(giveups) : giveups[i].fails <= giveups'[i].fails
      BY <2>12, <3>2
    <3>6. CASE Seat[c] = caller.at
      <4>1. CASE F = {}
        <5>1. n = 1 /\ giveups'[k].fails >= 1
          BY <2>9, <2>12, <3>2, <3>6, <4>1
        <5>2. giveups'[k].fails \in Nat
          BY <2>12, <3>2
        <5> HIDE DEF n
        <5> QED BY <3>1, <3>2, <3>4, <3>6, <5>1, <5>2
      <4>2. CASE F # {}
        <5>1. PICK i \in 1..Len(giveups) :
                FirstNear(giveups, Seat[c], i) /\ Cardinality(F) <= giveups[i].fails
          BY <2>11, <4>2
        <5>2. i = k
          <6>1. ~(i < k)
            BY <3>1, <3>3, <3>6, <5>1 DEF FirstNear
          <6>2. ~(k < i)
            BY <3>1, <3>3, <3>6, <5>1 DEF FirstNear
          <6> QED BY <6>1, <6>2
        <5>3. n = Cardinality(F) + 1
          BY <3>6
        <5> HIDE DEF n
        <5>4. n <= giveups'[k].fails
          BY <2>8, <2>12, <3>2, <5>1, <5>2, <5>3
        <5> QED BY <3>1, <3>2, <3>4, <3>6, <5>4
      <4> QED BY <4>1, <4>2
    <3>7. CASE Seat[c] # caller.at
      <4>1. PICK i \in 1..Len(giveups) :
              FirstNear(giveups, Seat[c], i) /\ Cardinality(F) <= giveups[i].fails
        BY <2>11, <2>15, <3>7
      <4>2. n = Cardinality(F)
        BY <3>7
      <4>3. giveups'[i].fails \in Nat /\ giveups[i].fails <= giveups'[i].fails
        BY <2>12, <3>2, <3>5
      <4> HIDE DEF n
      <4>4. n <= giveups'[i].fails
        BY <2>8, <2>12, <4>1, <4>2, <4>3
      <4> QED BY <3>2, <3>4, <4>1, <4>4
    <3> QED BY <3>6, <3>7
  <2> QED BY <1>0, <2>2, <2>6, <2>16, <2>17, NoteFailureIs
<1>7. CASE ApproachRecovers
  BY <1>7 DEF ApproachRecovers
<1>8. CASE Raises
  <2>1. orders' = orders /\ unsure' = (unsure \/ orders # <<>>)
    BY <1>8 DEF Raises
  <2>2. orders = <<>>
    BY <2>1, Zenon
  <2>3. Len(orders') = 0
    BY <2>1, <2>2
  <2>4. FailuresAt(Seat[c])' = {}
    BY <2>3 DEF FailuresAt
  <2> QED BY <2>4 DEF Counted
<1> QED BY <1>2, <1>3, <1>4, <1>5, <1>6, <1>7, <1>8, StepKinds

-----------------------------------------------------------------------------
SureInv == Known /\ Visited /\ Patient

LEMMA SureStarts == Init => SureInv
<1> SUFFICES ASSUME Init PROVE SureInv
  OBVIOUS
<1>1. /\ orders = <<>> /\ giveups = <<>> /\ callers = <<>> /\ phase = "anchor"
      /\ Len(<<>>) = 0
  BY DEF Init
<1>2. \A c \in Customers : FailuresAt(Seat[c]) = {}
  BY <1>1 DEF FailuresAt
<1>3. Known
  BY <1>1 DEF Known, Approaching
<1>4. Visited
  BY <1>1 DEF Visited, Approaching
<1>5. Patient
  BY <1>1, <1>2 DEF Patient, Counted
<1> QED BY <1>3, <1>4, <1>5 DEF SureInv

LEMMA SureGoesOn ==
  ASSUME TablesApart, ServiceInv, SureInv, [Next]_vars
  PROVE  SureInv'
<1>0. mode' = mode
  <2>1. CASE Looped \/ Skipped \/ \E call : Begun(call)
    BY <2>1 DEF Looped, Skipped, Begun
  <2>2. CASE Sweep \/ ApproachFails \/ AskFails \/ ApproachRefines \/ ApproachRecovers
             \/ ApproachReaches \/ AskUnderstood \/ Raises \/ UNCHANGED vars
    BY <2>2 DEF Sweep, ApproachFails, AskFails, ApproachRefines, ApproachRecovers,
                ApproachReaches, AskUnderstood, Raises, vars
  <2> QED BY <2>1, <2>2, StepKinds
<1>1. Known'
  BY KnownStep DEF SureInv
<1>2. Visited'
  <2>1. CASE mode.batched
    <3>1. ~unsure' => FailuresApart'
      BY <2>1, FailuresApartStep DEF SureInv
    <3>2. /\ \A i, j \in 1..Len(callers') : callers'[i].at = callers'[j].at => i = j
          /\ phase' \in Approaching => \A i \in 1..Len(callers') : callers'[i].at # caller'.at
      BY <2>1, PlacesStep DEF SureInv
    <3> QED BY <3>1, <3>2 DEF Visited, FailuresApart
  <2>2. CASE ~mode.batched
    BY <1>0, <2>2 DEF Visited
  <2> QED BY <2>1, <2>2
<1>3. Patient'
  <2>1. CASE ~mode.batched
    <3>1. SpotsOK'
      BY <2>1, SpotsStep DEF SureInv, Patient, SpotsOK
    <3>2. ~unsure' => \A c \in Customers : Counted(c)'
      BY <2>1, CountedStep DEF SureInv
    <3> QED BY <3>1, <3>2 DEF Patient, SpotsOK
  <2>2. CASE mode.batched
    BY <1>0, <2>2 DEF Patient
  <2> QED BY <2>1, <2>2
<1> QED BY <1>1, <1>2, <1>3 DEF SureInv

LEMMA SureInvariant ==
  ASSUME TablesApart
  PROVE  Spec => [](ServiceInv /\ SureInv)
<1>1. ServiceInv /\ SureInv /\ [Next]_vars => (ServiceInv /\ SureInv)'
  BY ServiceGoesOn, SureGoesOn
<1>2. Init => ServiceInv /\ SureInv
  BY ServiceStarts, SureStarts
<1> QED BY <1>1, <1>2, PTL DEF Spec

LEMMA AtMostOne ==
  ASSUME NEW S, \A x, y \in S : x = y
  PROVE  Cardinality(S) \in Nat /\ Cardinality(S) <= 1
<1>1. CASE S = {}
  <2>1. Cardinality(S) = 0
    BY <1>1, FS_EmptySet
  <2> QED BY <2>1
<1>2. CASE S # {}
  <2>1. PICK x \in S : S = {x}
    BY <1>2
  <2>2. Cardinality(S) = 1
    BY <2>1, FS_Singleton
  <2> QED BY <2>2
<1> QED BY <1>1, <1>2

(* exclude_handled and mark_handled: with tables farther apart than the        *)
(* re-acquire radius nobody is asked for a second order, however often they    *)
(* wave and in whatever order they are served, until a sighting was off,       *)
(* somebody was lost on the way, or the step was run again.                    *)
THEOREM OneOrderTheorem ==
  ASSUME TablesApart
  PROVE  Spec => []OneOrderEachIfSure
<1>1. ServiceInv /\ SureInv => OneOrderEachIfSure
  <2> SUFFICES ASSUME SureInv, ~unsure, NEW c \in Customers
               PROVE  Cardinality(OrdersOf(c)) <= 1
    BY DEF OneOrderEachIfSure
  <2>1. c # NoOne
    BY Room, Zenon
  <2>2. \A o, q \in OrdersOf(c) : o = q
    BY <2>1 DEF SureInv, Known, OrdersOf
  <2> QED BY <2>2, AtMostOne
<1> QED BY <1>1, SureInvariant, PTL

(* note_failure: with tables that far apart no customer costs more failed      *)
(* orders than RESTAURANT_MAX_FAILS_PER_SPOT, for any number of customers and  *)
(* attempts, whoever else shares the spot; a batch sees each of them once.     *)
THEOREM PatienceTheorem ==
  ASSUME TablesApart
  PROVE  Spec => []PatienceBounded
<1>1. ServiceInv /\ SureInv => PatienceBounded
  <2> SUFFICES ASSUME ServiceInv, SureInv, ~unsure, NEW c \in Customers
               PROVE  Cardinality(FailuresAt(Seat[c])) <= MaxFails
    BY DEF PatienceBounded
  <2>1. CASE mode.batched
    <3>1. \A o, q \in FailuresAt(Seat[c]) : o = q
      BY <2>1 DEF SureInv, Visited, FailuresAt, FailedOrder
    <3>2. Cardinality(FailuresAt(Seat[c])) \in Nat /\ Cardinality(FailuresAt(Seat[c])) <= 1
      BY <3>1, AtMostOne
    <3> QED BY <3>2, Counts
  <2>2. CASE ~mode.batched
    <3>1. orders \in Seq(Order) /\ giveups \in Seq(Spots)
      BY DEF ServiceInv, OrdersOK, RestOK, Spots
    <3>2. Cardinality(FailuresAt(Seat[c])) \in Nat
      BY <3>1, FailuresFinite
    <3>3. CASE FailuresAt(Seat[c]) = {}
      <4>1. Cardinality(FailuresAt(Seat[c])) = 0
        BY <3>3, FS_EmptySet
      <4> QED BY <4>1, Counts
    <3>4. CASE FailuresAt(Seat[c]) # {}
      <4>1. PICK i \in 1..Len(giveups) : Cardinality(FailuresAt(Seat[c])) <= giveups[i].fails
        BY <2>2, <3>4 DEF SureInv, Patient, Counted
      <4>2. giveups[i].fails \in Nat
        BY <3>1, <4>1, SpotIs
      <4>3. giveups[i].fails <= MaxFails
        BY <2>2 DEF SureInv, Patient
      <4> QED BY <3>2, <4>1, <4>2, <4>3, Counts
    <3> QED BY <3>3, <3>4
  <2> QED BY <2>1, <2>2
<1> QED BY <1>1, SureInvariant, PTL
=============================================================================

------------------------------ MODULE Seating ------------------------------
(***************************************************************************)
(* OfferSeat of the Receptionist (tasks/HRI/subtasks.py) with the seat     *)
(* scan, the merging of its views and the choice of a seat                 *)
(* (tasks/skills/seating.py, tasks/HRI/skills.py).                         *)
(*                                                                         *)
(* The room is a row of spots of one cushion's width.  A chair is one      *)
(* spot; a sofa is Cushions of them, and a view may show only some.  An    *)
(* image is abstracted to the spots in it, so a box is the row of spots it *)
(* covers, and what the code computes in pixels is computed in spots.      *)
(***************************************************************************)
EXTENDS Integers, FiniteSets, FiniteSetsExt, Sequences, Functions

CONSTANTS Chairs, Sofas,   \* the furniture
          Cushions,        \* seats of a sofa: 3, or 2 with HRI_SOFA_HAS_MIDDLE=0
          Coord,           \* where the first spot of a piece is in the row
          Shows,           \* the spots in view at each heading
          MaxSlips         \* bound: how often a call misses something or
                           \* somebody changes seats, per offer

Furniture == Chairs \cup Sofas
Size(f) == IF f \in Sofas THEN Cushions ELSE 1
Spots == UNION {{f} \X (1 .. Size(f)) : f \in Furniture}
\* Headings as multiples of HRI_SEAT_SWEEP_DEG, positive to the left.
Headings == {1, 0, -1}
Sweeps == {<<1, 0, -1>>, <<0>>}

ASSUME SeatingAssumption ==
    /\ Cushions \in {2, 3} /\ MaxSlips \in Nat
    /\ Coord \in [Furniture -> Int]
    /\ Shows \in [Headings -> SUBSET Spots]
    /\ Chairs \cap Sofas = {} /\ IsFiniteSet(Furniture)

\* No two pieces of a kind look like one: chairs stand in different places, and
\* half a metre of floor is between two sofas.
ASSUME FurnitureApart ==
    \A f, g \in Furniture : f # g /\ (f \in Sofas) = (g \in Sofas) =>
        LET gap == IF f \in Sofas THEN Cushions + 1 ELSE 1
        IN  Coord[f] - Coord[g] >= gap \/ Coord[g] - Coord[f] >= gap

TheHost == "host"
Guests == <<"guest-1", "guest-2">>
Party == {TheHost} \cup Range(Guests)
Standing == <<"standing">>
Unasked == [kind |-> "unasked"]
Nothing == [kind |-> "nothing"]     \* OFFER_SEAT_FALLBACK
Declined == [kind |-> "declined"]

VARIABLES
    sits,      \* where everyone is: a spot, or Standing
    slips,     \* what was missed or moved since this offer began
    guest,     \* whose turn it is to be offered a seat
    phase,     \* "arrive", "turn", "scan", "pick", "offered", "over"
    todo,      \* the headings still to look in
    heading,   \* where the base really points
    frames,    \* SeatSweep: what was found in each picture
    offer      \* the seat last offered

offerVars == <<sits, slips, guest, phase, todo, heading, frames, offer>>

\* What one picture is made of.
Picture == [off : Headings, at : Headings, seats : SUBSET Furniture,
            lifted : SUBSET Furniture, sat : SUBSET Spots, poses : SUBSET Spots]

OfferTypeOK ==
    /\ sits \in [Party -> Spots \cup {Standing}]
    /\ slips \in 0 .. MaxSlips /\ guest \in DOMAIN Guests
    /\ phase \in {"arrive", "turn", "scan", "pick", "offered", "over"}
    /\ todo \in Seq(Headings) /\ heading \in Headings
    /\ frames \in Seq(Picture)
    /\ offer \in {Unasked, Nothing, Declined} \cup
                 [kind : {"seat"}, spot : Spots, from : DOMAIN frames, against : BOOLEAN]

Taken == {sits[p] : p \in Party} \ {Standing}
FreeSpots == Spots \ Taken

OfferInit ==
    /\ \E s \in Spots : sits = [p \in Party |-> IF p = TheHost THEN s ELSE Standing]
    /\ slips = 0 /\ guest = 1 /\ phase = "arrive" /\ todo = <<>>
    /\ heading = 0 /\ frames = <<>> /\ offer = Unasked

----------------------------------------------------------------------------
Slips(n) == slips + n <= MaxSlips /\ slips' = slips + n

\* Somebody who sits takes another seat, at any time.
ChangeSeat ==
    /\ Slips(1) /\ phase # "over"
    /\ \E p \in Party, s \in FreeSpots :
          sits[p] # Standing /\ sits' = [sits EXCEPT ![p] = s]
    /\ UNCHANGED <<guest, phase, todo, heading, frames, offer>>

----------------------------------------------------------------------------
(* One picture: detection and poses are two calls, and either may miss *)

\* The cushions of f in view at heading h; they are next to each other.
InView(h, f) == {i \in 1 .. Size(f) : <<f, i>> \in Shows[h]}
SeenAt(h) == {f \in Furniture : InView(h, f) # {}}
Whole(h, f) == Cardinality(InView(h, f)) = Size(f)

\* A frame: the heading asked for and the real one, the furniture detected and
\* that of it whose box has depth, who sat there and who of them was seen.
Pictures(off, h) ==
    LET sat == Taken \cap Shows[h]
    IN  {[off |-> off, at |-> h, seats |-> s, lifted |-> s \cap l, sat |-> sat, poses |-> p]
           : s \in SUBSET SeenAt(h), l \in SUBSET SeenAt(h), p \in SUBSET sat}

Missed(f) ==
    Cardinality(SeenAt(f.at) \ f.lifted) + Cardinality(f.sat \ f.poses)

----------------------------------------------------------------------------
(* Occupancy of a detected piece of furniture *)

\* split_seat_regions: the box is cut in Size(f) equal regions, however much of
\* the sofa it shows.  The region the middle of cushion i falls in, and of two it is
\* between the first ...
RegionOf(h, f, i) ==
    LET shown == 2 * Cardinality(InView(h, f))
    IN  ((2 * (i - Min(InView(h, f))) + 1) * Size(f) + shown - 1) \div shown

\* ... and the cushion the middle of region r is on.
CushionOf(h, f, r) ==
    Min(InView(h, f)) + ((2 * r - 1) * Cardinality(InView(h, f))) \div (2 * Size(f))

\* _occupied_region_indices: everyone seen claims the region under their hips.
OccupiedRegions(k, f) ==
    {RegionOf(frames[k].at, f, i) : i \in {j \in 1 .. Size(f) : <<f, j>> \in frames[k].poses}}

\* parse_sofa_parts
FreeParts(k, f) == (1 .. Size(f)) \ OccupiedRegions(k, f)

\* Mutant: a sofa with somebody on it is taken.
OccupiedByAnyone(k, f) == OccupiedRegions(k, f) # {}

\* scan_seats: a sofa is occupied only when every cushion is.
Occupied(k, f) == FreeParts(k, f) = {}

----------------------------------------------------------------------------
(* scan_seats_sweep: one list of seats from all the views *)

Entries == UNION {{<<k, f>> : f \in frames[k].seats} : k \in DOMAIN frames}
Lifted(e) == e[2] \in frames[e[1]].lifted

Abs(n) == IF n < 0 THEN -n ELSE n

\* Twice the middle of what the box shows: half of it is half a metre.
Centre(e) ==
    LET shown == InView(frames[e[1]].at, e[2])
    IN  2 * (Coord[e[2]] + Min(shown) - 1) + Cardinality(shown) - 1

\* The same kind of seat, within HRI_SEAT_SWEEP_DEDUP_M or _DEDUP_SOFA_M.
SameSeat(d, e) ==
    /\ Lifted(d) /\ Lifted(e)
    /\ (d[2] \in Sofas) = (e[2] \in Sofas)
    /\ Abs(Centre(d) - Centre(e)) < IF e[2] \in Sofas THEN 4 ELSE 2

\* Mutant: the views in the order they were taken.
FirstViewFirst(d, e) == d[1] < e[1]

\* The order they are gone through: the most central view first, among equals
\* the one taken first.  (Two pieces of one view are in the detector's order,
\* which makes no difference: they are never the same seat.)
CentralFirst(d, e) ==
    LET a == Abs(frames[d[1]].off)
        b == Abs(frames[e[1]].off)
    IN  a < b \/ (a = b /\ d[1] < e[1])

\* A seat is kept unless one kept before it is the same.
Keeps[e \in Entries] ==
    \A d \in Entries : CentralFirst(d, e) /\ SameSeat(d, e) => ~Keeps[d]

Kept == {e \in Entries : Keeps[e]}

----------------------------------------------------------------------------
(* llm_pick_seat *)

\* Mutant: the cushion asked for, free or not.
AsWished(k, f, wish) ==
    IF f \notin Sofas \/ FreeParts(k, f) = {}
    THEN Min(InView(frames[k].at, f)) + Cardinality(InView(frames[k].at, f)) \div 2
    ELSE CushionOf(frames[k].at, f, IF wish \in 1 .. Size(f) THEN wish ELSE Min(FreeParts(k, f)))

\* resolve_free_part and the box that is lifted: the free cushion asked for, or
\* else the first one; without any, and for a chair, the middle of the box.
Target(k, f, wish) ==
    IF f \notin Sofas \/ FreeParts(k, f) = {}
    THEN Min(InView(frames[k].at, f)) + Cardinality(InView(frames[k].at, f)) \div 2
    ELSE CushionOf(frames[k].at, f, IF wish \in FreeParts(k, f) THEN wish
                                    ELSE Min(FreeParts(k, f)))

Offered(k, f, wish, against) ==
    [kind |-> "seat", spot |-> <<f, Target(k, f, wish)>>, from |-> k, against |-> against]

\* describe_seating_scene: what is marked as taken.  known are the pieces on
\* which match_people_to_seats put somebody recognised: a chair is then
\* occupied, a sofa only has a name on it.
MarkedTaken(k, f, known) == Occupied(k, f) \/ (f \in Chairs /\ <<k, f>> \in known)

Recognisable == {e \in Kept : \E i \in 1 .. Size(e[2]) : <<e[2], i>> \in frames[e[1]].sat}

\* pick_free_seat, when no usable answer comes: any seat not occupied (the most
\* confident one), whoever is known to sit there.
Heuristic ==
    IF \E e \in Kept : ~Occupied(e[1], e[2])
    THEN \E e \in {d \in Kept : ~Occupied(d[1], d[2])} : offer' = Offered(e[1], e[2], 0, FALSE)
    ELSE offer' = Nothing

\* The model's answer: an index that is taken as it comes, or none.
Chosen ==
    \/ offer' = Declined
    \/ \E known \in SUBSET Recognisable : \E e \in Kept, wish \in 0 .. Cushions :
          offer' = Offered(e[1], e[2], wish, MarkedTaken(e[1], e[2], known))

----------------------------------------------------------------------------
(* OfferSeat.run *)

\* Without odometry, a single picture straight ahead.  GuideToLivingRoom left
\* the base facing the seats.
Begin ==
    /\ phase = "arrive"
    /\ phase' = "turn" /\ heading' = 0 /\ frames' = <<>> /\ offer' = Unasked
    /\ todo' \in Sweeps /\ slips' = 0
    /\ UNCHANGED <<sits, guest>>

\* The answer of rotate_to is not looked at.
Turn ==
    /\ phase = "turn"
    /\ phase' = "scan"
    /\ \/ heading' = Head(todo) /\ UNCHANGED slips
       \/ heading' = heading /\ heading # Head(todo) /\ Slips(1)
    /\ UNCHANGED <<sits, guest, todo, frames, offer>>

\* A failed capture leaves its view out.
Scan ==
    /\ phase = "scan"
    /\ \/ \E f \in Pictures(Head(todo), heading) :
             Slips(Missed(f)) /\ frames' = Append(frames, f)
       \/ Slips(1) /\ UNCHANGED frames
    /\ todo' = Tail(todo)
    /\ phase' = IF todo' = <<>> THEN "pick" ELSE "turn"
    /\ UNCHANGED <<sits, guest, heading, offer>>

Pick ==
    /\ phase = "pick" /\ phase' = "offered"
    /\ IF Kept = {} THEN offer' = Nothing ELSE Heuristic \/ Chosen
    /\ UNCHANGED <<sits, slips, guest, todo, heading, frames>>

Leave ==
    /\ frames' = <<>> /\ offer' = Unasked
    /\ IF guest = 1 THEN guest' = 2 /\ phase' = "arrive" ELSE phase' = "over" /\ UNCHANGED guest

\* wait_until_seated, or the fallback line: the guest takes any seat that is
\* free, or remains standing.
Settle ==
    /\ phase = "offered"
    /\ \/ \E s \in FreeSpots : sits' = [sits EXCEPT ![Guests[guest]] = s]
       \/ UNCHANGED sits
    /\ Leave
    /\ UNCHANGED <<slips, todo, heading>>

\* The memory that is read for the labels, or the arm that points, raised: the
\* step is run again, or given up.
Raise ==
    /\ phase \in {"pick", "offered"}
    /\ \/ Leave
       \/ phase' = "arrive" /\ frames' = <<>> /\ offer' = Unasked /\ UNCHANGED guest
    /\ UNCHANGED <<sits, slips, todo, heading>>

OfferNext == ChangeSeat \/ Begin \/ Turn \/ Scan \/ Pick \/ Settle \/ Raise

OfferSpec == OfferInit /\ [][OfferNext]_offerVars

----------------------------------------------------------------------------
IsOffer == offer.kind = "seat"

\* The picture the offered seat was taken from, and how it shows it.
Source == frames[offer.from]
Clipped == ~Whole(Source.at, offer.spot[1])

(***************************************************************************)
(* A guest is sent to a taken seat only if nobody was seen on it in the    *)
(* picture (missed, or not there yet), or the picture cuts the sofa off,   *)
(* or the model chose what it was told is taken (llm_pick_seat takes any   *)
(* index).                                                                 *)
(***************************************************************************)
OfferedSeatIsFree ==
    IsOffer /\ offer.spot \in Taken =>
        \/ offer.spot \notin Source.poses
        \/ Clipped
        \/ offer.against

(***************************************************************************)
(* The deliberate head-on look is trusted: a cushion is offered from a     *)
(* view that cuts the sofa off only if no picture taken straight ahead has *)
(* the whole of it, or one of the two gave no map point.                   *)
(***************************************************************************)
HeadOnViewTrusted ==
    IsOffer /\ Clipped =>
        \A k \in DOMAIN frames :
            LET f == offer.spot[1] IN
            ~ /\ frames[k].off = 0 /\ Whole(frames[k].at, f)
              /\ f \in frames[k].lifted /\ f \in Source.lifted

(***************************************************************************)
(* A guest is told to find a seat alone only if the model declined, no     *)
(* picture has a free seat that was also detected, or somebody moved       *)
(* between the pictures.                                                   *)
(***************************************************************************)
FreeSeatIsOffered ==
    offer.kind = "nothing" =>
        \/ \E k \in DOMAIN frames : frames[k].sat # Taken \cap Shows[frames[k].at]
        \/ \A k \in DOMAIN frames, s \in FreeSpots :
              s \in Shows[frames[k].at] => s[1] \notin frames[k].seats
=============================================================================

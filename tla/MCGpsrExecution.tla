-------------------------- MODULE MCGpsrExecution --------------------------
(* Instances of GpsrExecution for TLC. *)
EXTENDS GpsrExecution
CONSTANTS kitchen, office, table

OneCommand == {1}
TwoCommands == {1, 2}
Rooming2 == [p \in Places |-> IF p \in {kitchen, table} THEN kitchen ELSE office]
NoneAlike == [p \in Places |-> {}]

Do(prim) ==
  [prim |-> prim, location |-> NoPlace, room |-> NoPlace, to |-> NoPlace, from |-> NoPlace,
   object |-> "none", person |-> "none", kind |-> "none", which |-> "none", info |-> FALSE]
Go(room)      == [Do("navigate") EXCEPT !.room = room]
FindAt(place) == [Do("find_object") EXCEPT !.object = "known", !.location = place]
Look(room)    == [Do("find_person") EXCEPT !.room = room]
Tell          == [Do("say") EXCEPT !.info = TRUE]
GuideTo(p, q) == [Do("guide") EXCEPT !.person = "operator", !.from = p, !.to = q]
Take          == [Do("pick") EXCEPT !.object = "known"]
Lost          == [Do("navigate") EXCEPT !.room = Unknown]
Garage        == [Do("find_object") EXCEPT !.object = "known", !.room = Unknown]

Bring  == <<Go(kitchen), Take>>
Visit  == <<Go(office), Tell>>
Search == <<Lost, FindAt(table)>>
Escort == <<GuideTo(table, office), Look(office)>>
Hand   == <<[Do("deliver") EXCEPT !.object = "known"], [Do("greet") EXCEPT !.room = kitchen]>>
Ask    == <<[Do("count") EXCEPT !.kind = "gesture", !.room = office],
            [Do("get_person_info") EXCEPT !.which = "known"]>>
Weigh  == <<[Do("get_object_property") EXCEPT !.object = "generic", !.which = "unknown"],
            [Do("place") EXCEPT !.object = "known", !.location = table], Do("other")>>
Walk   == <<Go(kitchen), Do("follow"), Go(kitchen)>>

Pairs == {<<Bring, Visit>>, <<Search, <<>>>>, <<Escort, Visit>>, <<Visit, Hand>>, <<Ask>>, <<Weigh>>}
Walks == {<<Walk>>}
Garages == {<<<<Garage>>>>, <<Visit>>}
=============================================================================

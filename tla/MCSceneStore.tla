---------------------------- MODULE MCSceneStore ----------------------------
(* Instances of SceneStore for TLC. *)
EXTENDS SceneStore
CONSTANTS table, shelf, worker, manual, hall, kitchen

TwoBuilders == {worker, manual}

TwoRooms == [p \in Places |-> IF p <= LastPlace \div 2 THEN hall ELSE kitchen]
TwoClasses == {"cup", "furniture"}

TwoObjects == <<<<table, "furniture">>, <<shelf, "furniture">>>>

Obs(cls, at, last, n, emb) ==
  [cls |-> cls, at |-> at, last |-> last, n |-> n, emb |-> emb]

(* The surveys a start may find: one object, or both with the first one moved. *)
Resurveyed == {[m \in {table} |-> 0..3], [m \in {table, shelf} |-> {2, 3}]}

(* Batches of one or two observations: near and far, early and late, two of
   them on either side of the wall, one at the far end of the table. *)
Mixed ==
  {<<Obs("cup", p, 1, 1, TRUE)>> : p \in {0, 3}}
  \cup {<<Obs("furniture", 3, 2, 1, TRUE)>>, <<Obs("furniture", 1, 1, 1, FALSE)>>,
        <<Obs("cup", 2, 2, 2, TRUE), Obs("cup", 4, 1, 1, FALSE)>>}
=============================================================================

----------------------------- MODULE MCSeating -----------------------------
(* An armchair to the left of a sofa that only the middle view shows whole. *)
EXTENDS Seating

Layout == [f \in Furniture |-> IF f \in Chairs THEN 0 ELSE 1]

Sofa == CHOOSE f \in Sofas : TRUE
Armchair == {<<c, 1>> : c \in Chairs}
Part(cushions) == {<<Sofa, i>> : i \in cushions}

Sights == [h \in {1, 0, -1} |-> CASE h = 1  -> Armchair \cup Part({1, 2})
                                  [] h = 0  -> Armchair \cup Part({1, 2, 3})
                                  [] h = -1 -> Part({2, 3})]
=============================================================================

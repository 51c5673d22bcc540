---------------------------- MODULE MCRestaurant ----------------------------
(* Instances of Restaurant for TLC. *)
EXTENDS Restaurant
CONSTANTS ann, bob

Pair == {ann, bob}
FarApart == [c \in Pair |-> IF c = ann THEN 3 ELSE 7]

Setting(live, batched, tray, arm) ==
  [live |-> live, batched |-> batched, tray |-> tray, arm |-> arm]
Default == Setting(FALSE, FALSE, TRUE, FALSE)
Batched == Setting(FALSE, TRUE, TRUE, FALSE)
AllModes == {Default, Setting(TRUE, FALSE, TRUE, FALSE), Setting(FALSE, FALSE, FALSE, TRUE),
             Batched, Setting(TRUE, TRUE, FALSE, FALSE)}
DefaultOnly == {Default}
AfterAnOrder == [m \in AllModes |-> IF m = Batched THEN 1 ELSE 0]
AfterAnOrderByDefault == [m \in DefaultOnly |-> 1]

Exact == {0}
Short == {0, -2}
TwoItems == {2}
Sheet == [l \in Lines |-> IF l = "understand_order" THEN 2 ELSE 3]
=============================================================================

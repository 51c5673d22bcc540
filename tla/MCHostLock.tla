----------------------------- MODULE MCHostLock -----------------------------
(* An instance of HostLock for TLC: the host, a guest dressed much alike who   *)
(* is enrolled, and a stranger dressed alike who is not.                       *)
EXTENDS HostLock
CONSTANTS host, guest, stranger

Party == {host, guest, stranger}
Enrolled == {host, guest}
FaceSims == [id \in Enrolled |-> [p \in Party |-> IF p = id THEN 60 ELSE 20]]
AttireSims ==
  [id \in Enrolled |-> [p \in Party |->
     IF p = id THEN 80 ELSE IF id = host /\ p = stranger THEN 78 ELSE 65]]
Spots == 1..3
AllBoxes == [who : Party, at : Spots]
=============================================================================

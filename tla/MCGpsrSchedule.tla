--------------------------- MODULE MCGpsrSchedule ---------------------------
(* Instances of GpsrSchedule for TLC. *)
EXTENDS GpsrSchedule
TwoCommands   == {1, 2}
ThreeCommands == {1, 2, 3}
=============================================================================

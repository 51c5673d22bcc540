------------------------- MODULE MCRealtimeExplore -------------------------
(* Instances of RealtimeExplore for TLC. *)
EXTENDS RealtimeExplore
CONSTANTS first, second
OneCapture  == {first}
TwoCaptures == {first, second}
=============================================================================

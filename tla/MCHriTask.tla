----------------------------- MODULE MCHriTask -----------------------------
(* Two guests and the host, all three dressed alike. *)
EXTENDS HriTask

MCAlike == {{"host", "guest-1"}, {"host", "guest-2"}, {"guest-1", "guest-2"}}
=============================================================================

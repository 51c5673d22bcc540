-------------------------- MODULE MCSnapshotBuffer --------------------------
(* Instances of SnapshotBuffer for TLC. *)
EXTENDS SnapshotBuffer
CONSTANTS worker, manual
OneBuilder  == {worker}
TwoBuilders == {worker, manual}
=============================================================================

---------------------------- MODULE MCTableTasks ----------------------------
(* Two objects on a table or at the sink, and every task of TableTasks. *)
EXTENDS TableTasks

MCPlaces == {"hall", "table", "sink", "washer"}
=============================================================================

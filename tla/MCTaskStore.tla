---------------------------- MODULE MCTaskStore ----------------------------
(* Model values and bounds for checking the task store. *)
EXTENDS TaskStore
=============================================================================

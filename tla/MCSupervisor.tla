---------------------------- MODULE MCSupervisor ----------------------------
(* Small instances of the supervisor, and the symmetry of its threads. *)
EXTENDS Supervisor, TLC

ThreadSymmetry == Permutations(Threads)
=============================================================================

--------------------------- MODULE MCTaskRuntime ---------------------------
(* TaskRuntime on small instances. *)
EXTENDS TaskRuntime, TLC

WorkerSymmetry == Permutations(Workers)
TaskSymmetry == Permutations(Tasks)
=============================================================================

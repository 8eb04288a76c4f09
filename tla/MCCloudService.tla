--------------------------- MODULE MCCloudService ---------------------------
(***************************************************************************)
(* CloudService for TLC: handlers and task names are interchangeable.      *)
(***************************************************************************)
EXTENDS CloudService, TLC

Symmetry == Permutations(Procs) \cup Permutations(TaskNames)
=============================================================================

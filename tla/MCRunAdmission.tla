--------------------------- MODULE MCRunAdmission ---------------------------
(***************************************************************************)
(* RunAdmission for TLC.                                                   *)
(***************************************************************************)
EXTENDS RunAdmission, TLC

\* Of Keys, those not in Legacy are interchangeable.
Symmetry == Permutations(RunIds) \cup Permutations(Keys \ Legacy)
            \cup Permutations(Sessions) \cup Permutations(Clients)
=============================================================================

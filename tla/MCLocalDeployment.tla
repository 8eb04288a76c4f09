------------------------- MODULE MCLocalDeployment --------------------------
(***************************************************************************)
(* The local deployment for TLC: the service with its workers, the schema  *)
(* of the file that it keeps, and the sessions that clients list.  These   *)
(* share nothing that the models say, so a behaviour takes the steps of    *)
(* one of them, its focus, and the state spaces are added, not multiplied. *)
(***************************************************************************)
EXTENDS LocalService, Migrations, SessionPages, TLC

VARIABLE focus

Symmetry == Permutations(RunIds) \cup Permutations(Keys) \cup Permutations(Sessions)
            \cup Permutations(LeaseIds) \cup Permutations(Processes)

MCInit ==
    /\ focus \in {"service", "file", "sessions"}
    /\ Init /\ MigrationInit /\ SessionInit
    /\ focus # "file" => opening = 0

MCNext ==
    /\ UNCHANGED focus
    /\ \/ focus = "service" /\ Next /\ UNCHANGED <<migrationVars, sessionVars>>
       \/ focus = "file" /\ MigrationNext /\ UNCHANGED <<vars, sessionVars>>
       \/ focus = "sessions" /\ SessionNext /\ UNCHANGED <<vars, migrationVars>>

MCSpec == MCInit /\ [][MCNext]_<<vars, migrationVars, sessionVars, focus>>
=============================================================================

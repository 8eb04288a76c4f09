----------------------------- MODULE MCRunStore -----------------------------
(***************************************************************************)
(* RunStore for TLC: model values for the identifiers, and symmetry where  *)
(* the specification only compares them for equality.  A behaviour keeps   *)
(* to its focus: the whole life of one run at a time, under any two leases *)
(* and any clock; or the tables, of short-lived runs, keys and sessions    *)
(* that depend on one another.  The state spaces are added, not            *)
(* multiplied.                                                             *)
(***************************************************************************)
EXTENDS RunStore, FiniteSets, TLC

CONSTANTS LifeGenerations    \* runs ever created, in the focus on their life

VARIABLE focus

Symmetry == Permutations(RunIds) \cup Permutations(Keys)
            \cup Permutations(Sessions) \cup Permutations(LeaseIds)

KeptRuns == {r \in RunIds : runs[r] # NoRun}

\* One run at a time; the sessions stay.
OneLife ==
    /\ Cardinality(KeptRuns) <= 1
    /\ generation <= LifeGenerations
    /\ sessions = Sessions

\* Lives just long enough to claim, write a result and be deleted under it.
Short == INSTANCE RunStore WITH LastInstant <- 1, MaxLease <- 1, MaxVersion <- 2

OneLeaseInUse ==
    Cardinality({runs[r].lease.id : r \in {q \in KeptRuns : runs[q].lease # NoLease}}) <= 1

MCInit == StoreInit /\ focus \in {"life", "tables"}

MCNext ==
    /\ UNCHANGED focus
    /\ \/ focus = "life" /\ StoreNext /\ OneLife'
       \/ focus = "tables" /\ Short!StoreNext /\ OneLeaseInUse'

MCSpec == MCInit /\ [][MCNext]_<<storeVars, focus>>
=============================================================================

----------------------------- MODULE WorkQueue -----------------------------
(***************************************************************************)
(* SQLiteWorkQueue: the work_items table beside the runs it refers to.     *)
(* The work id of a run is a function of its run id (RunService.submit),   *)
(* so the table is a function of the run.  Receiving an item hides it for  *)
(* a while and does not remove it: only discard and cancel do.             *)
(***************************************************************************)
EXTENDS RunStore

CONSTANTS
    NoItem,       \* an absent work item
    Visibility    \* visibility_seconds

ASSUME VisibilityAssumption == Visibility \in Nat \ {0}

Items == [gen : Generations, due : Time]

ASSUME ItemAssumption == NoItem \notin Items

VARIABLE work     \* work_items: RunIds -> an item or NoItem

Present(r, g) == runs[r] # NoRun /\ runs[r].gen = g

\* enqueue: the run must exist, in the generation of the item; an item that is
\* there already stays as it is.
Enqueue(r, g) ==
    /\ Present(r, g)
    /\ work' = IF work[r] = NoItem
               THEN [work EXCEPT ![r] = [gen |-> g, due |-> runs[r].created]]
               ELSE work

\* discard and cancel: the item of this generation, if it is still there.
Unqueue(r, g) ==
    work' = IF work[r] # NoItem /\ work[r].gen = g
            THEN [work EXCEPT ![r] = NoItem] ELSE work

\* receive: the item that is due first, then the older one, hidden until its
\* visibility runs out.
Due(r, at) == work[r] # NoItem /\ work[r].due <= at

Before(r, q) ==
    \/ work[r].due < work[q].due
    \/ work[r].due = work[q].due /\ runs[r].created <= runs[q].created

Receive(r, at) ==
    /\ at + Visibility <= LastInstant
    /\ Due(r, at)
    /\ \A q \in RunIds : Due(q, at) => Before(r, q)
    /\ work' = [work EXCEPT ![r].due = at + Visibility]

\* ON DELETE CASCADE of the run's row.
Orphaned(gone) ==
    work' = [r \in RunIds |-> IF r \in gone THEN NoItem ELSE work[r]]
=============================================================================

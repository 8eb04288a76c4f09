------------------------------ MODULE EventLog ------------------------------
(***************************************************************************)
(* The event log of runs as their readers may rely on it: numbered from    *)
(* one without gaps, only ever appended to, its last event the one that    *)
(* ends the run, gone in one piece with the run.  RunStore implements it   *)
(* (RunStore's LogKept); EventStream reads it.                             *)
(***************************************************************************)
EXTENDS Naturals, Sequences

CONSTANT RunIds

VARIABLES
    status,   \* RunIds -> "absent", "live" or "over" (a terminal state)
    log       \* RunIds -> the events of the run

logVars == <<status, log>>

\* kind: run.status, or any of the four event types that end a run.
LogEvents == [sequence : Nat \ {0}, kind : {"status", "end"}]

\* _append_run_event: MAX(sequence) + 1.
Appended(events, kind) ==
    Append(events, [sequence |-> Len(events) + 1, kind |-> kind])

Begin(r) ==
    /\ status[r] = "absent"
    /\ status' = [status EXCEPT ![r] = "live"]
    /\ log' = [log EXCEPT ![r] = Appended(<<>>, "status")]

\* A write of a run and its event, in one transaction.
Write(r, kind) ==
    /\ status[r] = "live"
    /\ status' = [status EXCEPT ![r] = IF kind = "end" THEN "over" ELSE "live"]
    /\ log' = [log EXCEPT ![r] = Appended(@, kind)]

Drop(gone) ==
    /\ status' = [r \in RunIds |-> IF r \in gone THEN "absent" ELSE status[r]]
    /\ log' = [r \in RunIds |-> IF r \in gone THEN <<>> ELSE log[r]]

LogInit ==
    /\ status = [r \in RunIds |-> "absent"]
    /\ log = [r \in RunIds |-> <<>>]

LogNext ==
    \/ \E r \in RunIds : Begin(r) \/ Write(r, "status") \/ Write(r, "end")
    \/ \E gone \in SUBSET RunIds : Drop(gone)

LogSpec == LogInit /\ [][LogNext]_logVars
=============================================================================

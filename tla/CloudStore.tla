----------------------------- MODULE CloudStore -----------------------------
(***************************************************************************)
(* The documents of the cloud deployment (FirestoreRunRepository and       *)
(* FirestoreSessionRepository).  A Firestore transaction is serialisable   *)
(* and is one action; a deletion takes several of them.                    *)
(*                                                                         *)
(* Abstractions: one tenant; a run id comes with one idempotency key, as   *)
(* the quota admission keeps both together; a lease is the attempt that    *)
(* took it and whether it still runs, and a caller whose clock reading is  *)
(* old takes a lease that has run out for one that runs; a version stands  *)
(* for the version and the state a caller expects, since no two states of  *)
(* a run share one; answers that write nothing are stuttering steps.       *)
(***************************************************************************)
EXTENDS Integers, FiniteSets, RunStates

CONSTANTS
    RunIds, Sessions,
    TaskNames,              \* names of cloud tasks; each is drawn at random
    NoRun, NoLease, NoItem, \* an absent run, lease, index document
    BatchSize,              \* _DELETE_BATCH_SIZE
    MaxVersion,             \* bound of the model: writes to a run, fewer in later ones
    MaxGeneration           \* bound of the model: runs ever created

ASSUME CloudBounds ==
    /\ BatchSize \in Nat \ {0}
    /\ MaxVersion \in Nat /\ MaxGeneration \in Nat

Generations == 1..MaxGeneration
Versions == 0..MaxVersion
Leases == [attempt : Versions, live : BOOLEAN]

Runs == [gen : Generations, session : Sessions, state : States, version : Versions,
         flagged : BOOLEAN, lease : Leases \cup {NoLease},
         payload : Answers \cup Failures \cup {NoPayload}]

EventDocuments == [sequence : Nat \ {0}, kind : {"status", "end"}]

\* The index document of a work item: the item's generation and its cloud task.
Items == [gen : Generations, task : TaskNames]

ASSUME CloudSentinels ==
    /\ NoRun \notin Runs \cup RunIds
    /\ NoLease \notin Leases
    /\ NoItem \notin Items

VARIABLES
    runs,         \* collection runs
    events,       \* collection run_events: the documents of each run
    keys,         \* collection idempotency_records: the runs they name
    reflections,  \* collection run_reflections: pairs of a session and a run
    index,        \* collection work_items
    sessions,     \* collection sessions
    generation    \* the last generation_id drawn

documents == <<runs, events, keys, reflections, index, sessions, generation>>

-----------------------------------------------------------------------------
Exists(r) == runs[r] # NoRun
Over(run) == run.state \in TerminalStates

\* A lease as its reader sees it; an old reading takes it for a running one.
Running(lease, old) == lease # NoLease /\ (lease.live \/ old)

\* Mutant of NextSequence: numbered by the version of the run, which renewals
\* advance as well.
NextSequenceByVersion(r) == runs[r].version + 1

\* _next_event_sequence: one more than the last document the query returns.
NextSequence(r) ==
    CHOOSE n \in 1..Cardinality(events[r]) + MaxVersion + 1 :
        /\ \A e \in events[r] : e.sequence < n
        /\ n = 1 \/ \E e \in events[r] : e.sequence = n - 1

\* _append_event: the document of that number, new or not.
AppendEvent(r, n, run) ==
    events' = [events EXCEPT ![r] =
        {e \in @ : e.sequence # n}
        \cup {[sequence |-> n, kind |-> IF Over(run) THEN "end" ELSE "status"]}]

\* _save_run: the version goes up with every write.
SaveRun(r, run) ==
    /\ runs[r].version + runs[r].gen <= MaxVersion
    /\ runs' = [runs EXCEPT ![r] = [run EXCEPT !.version = @ + 1]]

SaveAndLog(r, run) == SaveRun(r, run) /\ AppendEvent(r, NextSequence(r), run)

CancelledRun(run) == [run EXCEPT !.state = "cancelled", !.flagged = TRUE, !.lease = NoLease]

\* create: a key that is known returns its run; an unknown session raises.
CreateRun(r, s) ==
    /\ r \notin keys /\ ~Exists(r) /\ s \in sessions
    /\ generation < MaxGeneration
    /\ LET run == [gen |-> generation + 1, session |-> s, state |-> "queued",
                   version |-> 0, flagged |-> FALSE, lease |-> NoLease,
                   payload |-> NoPayload]
       IN runs' = [runs EXCEPT ![r] = run] /\ AppendEvent(r, 1, run)
    /\ keys' = keys \cup {r}
    /\ generation' = generation + 1
    /\ UNCHANGED <<reflections, index, sessions>>

ClaimAnswer(run, g, old) ==
    CASE run = NoRun -> "not_found"
      [] run # NoRun /\ g # run.gen -> "stale"
      [] run # NoRun /\ g = run.gen /\ Over(run) -> "terminal"
      [] OTHER -> IF run.flagged THEN "cancellation_requested"
                  ELSE IF Running(run.lease, old) THEN "busy" ELSE "claimed"

\* claim: the next attempt takes the run; a cancellation nobody can act on any
\* more takes effect.
ClaimRun(r, g, old) ==
    LET run == runs[r]
        answer == ClaimAnswer(run, g, old)
    IN /\ \/ /\ answer = "claimed"
             /\ SaveAndLog(r, [run EXCEPT !.state = "running",
                                 !.lease = [attempt |-> run.version, live |-> TRUE]])
          \/ /\ answer = "cancellation_requested" /\ ~Running(run.lease, old)
             /\ SaveAndLog(r, CancelledRun(run))
       /\ UNCHANGED <<keys, reflections, index, sessions, generation>>

Owns(run, attempt) == run.lease # NoLease /\ run.lease.attempt = attempt

RenewAnswer(run, attempt, old) ==
    IF run = NoRun THEN "not_found"
    ELSE IF Over(run) THEN "terminal"
    ELSE IF run.flagged THEN "cancellation_requested"
    ELSE IF Owns(run, attempt) /\ Running(run.lease, old) THEN "renewed" ELSE "lost"

\* renew_lease: a write without an event.
RenewRun(r, attempt, old) ==
    /\ RenewAnswer(runs[r], attempt, old) = "renewed"
    /\ SaveRun(r, [runs[r] EXCEPT !.lease.live = TRUE])
    /\ UNCHANGED <<events, keys, reflections, index, sessions, generation>>

\* Mutant of UpdateAnswer: a cancellation that came after the read is not seen.
UpdateAnswerUncancelled(run, version, next, attempt, old) ==
    IF run = NoRun THEN "not_found"
    ELSE IF ~(Owns(run, attempt) /\ Running(run.lease, old)) THEN "lease_lost"
    ELSE "applied"

UpdateAnswer(run, version, next, attempt, old) ==
    IF run = NoRun THEN "not_found"
    ELSE IF run.version # version THEN "conflict"
    ELSE IF ~(Owns(run, attempt) /\ Running(run.lease, old)) THEN "lease_lost"
    ELSE IF run.flagged /\ next # "cancelled" THEN "cancellation_requested"
    ELSE "applied"

\* compare_and_set: the run, its reflection and its event in one transaction.
UpdateRun(r, version, next, payload, attempt, old) ==
    LET run == runs[r]
    IN /\ UpdateAnswer(run, version, next, attempt, old) = "applied"
       /\ payload \in Payloads(next)
       /\ SaveAndLog(r, IF next = "cancelled" THEN CancelledRun(run)
                        ELSE [run EXCEPT !.state = next, !.payload = payload,
                                         !.lease = NoLease])
       /\ reflections' \in {reflections}
            \cup (IF next = "completed" THEN {reflections \cup {<<run.session, r>>}} ELSE {})
       /\ UNCHANGED <<keys, index, sessions, generation>>

\* request_cancellation: at once, unless an execution has to be told first.
FlagRun(r, old) ==
    LET run == runs[r]
        atOnce == run.state = "queued" \/ ~Running(run.lease, old)
    IN /\ Exists(r) /\ ~Over(run) /\ ~run.flagged
       /\ SaveAndLog(r, IF atOnce THEN CancelledRun(run) ELSE [run EXCEPT !.flagged = TRUE])
       /\ UNCHANGED <<keys, reflections, index, sessions, generation>>

-----------------------------------------------------------------------------
\* Deletion.

Batches(documentsFound) ==
    {batch \in SUBSET documentsFound :
        Cardinality(batch) = IF Cardinality(documentsFound) < BatchSize
                             THEN Cardinality(documentsFound) ELSE BatchSize}

\* _delete_scoped_documents: one transaction of its loop.
PurgeEvents(r, batch) ==
    /\ batch \in Batches(events[r])
    /\ events' = [events EXCEPT ![r] = @ \ batch]
    /\ UNCHANGED <<runs, keys, reflections, index, sessions, generation>>

PurgeItem(r) ==
    /\ index' = [index EXCEPT ![r] = NoItem]
    /\ UNCHANGED <<runs, events, keys, reflections, sessions, generation>>

\* Mutant of Childless: the children that were emptied are not looked at again.
ChildlessOnce(r) == TRUE

\* delete_run: whether the run still has no children, in the last transaction.
Childless(r) == events[r] = {} /\ index[r] = NoItem

RemoveRun(r) ==
    /\ Exists(r) /\ Childless(r)
    /\ runs' = [runs EXCEPT ![r] = NoRun]
    /\ keys' = keys \ {r}
    /\ reflections' = reflections \ {<<runs[r].session, r>>}
    /\ UNCHANGED <<events, index, sessions, generation>>

RunsOf(s) == {r \in RunIds : Exists(r) /\ runs[r].session = s}
ReflectionsOf(s) == {x \in reflections : x[1] = s}

\* delete_memory and the same step of delete_session.
PurgeReflections(s, batch) ==
    /\ batch \in Batches(ReflectionsOf(s))
    /\ reflections' = reflections \ batch
    /\ UNCHANGED <<runs, events, keys, index, sessions, generation>>

\* delete_session: the last transaction.
RemoveSession(s) ==
    /\ RunsOf(s) = {} /\ ReflectionsOf(s) = {}
    /\ sessions' = sessions \ {s}
    /\ UNCHANGED <<runs, events, keys, reflections, index, generation>>

PutSession(s) ==
    /\ s \notin sessions
    /\ sessions' = sessions \cup {s}
    /\ UNCHANGED <<runs, events, keys, reflections, index, generation>>

StoreInit ==
    /\ runs = [r \in RunIds |-> NoRun]
    /\ events = [r \in RunIds |-> {}]
    /\ keys = {} /\ reflections = {}
    /\ index = [r \in RunIds |-> NoItem]
    /\ sessions = Sessions
    /\ generation = 0
=============================================================================

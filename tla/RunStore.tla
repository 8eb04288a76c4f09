------------------------------ MODULE RunStore ------------------------------
(***************************************************************************)
(* The durable run repository (SQLiteRunRepository and the tables that     *)
(* cascade from it).  Every operation is one BEGIN IMMEDIATE transaction,  *)
(* so every operation is one action.  Callers are arbitrary: an operation  *)
(* may come with any time, lease, worker or expected version, in any       *)
(* order, which covers every caller of the code and more.                  *)
(*                                                                         *)
(* Abstractions: one tenant (every statement carries the tenant predicate);*)
(* answers are members of a set; a request is the idempotency key it comes *)
(* with; memory_used is not modelled.  An operation that returns           *)
(* without writing, or raises and rolls back, is a stuttering step and has *)
(* no action; its outcome is named by the Disposition operators.           *)
(***************************************************************************)
EXTENDS Integers, Sequences, RunStates

CONSTANTS
    RunIds,          \* run identifiers
    Keys,            \* idempotency keys
    Sessions,        \* session identifiers
    WorkerIds,       \* worker identifiers, not necessarily one per process
    LeaseIds,        \* lease identifiers
    NoRun, NoLease,  \* an absent row, an absent lease
    LastInstant,     \* datetime.max
    MaxLease,        \* the largest lease_seconds a request may ask for
    MaxVersion,      \* bound of the model: writes to one run
    MaxGeneration    \* bound of the model: runs ever created

ASSUME BoundsAssumption ==
    /\ LastInstant \in Nat /\ MaxLease \in Nat \ {0}
    /\ MaxVersion \in Nat /\ MaxGeneration \in Nat

Time == 0..LastInstant
LeaseSeconds == 1..MaxLease
NoTime == -1
Generations == 1..MaxGeneration
NoGeneration == 0
Versions == 0..MaxVersion

Leases == [id : LeaseIds, worker : WorkerIds, acquired : Time, expires : Time]

RunRecords ==
    [gen : Generations, session : Sessions, key : Keys, state : States,
     version : Versions, attempts : Nat, created : Time, updated : Time,
     cancelled : Time \cup {NoTime}, terminal : Time \cup {NoTime},
     lease : Leases \cup {NoLease},
     payload : Answers \cup Failures \cup {NoPayload}]

Events ==
    [state : States, at : Time, payload : Answers \cup Failures \cup {NoPayload}]

Reflections == [session : Sessions, run : RunIds, outcome : States]

ASSUME SentinelAssumption ==
    /\ NoRun \notin RunRecords \cup RunIds
    /\ NoLease \notin Leases

VARIABLES
    runs,         \* the runs table: RunIds -> a row or NoRun
    events,       \* run_events: the event at index i has sequence i
    idempotency,  \* idempotency_records: Keys -> the run it names or NoRun
    sessions,     \* the sessions table
    reflections,  \* the run_reflections table
    generation    \* the last generation_id drawn (each is fresh)

storeVars == <<runs, events, idempotency, sessions, reflections, generation>>

-----------------------------------------------------------------------------
\* Rows and events.

EventOf(run) ==
    [state |-> run.state, at |-> run.updated, payload |-> run.payload]

\* _changed_run, _save_run: every write of a row bumps its version.
Save(r, run) ==
    /\ runs[r].version < MaxVersion
    /\ runs' = [runs EXCEPT ![r] = [run EXCEPT !.version = @ + 1]]

\* _append_run_event: the event goes into the same transaction as the row.
Log(r, run) == events' = [events EXCEPT ![r] = Append(@, EventOf(run))]

Live(lease, at) == lease # NoLease /\ lease.expires > at

Holds(lease, w, l) == lease # NoLease /\ lease.id = l /\ lease.worker = w

\* Mutant of Cancelled: the lease is left on the row.
CancelledWithItsLease(run, at) ==
    [run EXCEPT !.state = "cancelled", !.updated = at, !.terminal = at,
                !.cancelled = IF @ = NoTime THEN at ELSE @]

\* The row once its cancellation takes effect at a time.
Cancelled(run, at) ==
    [run EXCEPT !.state = "cancelled", !.updated = at, !.terminal = at,
                !.cancelled = IF @ = NoTime THEN at ELSE @, !.lease = NoLease]

\* Mutants of Remove: a foreign key without its cascade.
RemoveKeepingEvents(gone) ==
    /\ runs' = [r \in RunIds |-> IF r \in gone THEN NoRun ELSE runs[r]]
    /\ idempotency' = [k \in Keys |-> IF idempotency[k] \in gone
                                     THEN NoRun ELSE idempotency[k]]
    /\ UNCHANGED events

RemoveKeepingKeys(gone) ==
    /\ runs' = [r \in RunIds |-> IF r \in gone THEN NoRun ELSE runs[r]]
    /\ events' = [r \in RunIds |-> IF r \in gone THEN <<>> ELSE events[r]]
    /\ UNCHANGED idempotency

\* ON DELETE CASCADE: the rows of runs, run_events and idempotency_records.
Remove(gone) ==
    /\ runs' = [r \in RunIds |-> IF r \in gone THEN NoRun ELSE runs[r]]
    /\ events' = [r \in RunIds |-> IF r \in gone THEN <<>> ELSE events[r]]
    /\ idempotency' = [k \in Keys |-> IF idempotency[k] \in gone
                                     THEN NoRun ELSE idempotency[k]]

-----------------------------------------------------------------------------
\* Operations.

\* create: a fresh run under a fresh key in an existing session.  A used key,
\* a used run id or a missing session return or raise without writing.
Create(r, k, s, at) ==
    /\ idempotency[k] = NoRun
    /\ runs[r] = NoRun
    /\ s \in sessions
    /\ generation < MaxGeneration
    /\ generation' = generation + 1
    /\ LET run == [gen |-> generation + 1, session |-> s, key |-> k,
                   state |-> "queued", version |-> 0, attempts |-> 0,
                   created |-> at, updated |-> at, cancelled |-> NoTime,
                   terminal |-> NoTime, lease |-> NoLease, payload |-> NoPayload]
       IN /\ runs' = [runs EXCEPT ![r] = run]
          /\ Log(r, run)
    /\ idempotency' = [idempotency EXCEPT ![k] = r]
    /\ UNCHANGED <<sessions, reflections>>

\* Mutant of ClaimDisposition: a lease of the same worker id may be taken over.
ClaimDispositionByWorker(run, g, w, l, at, secs) ==
    IF run = NoRun THEN "not_found"
    ELSE IF g \notin {NoGeneration, run.gen} THEN "stale"
    ELSE IF run.state \in TerminalStates THEN "terminal"
    ELSE IF at < run.updated THEN "value_error"
    ELSE IF run.cancelled # NoTime THEN "cancellation_requested"
    ELSE IF Live(run.lease, at) /\ run.lease.worker # w THEN "busy"
    ELSE IF at + secs > LastInstant THEN "lease_unavailable"
    ELSE "claimed"

ClaimDisposition(run, g, w, l, at, secs) ==
    IF run = NoRun THEN "not_found"
    ELSE IF g \notin {NoGeneration, run.gen} THEN "stale"
    ELSE IF run.state \in TerminalStates THEN "terminal"
    ELSE IF at < run.updated THEN "value_error"
    ELSE IF run.cancelled # NoTime THEN "cancellation_requested"
    ELSE IF Live(run.lease, at)
         THEN IF Holds(run.lease, w, l) THEN "already_claimed" ELSE "busy"
    ELSE IF at + secs > LastInstant THEN "lease_unavailable"
    ELSE "claimed"

ClaimedRow(run, w, l, at, secs) ==
    [run EXCEPT !.state = "running", !.updated = at, !.attempts = @ + 1,
                !.lease = [id |-> l, worker |-> w, acquired |-> at,
                           expires |-> at + secs]]

\* claim: take an unowned run, or one whose lease has expired; a requested
\* cancellation without a live lease ends the run instead.
Claim(r, g, w, l, at, secs) ==
    LET run == runs[r]
        disposition == ClaimDisposition(run, g, w, l, at, secs)
    IN /\ \/ /\ disposition = "claimed"
             /\ Save(r, ClaimedRow(run, w, l, at, secs))
             /\ Log(r, ClaimedRow(run, w, l, at, secs))
          \/ /\ disposition = "cancellation_requested"
             /\ ~Live(run.lease, at)
             /\ Save(r, Cancelled(run, at))
             /\ Log(r, Cancelled(run, at))
       /\ UNCHANGED <<idempotency, sessions, reflections, generation>>

RenewDisposition(run, w, l, at, secs) ==
    IF run = NoRun THEN "not_found"
    ELSE IF run.state \in TerminalStates THEN "terminal"
    ELSE IF run.cancelled # NoTime THEN "cancellation_requested"
    ELSE IF \/ ~Holds(run.lease, w, l)
            \/ ~Live(run.lease, at)
            \/ at < run.updated
         THEN "lost"
    ELSE IF at + secs > LastInstant THEN "lease_unavailable"
    ELSE "renewed"

LaterOf(s, t) == IF s >= t THEN s ELSE t

\* Mutant of RenewedRow: a short renewal cuts a long lease.
RenewedRowCut(run, at, secs) ==
    [run EXCEPT !.updated = at, !.lease.expires = at + secs]

RenewedRow(run, at, secs) ==
    [run EXCEPT !.updated = at, !.lease.expires = LaterOf(@, at + secs)]

\* renew_lease: only the live holder, and never to an earlier expiry.  No event.
RenewLease(r, w, l, at, secs) ==
    /\ RenewDisposition(runs[r], w, l, at, secs) = "renewed"
    /\ Save(r, RenewedRow(runs[r], at, secs))
    /\ UNCHANGED <<events, idempotency, sessions, reflections, generation>>

\* Mutant of WriteDisposition: the version and state the caller saw are not compared.
WriteDispositionUnconditional(run, version, state, next, w, l, at) ==
    IF run = NoRun THEN "not_found"
    ELSE IF at < run.updated THEN "conflict"
    ELSE IF /\ state \in OwnedStates
            /\ ~(Holds(run.lease, w, l) /\ Live(run.lease, at))
         THEN "lease_lost"
    ELSE IF run.cancelled # NoTime /\ next # "cancelled"
         THEN "cancellation_requested"
    ELSE "applied"

WriteDisposition(run, version, state, next, w, l, at) ==
    IF run = NoRun THEN "not_found"
    ELSE IF run.version # version \/ run.state # state \/ at < run.updated
         THEN "conflict"
    ELSE IF /\ state \in OwnedStates
            /\ ~(Holds(run.lease, w, l) /\ Live(run.lease, at))
         THEN "lease_lost"
    ELSE IF run.cancelled # NoTime /\ next # "cancelled"
         THEN "cancellation_requested"
    ELSE "applied"

UpdatedRow(run, next, payload, at) ==
    IF next = "cancelled" THEN Cancelled(run, at)
    ELSE IF next \in TerminalStates
         THEN [run EXCEPT !.state = next, !.updated = at, !.terminal = at,
                          !.lease = NoLease, !.payload = payload]
    ELSE [run EXCEPT !.state = next, !.updated = at]

\* _write_reflection: an upsert keyed by session and run.
Reflect(r, run, next) ==
    reflections' = {x \in reflections : <<x.session, x.run>> # <<run.session, r>>}
                   \cup {[session |-> run.session, run |-> r, outcome |-> next]}

\* compare_and_set: a legal transition of the version, state and lease the
\* caller saw; a terminal one may carry the run's reflection.
CompareAndSet(r, version, state, next, payload, w, l, at) ==
    LET run == runs[r]
    IN /\ next \in NextStates(state)
       /\ payload \in Payloads(next)
       /\ WriteDisposition(run, version, state, next, w, l, at) = "applied"
       /\ Save(r, UpdatedRow(run, next, payload, at))
       /\ Log(r, UpdatedRow(run, next, payload, at))
       /\ \/ UNCHANGED reflections
          \/ next \in TerminalStates \ {"expired"} /\ Reflect(r, run, next)
       /\ UNCHANGED <<idempotency, sessions, generation>>

\* An unowned run, or one whose owner's lease has run out.
CancelsAtOnce(run, at) ==
    run.state = "queued" \/ (run.lease # NoLease /\ run.lease.expires <= at)

FlaggedRow(run, at) == [run EXCEPT !.updated = at, !.cancelled = at]

\* request_cancellation: at once for a run nobody owns, otherwise a flag that
\* its owner must act on.  A terminal or flagged run is left alone.
RequestCancellation(r, at) ==
    LET run == runs[r]
        changed == IF CancelsAtOnce(run, at) THEN Cancelled(run, at)
                   ELSE FlaggedRow(run, at)
    IN /\ run # NoRun
       /\ run.state \notin TerminalStates
       /\ run.cancelled = NoTime
       /\ at >= run.updated
       /\ Save(r, changed)
       /\ Log(r, changed)
       /\ UNCHANGED <<idempotency, sessions, reflections, generation>>

\* delete_run: the reflection is not a child of the run and stays.
DeleteRun(r) ==
    /\ runs[r] # NoRun
    /\ Remove({r})
    /\ UNCHANGED <<sessions, reflections, generation>>

RunsOf(s) == {r \in RunIds : runs[r] # NoRun /\ runs[r].session = s}

\* Mutant of DeleteSession: the cascade alone.
DeleteSessionRuns(s) ==
    /\ s \in sessions
    /\ sessions' = sessions \ {s}
    /\ Remove(RunsOf(s))
    /\ UNCHANGED <<reflections, generation>>

\* SQLiteSessionRepository.delete: reflections first, then the cascade.
DeleteSession(s) ==
    /\ s \in sessions
    /\ sessions' = sessions \ {s}
    /\ reflections' = {x \in reflections : x.session # s}
    /\ Remove(RunsOf(s))
    /\ UNCHANGED generation

\* SQLiteSessionRepository.delete_memory, as far as this store keeps memory.
DeleteMemory(s) ==
    /\ reflections' = {x \in reflections : x.session # s}
    /\ UNCHANGED <<runs, events, idempotency, sessions, generation>>

-----------------------------------------------------------------------------
StoreInit ==
    /\ runs = [r \in RunIds |-> NoRun]
    /\ events = [r \in RunIds |-> <<>>]
    /\ idempotency = [k \in Keys |-> NoRun]
    /\ sessions = Sessions
    /\ reflections = {}
    /\ generation = 0

Operate(r, at) ==
    \/ \E k \in Keys, s \in Sessions : Create(r, k, s, at)
    \/ RequestCancellation(r, at)
    \/ \E w \in WorkerIds, l \in LeaseIds :
        \/ \E secs \in LeaseSeconds :
            \/ \E g \in Generations \cup {NoGeneration} : Claim(r, g, w, l, at, secs)
            \/ RenewLease(r, w, l, at, secs)
        \/ \E version \in Versions, state \in States, next \in States :
            \E payload \in Payloads(next) :
                CompareAndSet(r, version, state, next, payload, w, l, at)

StoreNext ==
    \/ \E r \in RunIds, at \in Time : Operate(r, at)
    \/ \E r \in RunIds : DeleteRun(r)
    \/ \E s \in Sessions : DeleteSession(s) \/ DeleteMemory(s)

StoreSpec == StoreInit /\ [][StoreNext]_storeVars

-----------------------------------------------------------------------------
\* The promise of RunPromise, read off the rows.

PhaseOf(run) ==
    IF run = NoRun THEN "absent"
    ELSE IF run.state \in TerminalStates THEN run.state
    ELSE IF run.cancelled # NoTime THEN "cancelling" ELSE "pending"

ResultOf(run) == IF run = NoRun THEN NoPayload ELSE run.payload

Promise == INSTANCE RunPromise WITH
    phase <- [r \in RunIds |-> PhaseOf(runs[r])],
    result <- [r \in RunIds |-> ResultOf(runs[r])]

\* Leases, retries, versions and clock readings are invisible to a client: the
\* repository implements the promise of RunPromise.
PromiseKept == Promise!Spec

\* The event log of EventLog, read off the rows and their events.
StatusOf(run) ==
    IF run = NoRun THEN "absent"
    ELSE IF run.state \in TerminalStates THEN "over" ELSE "live"

Numbered(seq) ==
    [i \in DOMAIN seq |->
        [sequence |-> i,
         kind |-> IF seq[i].state \in TerminalStates THEN "end" ELSE "status"]]

EventTable == INSTANCE EventLog WITH
    status <- [r \in RunIds |-> StatusOf(runs[r])],
    log <- [r \in RunIds |-> Numbered(events[r])]

\* What a reader of a run's events may rely on (EventLog), whatever claims, retries,
\* cancellations and deletions write them: one event per visible change, appended
\* with it, the terminal one last.
LogKept == EventTable!LogSpec

-----------------------------------------------------------------------------
\* Properties.

\* Every variable has its type.
StoreTypeOK ==
    /\ runs \in [RunIds -> RunRecords \cup {NoRun}]
    /\ events \in [RunIds -> Seq(Events)]
    /\ idempotency \in [Keys -> RunIds \cup {NoRun}]
    /\ sessions \subseteq Sessions
    /\ reflections \subseteq Reflections
    /\ generation \in 0..MaxGeneration

\* What RunRecord.validate_lifecycle demands of a row.
ValidTimes(run) ==
    /\ run.created <= run.updated
    /\ run.cancelled # NoTime => run.cancelled \in run.created..run.updated
    /\ run.terminal # NoTime => run.terminal \in run.created..run.updated
    /\ run.lease # NoLease =>
          /\ run.lease.acquired \in run.created..run.updated
          /\ run.lease.expires > run.lease.acquired
ValidState(run) ==
    /\ run.state \in TerminalStates <=> run.terminal # NoTime
    /\ run.state \in OwnedStates <=> run.lease # NoLease
    /\ run.state \in OwnedStates => run.attempts > 0
    /\ run.state \in TerminalStates /\ run.cancelled # NoTime
          => run.state = "cancelled"
    /\ run.state = "cancelled" => run.cancelled # NoTime
    /\ run.state = "queued" =>
          run.version = 0 /\ run.attempts = 0 /\ run.cancelled = NoTime
    /\ run.payload \in Payloads(run.state)

\* The model validator RunRecord.validate_lifecycle, which every write re-runs
\* and which would turn a request into an internal error, never refuses a row:
\* no sequence of claims, renewals, updates, cancellations and clock readings
\* composes to a row it rejects.
ValidLifecycle ==
    \A r \in RunIds : runs[r] # NoRun => ValidTimes(runs[r]) /\ ValidState(runs[r])

\* "Run state and its corresponding public event are committed together"
\* (docs/api.md): the log of a run starts when it is queued, never goes back in
\* time, ends in the row's own state and result, and goes on after no terminal
\* event; a deleted run leaves no log.
FaithfulLog(run, log) ==
    /\ Len(log) > 0
    /\ log[1].state = "queued"
    /\ log[Len(log)].state = run.state
    /\ log[Len(log)].payload = run.payload
    /\ log[Len(log)].at <= run.updated
    /\ \A i \in 1..Len(log) - 1 : /\ log[i].state \notin TerminalStates
                                 /\ log[i].at <= log[i + 1].at
EventLogFaithful ==
    \A r \in RunIds : IF runs[r] = NoRun THEN events[r] = <<>>
                      ELSE FaithfulLog(runs[r], events[r])

\* create's "idempotency record has no run" is unreachable: a key names a live
\* run that was created under it, and every run is reachable by its key, across
\* deletions and reuse of run ids and keys.
IdempotencyConsistent ==
    /\ \A k \in Keys : idempotency[k] # NoRun =>
          runs[idempotency[k]] # NoRun /\ runs[idempotency[k]].key = k
    /\ \A r \in RunIds : runs[r] # NoRun => idempotency[runs[r].key] = r

\* "Session deletion physically removes its runs, events, and persisted memory"
\* (docs/api.md): nothing of a deleted session is left, nor written later by a
\* worker that was executing one of its runs.
NothingOutlivesItsSession ==
    /\ \A r \in RunIds : runs[r] # NoRun => runs[r].session \in sessions
    /\ \A x \in reflections : x.session \in sessions

\* The row of r survives the step as the same run.
Continues(r) ==
    runs[r] # NoRun /\ runs'[r] # NoRun /\ runs'[r].gen = runs[r].gen

\* "Terminal exactly once" (docs/architecture.md): a terminal row is never
\* written again, whoever comes late with a claim, renewal, result or
\* cancellation; a run id is reborn only by way of a deletion.
TerminalIsFinal ==
    [][\A r \in RunIds :
         /\ runs[r] # NoRun /\ runs'[r] # NoRun => runs'[r].gen = runs[r].gen
         /\ Continues(r) /\ runs[r].state \in TerminalStates =>
              runs'[r] = runs[r] /\ events'[r] = events[r]]_storeVars

\* A requested cancellation keeps its time, starts no further attempt, extends
\* no lease and ends in no state but cancelled.
CancellationHonoured ==
    [][\A r \in RunIds :
         Continues(r) /\ runs[r].cancelled # NoTime =>
           /\ runs'[r].cancelled = runs[r].cancelled
           /\ runs'[r].attempts = runs[r].attempts
           /\ runs'[r].lease \in {runs[r].lease, NoLease}
           /\ runs'[r].state # runs[r].state => runs'[r].state = "cancelled"]_storeVars

\* A run changes hands only after the previous lease ran out, and a lease is
\* never cut short: two holders' leases do not overlap.
LeaseHandover ==
    [][\A r \in RunIds :
         Continues(r) /\ runs[r].lease # NoLease /\ runs'[r].lease # NoLease =>
           \/ /\ Holds(runs'[r].lease, runs[r].lease.worker, runs[r].lease.id)
              /\ runs'[r].lease.acquired = runs[r].lease.acquired
              /\ runs'[r].lease.expires >= runs[r].lease.expires
           \/ runs'[r].lease.acquired >= runs[r].lease.expires]_storeVars

\* A result of an execution is stored only while the lease it ran under is live
\* and nobody has asked to cancel; reflections come with such a result.
ResultNeedsLiveLease ==
    [][\A r \in RunIds :
         Continues(r) /\ runs'[r].state \in {"completed", "failed", "expired"}
           /\ runs[r].state \in OwnedStates =>
             /\ runs'[r].updated < runs[r].lease.expires
             /\ runs[r].cancelled = NoTime]_storeVars
=============================================================================

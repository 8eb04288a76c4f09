----------------------------- MODULE CloudQuota -----------------------------
(***************************************************************************)
(* FirestoreQuotaLimiter: the rate of requests, the daily ledger of runs,  *)
(* and the permits of executions and event streams, which many replicas    *)
(* take at the same time and return by releasing them or by running out.   *)
(*                                                                         *)
(* Firestore protects a transaction against changes of the documents it    *)
(* read, not against documents that appear later; so acquisitions read in  *)
(* one step and commit in another, and a guard document makes them         *)
(* conflict.  The other operations touch documents they name only and are  *)
(* one step.                                                               *)
(*                                                                         *)
(* Abstractions: one tenant; an idempotency key stands for the run it is   *)
(* admitted for; the scan of leases is complete, since no more than Limit  *)
(* of them are ever stored (PermitsAreExclusive).                          *)
(***************************************************************************)
EXTENDS ApiKeys

CONSTANTS
    Replicas,              \* holders of permits: workers and open streams
    RunIds, Permits,
    NoPermit, NoGrant,
    Limit,                 \* max_concurrent_runs and max_sse_connections
    Term,                  \* lease_seconds
    ReclaimBatch,          \* _LEASE_RECLAIM_BATCH_SIZE
    IdempotencyKeys,
    DayLength, Budget,     \* instants of a day; daily_work_units
    MaxQueued, Window,     \* max_queued_runs; pending_admission_seconds
    Burst, Rate            \* request_burst; requests_per_second

Pools == {"execution", "sse"}

ASSUME QuotaAssumption ==
    /\ \A n \in {Term, ReclaimBatch, DayLength, Window, Burst, Rate} : n \in Nat \ {0}
    /\ Budget \in Nat /\ MaxQueued \in Nat
    /\ Limit \in [Pools -> Nat] /\ Limit["sse"] > 0
    /\ NoPermit \notin Permits /\ NoGrant \notin [day : Nat, units : 0..1]

Owners == RunIds \cup KeyIds
OwnersOf(pool) == IF pool = "execution" THEN RunIds ELSE KeyIds

\* A lease document: of a run, or of one stream of a key.
Leases == [owner : Owners, permit : Permits, expires : Nat]

\* What a replica does: nothing, a transaction that has read, or holding a permit that
\* it was told runs until an instant.
Holders ==
    [step : {"idle", "acquiring", "holding"}, pool : Pools, owner : Owners \cup {NoPermit},
     permit : Permits \cup {NoPermit}, at : Times, rows : SUBSET Leases,
     fresh : BOOLEAN, until : Nat]

VARIABLES
    leases,      \* collections quota_execution_leases, quota_sse_leases: by pool
    replicas,    \* what each replica does
    buckets,     \* collection quota_rate_buckets: KeyIds -> bucket
    admissions,  \* collection quota_run_admissions: IdempotencyKeys -> day and units
    ledger,      \* the guard document of runs: day, units, pending admissions
    created,     \* idempotency keys with a run (collection idempotency_records)
    queued,      \* those whose run waits in the queue
    submitting,  \* submissions between admission and creation: <<key, whose>>
    overtaken    \* whether an admission was dated before the day of the ledger

permitVars == <<leases, replicas>>
ledgerVars == <<admissions, ledger, created, queued, submitting, overtaken>>
vars == <<clock, keyVars, permitVars, buckets, ledgerVars>>

-----------------------------------------------------------------------------
\* Permits.

IdleHolder == [step |-> "idle", pool |-> "sse", owner |-> NoPermit, permit |-> NoPermit,
               at |-> 0, rows |-> {}, fresh |-> TRUE, until |-> 0]

At(p, step) == replicas[p].step = step

\* An event stream asks for the key it was opened with.
MayHold(pool, owner, at) == pool = "sse" => Active(owner, at)

FreshPermit(n) ==
    /\ \A pool \in Pools : \A row \in leases[pool] : row.permit # n
    /\ \A p \in Replicas : replicas[p].permit # n

\* acquire_execution, acquire_sse: the reading half.
Acquire(p, pool, owner, n, at) ==
    /\ At(p, "idle")
    /\ MayHold(pool, owner, at) /\ FreshPermit(n)
    /\ replicas' = [replicas EXCEPT ![p] =
           [IdleHolder EXCEPT !.step = "acquiring", !.pool = pool, !.owner = owner,
                              !.permit = n, !.at = at, !.rows = leases[pool]]]
    /\ UNCHANGED leases

\* Mutant of Undisturbed: without the guard.
UndisturbedRows(h) == h.rows \subseteq leases[h.pool] /\ MayHold(h.pool, h.owner, h.at)

\* What a transaction read is as it was: the guard, the leases, the key.
Undisturbed(h) ==
    /\ h.fresh
    /\ h.rows \subseteq leases[h.pool]
    /\ MayHold(h.pool, h.owner, h.at)

\* A conflict makes the transaction read again.
ReadAgain(p) ==
    LET h == replicas[p]
    IN /\ At(p, "acquiring")
       /\ ~Undisturbed(h)
       /\ replicas' = [replicas EXCEPT ![p] =
              IF MayHold(h.pool, h.owner, h.at)
              THEN [h EXCEPT !.rows = leases[h.pool], !.fresh = TRUE] ELSE IdleHolder]
       /\ UNCHANGED leases

Expired(rows, at) == {row \in rows : row.expires <= at}

\* _lease_rows, _delete_leases: as many expired leases as fit the batch.
Reclaimable(h) ==
    LET expired == Expired(h.rows, h.at)
    IN {batch \in SUBSET expired :
           Cardinality(batch) = IF Cardinality(expired) < ReclaimBatch
                                THEN Cardinality(expired) ELSE ReclaimBatch}

Granted(h) ==
    LET active == h.rows \ Expired(h.rows, h.at)
    IN /\ Cardinality(active) < Limit[h.pool]
       /\ h.pool = "execution" => \A row \in active : row.owner # h.owner

\* The document of a lease is named after the run, or after the permit of a stream.
SameDocument(pool, row, other) ==
    IF pool = "execution" THEN row.owner = other.owner ELSE row.permit = other.permit

Without(pool, rows) ==
    {other \in leases[pool] : \A row \in rows : ~SameDocument(pool, row, other)}

Write(pool, row, reclaimed) ==
    leases' = [leases EXCEPT ![pool] = Without(pool, reclaimed \cup {row}) \cup {row}]

\* The transaction commits; a grant writes the guard, so that others read again.
Commit(p) ==
    LET h == replicas[p]
        row == [owner |-> h.owner, permit |-> h.permit, expires |-> h.at + Term]
    IN /\ At(p, "acquiring")
       /\ Undisturbed(h)
       /\ \E batch \in Reclaimable(h) :
           \/ /\ Granted(h)
              /\ Write(h.pool, row, batch)
              /\ replicas' = [q \in Replicas |->
                     IF q = p THEN [IdleHolder EXCEPT !.step = "holding", !.pool = h.pool,
                                       !.owner = h.owner, !.permit = h.permit,
                                       !.until = h.at + Term]
                     ELSE IF At(q, "acquiring") /\ replicas[q].pool = h.pool
                          THEN [replicas[q] EXCEPT !.fresh = FALSE] ELSE replicas[q]]
           \/ /\ ~Granted(h)
              /\ leases' = [leases EXCEPT ![h.pool] = Without(h.pool, batch)]
              /\ replicas' = [replicas EXCEPT ![p] = IdleHolder]

\* The lease document a holder goes by, if it is still its own.
Held(h) == {row \in leases[h.pool] : row.owner = h.owner /\ row.permit = h.permit}

\* Mutant of Renewable: the key is not looked at again.
RenewableByAnyKey(h, at) == \E row \in Held(h) : row.expires > at

\* renew_execution, renew_sse.
Renewable(h, at) ==
    /\ \E row \in Held(h) : row.expires > at
    /\ MayHold(h.pool, h.owner, at)

Renew(p, at) ==
    LET h == replicas[p]
    IN /\ At(p, "holding")
       /\ \/ /\ Renewable(h, at)
             /\ Write(h.pool, [owner |-> h.owner, permit |-> h.permit,
                               expires |-> at + Term], {})
             /\ replicas' = [replicas EXCEPT ![p].until = at + Term]
          \/ /\ ~Renewable(h, at)
             /\ replicas' = [replicas EXCEPT ![p].until = 0]
             /\ UNCHANGED leases

\* release_execution, release_sse: the document, if the permit is still in it.
Release(p) ==
    LET h == replicas[p]
    IN /\ At(p, "holding")
       /\ leases' = [leases EXCEPT ![h.pool] = @ \ Held(h)]
       /\ replicas' = [replicas EXCEPT ![p] = IdleHolder]

\* The replica stops; whatever it holds runs out.
Crash(p) ==
    /\ ~At(p, "idle")
    /\ replicas' = [replicas EXCEPT ![p] = IdleHolder]
    /\ UNCHANGED leases

Permitting(p) ==
    \/ ReadAgain(p) \/ Commit(p) \/ Release(p) \/ Crash(p)
    \/ \E at \in Readings :
        \/ Renew(p, at)
        \/ \E pool \in Pools, n \in Permits : \E owner \in OwnersOf(pool) :
              Acquire(p, pool, owner, n, at)

-----------------------------------------------------------------------------
\* The rate of requests.  granted and since are history: the requests let through and
\* the instant of the first one.

Buckets == [tokens : 0..Burst, refill : Times, granted : Nat, since : Times]

AtMost(n, bound) == IF n < bound THEN n ELSE bound

Refilled(bucket, at) == AtMost(bucket.tokens + Rate * (at - bucket.refill), Burst)

\* Mutant of Charged: the instant of the refill is not stored with a grant.
ChargedFromBefore(bucket, tokens, at) ==
    IF tokens >= 1
    THEN [bucket EXCEPT !.tokens = tokens - 1, !.granted = @ + 1]
    ELSE [bucket EXCEPT !.tokens = tokens, !.refill = at]

Charged(bucket, tokens, at) ==
    IF tokens >= 1
    THEN [bucket EXCEPT !.tokens = tokens - 1, !.refill = at, !.granted = @ + 1]
    ELSE [bucket EXCEPT !.tokens = tokens, !.refill = at]

\* admit_request: a reading before the last refill is an error; a refusal is stored too.
AdmitRequest(k, at) ==
    LET first == [tokens |-> Burst, refill |-> at, granted |-> 0, since |-> at]
        bucket == IF buckets[k] = NoGrant THEN first ELSE buckets[k]
    IN /\ Active(k, at)
       /\ at >= bucket.refill
       /\ buckets' = [buckets EXCEPT ![k] = Charged(bucket, Refilled(bucket, at), at)]

-----------------------------------------------------------------------------
\* The daily ledger.

Days == 0..(MaxTime \div DayLength)
DayOf(at) == at \div DayLength

Admissions == [day : Days, units : 0..1]
Whose == {"owner", "follower"}

Charges(day) ==
    Cardinality({i \in IdempotencyKeys : admissions[i] # NoGrant
                                         /\ admissions[i].day = day /\ admissions[i].units = 1})

Submission(i, whose) == <<i, whose>> \in submitting

\* The pending admissions that count at an instant: recent, and their run not yet stored.
Pending(at) ==
    {entry \in ledger.pending : entry[2] > at - Window /\ entry[1] \notin created}

\* admit_run, a key that was admitted before; a key with a run and without an admission
\* gets one that costs nothing.
AdmitKnown(i, at) ==
    /\ admissions[i] # NoGrant \/ i \in created
    /\ admissions' = [admissions EXCEPT
           ![i] = IF @ = NoGrant THEN [day |-> DayOf(at), units |-> 0] ELSE @]
    /\ submitting' = submitting \cup {<<i, "follower">>}
    /\ UNCHANGED <<ledger, created, queued, overtaken>>

\* The units the ledger counts for the day of a reading: another day starts at zero.
UsedOn(day) == IF ledger.day = day THEN ledger.units ELSE 0

\* admit_run, new work.
AdmitNew(i, at) ==
    LET day == DayOf(at)
    IN /\ admissions[i] = NoGrant /\ i \notin created
       /\ ~Submission(i, "owner")
       /\ Cardinality(queued) + Cardinality(Pending(at)) < MaxQueued
       /\ UsedOn(day) + 1 <= Budget
       /\ admissions' = [admissions EXCEPT ![i] = [day |-> day, units |-> 1]]
       /\ ledger' = [day |-> day, units |-> UsedOn(day) + 1,
                     pending |-> Pending(at) \cup {<<i, at>>}]
       /\ submitting' = submitting \cup {<<i, "owner">>}
       /\ overtaken' = (overtaken \/ day < ledger.day)
       /\ UNCHANGED <<created, queued>>

Admit(i, k, at) == Active(k, at) /\ (AdmitKnown(i, at) \/ AdmitNew(i, at))

\* The run of an admitted submission is stored.
StoreRun(i) ==
    /\ \E whose \in Whose : Submission(i, whose)
    /\ i \notin created
    /\ created' = created \cup {i} /\ queued' = queued \cup {i}
    /\ UNCHANGED <<admissions, ledger, submitting, overtaken>>

\* Mutant of Refunded: whatever the day of the admission.
RefundedOnAnyDay(i) == ledger.units - admissions[i].units

\* release_run: a charge of the ledger's day is given back, an older one is not.
Refunded(i) ==
    IF admissions[i].day = ledger.day THEN ledger.units - admissions[i].units
    ELSE ledger.units

\* A submission is over.  The one that made the admission takes it back if its run could
\* not be stored; an inconsistent ledger is an error.
Finish(i, whose) ==
    /\ Submission(i, whose)
    /\ submitting' = submitting \ {<<i, whose>>}
    /\ \/ /\ whose = "owner" /\ i \notin created /\ admissions[i] # NoGrant
          /\ Refunded(i) >= 0
          /\ admissions' = [admissions EXCEPT ![i] = NoGrant]
          /\ ledger' = [ledger EXCEPT !.units = Refunded(i),
                                      !.pending = {entry \in @ : entry[1] # i}]
       \/ UNCHANGED <<admissions, ledger>>
    /\ UNCHANGED <<created, queued, overtaken>>

LeaveQueue(i) ==
    /\ i \in queued
    /\ queued' = queued \ {i}
    /\ UNCHANGED <<admissions, ledger, created, submitting, overtaken>>

Accounting ==
    \E i \in IdempotencyKeys :
        \/ StoreRun(i) \/ LeaveQueue(i)
        \/ \E whose \in Whose : Finish(i, whose)
        \/ \E k \in KeyIds, at \in Readings : Admit(i, k, at)

-----------------------------------------------------------------------------
Tick ==
    /\ clock < MaxTime
    /\ clock' = clock + 1
    /\ UNCHANGED <<keyVars, permitVars, buckets, ledgerVars>>

Init ==
    /\ KeysInit
    /\ leases = [pool \in Pools |-> {}]
    /\ replicas = [p \in Replicas |-> IdleHolder]
    /\ buckets = [k \in KeyIds |-> NoGrant]
    /\ admissions = [i \in IdempotencyKeys |-> NoGrant]
    /\ ledger = [day |-> 0, units |-> 0, pending |-> {}]
    /\ created = {} /\ queued = {} /\ submitting = {}
    /\ overtaken = FALSE

KeyChanges == Managing /\ UNCHANGED <<clock, permitVars, buckets, ledgerVars>>
PermitsOf(p) == Permitting(p) /\ UNCHANGED <<clock, keyVars, buckets, ledgerVars>>
Requests ==
    /\ \E k \in KeyIds, at \in Readings : AdmitRequest(k, at)
    /\ UNCHANGED <<clock, keyVars, permitVars, ledgerVars>>
Runs == Accounting /\ UNCHANGED <<clock, keyVars, permitVars, buckets>>

Next == Tick \/ KeyChanges \/ Requests \/ Runs \/ \E p \in Replicas : PermitsOf(p)

Spec == Init /\ [][Next]_vars

-----------------------------------------------------------------------------
\* Every variable has its type.
QuotaTypeOK ==
    /\ KeysTypeOK
    /\ leases \in [Pools -> SUBSET Leases]
    /\ replicas \in [Replicas -> Holders]
    /\ buckets \in [KeyIds -> Buckets \cup {NoGrant}]
    /\ admissions \in [IdempotencyKeys -> Admissions \cup {NoGrant}]
    /\ ledger \in [day : Days, units : 0..Budget, pending : SUBSET (IdempotencyKeys \X Times)]
    /\ queued \subseteq created /\ created \subseteq IdempotencyKeys
    /\ submitting \subseteq IdempotencyKeys \X Whose
    /\ overtaken \in BOOLEAN

\* However many replicas ask at the same time, with whatever clocks, no more leases are
\* stored than the limit allows; and a replica that was told that its permit runs until an
\* instant has it until then: nobody reclaims it, replaces it or takes the same run,
\* whatever transactions were under way when it was renewed (acquire_execution,
\* acquire_sse, renew_execution and _next_quota_guard against _delete_leases).
PermitsAreExclusive ==
    /\ \A pool \in Pools : Cardinality(leases[pool]) <= Limit[pool]
    /\ \A p \in Replicas :
        LET h == replicas[p]
        IN At(p, "holding") /\ h.until > clock =>
              \E row \in Held(h) :
                  /\ row.expires = h.until
                  /\ \A other \in leases[h.pool] : SameDocument(h.pool, row, other) => other = row

\* A revoked, rotated or expired key keeps no event stream for longer than one term from
\* the instant at which that came into effect, whatever instant was written down for it
\* (renew_sse, acquire_sse against revoke, rotate and the expiry of keys).
StreamsFollowTheirKeys ==
    \A row \in leases["sse"] :
        /\ Stored(row.owner)
        /\ row.expires < keys[row.owner].expires + Term
        /\ keys[row.owner].revoked # Never => row.expires <= ended[row.owner] + Term

\* Over any stretch of time a key gets a burst and the rate of that time, with readings
\* that may be late (admit_request).
RequestsAreRationed ==
    \A k \in KeyIds : buckets[k] # NoGrant =>
        buckets[k].granted + buckets[k].tokens
            <= Burst + Rate * (buckets[k].refill - buckets[k].since)

\* As long as no admission was dated before the day of the ledger, the ledger is the sum
\* of the charges of its day, and no day is charged more than its budget, through
\* retries, failures and releases after midnight (admit_run, release_run).
LedgerIsTheSum ==
    ~overtaken => /\ ledger.units = Charges(ledger.day)
                  /\ \A day \in Days : Charges(day) <= Budget
=============================================================================

---------------------------- MODULE RunAdmission ----------------------------
(***************************************************************************)
(* Quota admission of runs: SQLiteQuotaLimiter.admit_run and release_run   *)
(* around the creation of the run in RunService.submit.  Each is a         *)
(* transaction of its own, so submissions of one idempotency key, retries, *)
(* crashes and the deletion of sessions interleave between them.           *)
(*                                                                         *)
(* Abstractions: of the runs table only what admission counts, whether a   *)
(* run is absent, queued or past the queue; the request hash of a          *)
(* submission is its session (two sessions are two hashes); a rejected or  *)
(* conflicting request changes nothing and has no action.                  *)
(***************************************************************************)
EXTENDS Integers, FiniteSets

CONSTANTS
    RunIds, Keys, Sessions,
    Clients,                    \* submissions under way at the same time
    NoAdmission, NoRecord, Idle,
    MaxQueued,                  \* max_queued_runs
    DailyUnits, UnitsPerRun,    \* daily_work_units, work_units_per_run
    PendingTime,                \* pending_admission_seconds
    DayLength, LastInstant,     \* bounds of the model: the clock
    Delay,                      \* bound of the model: age of a clock reading
    Legacy                      \* keys whose runs precede quota accounting

Time == 0..LastInstant

ASSUME AdmissionAssumption ==
    /\ MaxQueued \in Nat /\ DailyUnits \in Nat /\ UnitsPerRun \in Nat
    /\ PendingTime \in Nat \ {0} /\ DayLength \in Nat \ {0}
    /\ LastInstant \in Nat /\ Delay \in Nat
    /\ Legacy \subseteq Keys
    /\ IsFiniteSet(Keys) /\ IsFiniteSet(RunIds)

DayOf(t) == t \div DayLength
Days == {DayOf(t) : t \in Time}

\* quota_run_admissions: work_units is work_units_per_run, or zero for a run that
\* precedes its admission.
Admissions == [run : RunIds, session : Sessions, at : Time, charged : BOOLEAN]

\* idempotency_records
Records == [run : RunIds, session : Sessions]

\* A submission past its admission; created is RunAdmission.created.
Submissions ==
    [step : {"creating", "releasing"}, key : Keys, session : Sessions,
     run : RunIds, created : BOOLEAN]

ASSUME AbsenceAssumption ==
    /\ NoAdmission \notin Admissions
    /\ NoRecord \notin Records
    /\ Idle \notin Submissions

VARIABLES
    admissions,   \* quota_run_admissions: Keys -> an admission or NoAdmission
    records,      \* idempotency_records: Keys -> a record or NoRecord
    rows,         \* runs: RunIds -> "absent", "queued" or "left"
    sessions,
    requests,     \* the submission each client is waiting for, or Idle
    now

vars == <<admissions, records, rows, sessions, requests, now>>

Readings == {t \in Time : now - Delay <= t /\ t <= now}

Queued == {r \in RunIds : rows[r] = "queued"}

\* Reservations whose run has not been created within the pending window.
Pending(t) ==
    {k \in Keys : /\ admissions[k] # NoAdmission
                  /\ rows[admissions[k].run] = "absent"
                  /\ admissions[k].at > t - PendingTime}

ChargedOn(day) ==
    {k \in Keys : /\ admissions[k] # NoAdmission
                  /\ admissions[k].charged
                  /\ DayOf(admissions[k].at) = day}

Used(day) == UnitsPerRun * Cardinality(ChargedOn(day))

\* A run id nobody uses, as good as one drawn for the first time.
Fresh(r) ==
    /\ rows[r] = "absent"
    /\ \A k \in Keys : admissions[k] # NoAdmission => admissions[k].run # r
    /\ \A c \in Clients : requests[c] # Idle => requests[c].run # r

-----------------------------------------------------------------------------
\* _insert_admission
Admission(r, s, t, charged) ==
    [run |-> r, session |-> s, at |-> t, charged |-> charged]

Proceed(c, k, s, r, created) ==
    requests' = [requests EXCEPT
        ![c] = [step |-> "creating", key |-> k, session |-> s, run |-> r,
                created |-> created]]

\* admit_run for a key that was admitted before.
AdmitAgain(c, k, s) ==
    /\ requests[c] = Idle
    /\ admissions[k] # NoAdmission /\ admissions[k].session = s
    /\ Proceed(c, k, s, admissions[k].run, FALSE)
    /\ UNCHANGED <<admissions, records, rows, sessions, now>>

\* admit_run for a run that precedes quota accounting: admitted free of charge.
AdmitDurable(c, k, s, t) ==
    /\ requests[c] = Idle
    /\ admissions[k] = NoAdmission
    /\ records[k] # NoRecord /\ records[k].session = s
    /\ admissions' = [admissions EXCEPT ![k] = Admission(records[k].run, s, t, FALSE)]
    /\ Proceed(c, k, s, records[k].run, FALSE)
    /\ UNCHANGED <<records, rows, sessions, now>>

\* Mutant of Affordable: the units of the new run are not counted.
AffordableBefore(t) == Used(DayOf(t)) <= DailyUnits

Affordable(t) == Used(DayOf(t)) + UnitsPerRun <= DailyUnits

\* Mutant of Room: runs admitted and not yet created are not counted.
RoomOfRuns(t) == Cardinality(Queued) < MaxQueued

Room(t) == Cardinality(Queued) + Cardinality(Pending(t)) < MaxQueued

\* admit_run for a new key.
AdmitNew(c, k, s, r, t) ==
    /\ requests[c] = Idle
    /\ admissions[k] = NoAdmission /\ records[k] = NoRecord
    /\ Fresh(r)
    /\ Room(t) /\ Affordable(t)
    /\ admissions' = [admissions EXCEPT ![k] = Admission(r, s, t, TRUE)]
    /\ Proceed(c, k, s, r, TRUE)
    /\ UNCHANGED <<records, rows, sessions, now>>

Done(c) == requests' = [requests EXCEPT ![c] = Idle]
Fail(c) == requests' = [requests EXCEPT ![c].step = "releasing"]

\* RunRepository.create stores the run; the request may yet be cancelled between
\* the commit and the answer, and then releases its admission.
Create(c) ==
    LET d == requests[c]
    IN /\ d # Idle /\ d.step = "creating"
       /\ records[d.key] = NoRecord
       /\ rows[d.run] = "absent"
       /\ d.session \in sessions
       /\ records' = [records EXCEPT ![d.key] = [run |-> d.run, session |-> d.session]]
       /\ rows' = [rows EXCEPT ![d.run] = "queued"]
       /\ Done(c) \/ Fail(c)
       /\ UNCHANGED <<admissions, sessions, now>>

\* create answers with the run the key already has.
CreateAgain(c) ==
    LET d == requests[c]
    IN /\ d # Idle /\ d.step = "creating"
       /\ records[d.key] # NoRecord /\ records[d.key].session = d.session
       /\ Done(c)
       /\ UNCHANGED <<admissions, records, rows, sessions, now>>

\* create raises: no session, a conflict, a storage error or a cancelled request.
CreateFails(c) ==
    /\ requests[c] # Idle /\ requests[c].step = "creating"
    /\ Fail(c)
    /\ UNCHANGED <<admissions, records, rows, sessions, now>>

\* Mutant of Release: whoever fails releases.
ReleaseByAnybody(c) ==
    LET d == requests[c]
    IN /\ d # Idle /\ d.step = "releasing"
       /\ admissions' = IF /\ records[d.key] = NoRecord
                           /\ admissions[d.key] # NoAdmission
                           /\ admissions[d.key].run = d.run
                        THEN [admissions EXCEPT ![d.key] = NoAdmission] ELSE admissions
       /\ Done(c)
       /\ UNCHANGED <<records, rows, sessions, now>>

\* release_run: an admission made by this request, unless its key has a run.
Release(c) ==
    LET d == requests[c]
    IN /\ d # Idle /\ d.step = "releasing"
       /\ admissions' = IF /\ d.created
                           /\ records[d.key] = NoRecord
                           /\ admissions[d.key] # NoAdmission
                           /\ admissions[d.key].run = d.run
                        THEN [admissions EXCEPT ![d.key] = NoAdmission] ELSE admissions
       /\ Done(c)
       /\ UNCHANGED <<records, rows, sessions, now>>

\* The process dies and the submission with it.
Crash(c) ==
    /\ requests[c] # Idle
    /\ Done(c)
    /\ UNCHANGED <<admissions, records, rows, sessions, now>>

\* A run is claimed, cancelled or failed; none comes back to the queue.
LeaveQueue(r) ==
    /\ rows[r] = "queued"
    /\ rows' = [rows EXCEPT ![r] = "left"]
    /\ UNCHANGED <<admissions, records, sessions, requests, now>>

\* The session goes with its runs and their keys; the admissions stay.
EndSession(s) ==
    LET gone == {k \in Keys : records[k] # NoRecord /\ records[k].session = s}
    IN /\ s \in sessions
       /\ sessions' = sessions \ {s}
       /\ records' = [k \in Keys |-> IF k \in gone THEN NoRecord ELSE records[k]]
       /\ rows' = [r \in RunIds |-> IF \E k \in gone : records[k].run = r
                                    THEN "absent" ELSE rows[r]]
       /\ UNCHANGED <<admissions, requests, now>>

Tick ==
    /\ now < LastInstant
    /\ now' = now + 1
    /\ UNCHANGED <<admissions, records, rows, sessions, requests>>

-----------------------------------------------------------------------------
\* Runs that precede quota accounting have a record and no admission.
Init ==
    /\ admissions = [k \in Keys |-> NoAdmission]
    /\ records \in {f \in [Keys -> Records \cup {NoRecord}] :
                      /\ \A k \in Keys : f[k] = NoRecord <=> k \notin Legacy
                      /\ \A k, l \in Legacy : f[k].run = f[l].run => k = l}
    /\ rows \in [RunIds -> {"absent", "queued", "left"}]
    /\ \A r \in RunIds : rows[r] = "absent" <=> ~\E k \in Legacy : records[k].run = r
    /\ sessions = Sessions
    /\ requests = [c \in Clients |-> Idle]
    /\ now = 0

Submit(c) ==
    \/ \E k \in Keys, s \in Sessions :
        \/ AdmitAgain(c, k, s)
        \/ \E t \in Readings :
            \/ AdmitDurable(c, k, s, t)
            \/ \E r \in RunIds : AdmitNew(c, k, s, r, t)
    \/ Create(c) \/ CreateAgain(c) \/ CreateFails(c) \/ Release(c)

Next ==
    \/ \E c \in Clients : Submit(c) \/ Crash(c)
    \/ \E r \in RunIds : LeaveQueue(r)
    \/ \E s \in Sessions : EndSession(s)
    \/ Tick

Spec == Init /\ [][Next]_vars

-----------------------------------------------------------------------------
\* Every table and every submission under way has its type.
TypeOK ==
    /\ admissions \in [Keys -> Admissions \cup {NoAdmission}]
    /\ records \in [Keys -> Records \cup {NoRecord}]
    /\ rows \in [RunIds -> {"absent", "queued", "left"}]
    /\ sessions \subseteq Sessions
    /\ requests \in [Clients -> Submissions \cup {Idle}]
    /\ now \in Time

\* However submissions, retries, crashes and late clock readings interleave, the
\* work charged to a day never exceeds the day's budget (admit_run).
DailyBudget == \A day \in Days : Used(day) <= DailyUnits

\* A submission that made an admission finds it, charged and for its own run, for as
\* long as it may still create the run: nobody else releases it (release_run).
OwnersAreCharged ==
    \A c \in Clients :
        requests[c] # Idle =>
            LET d == requests[c]
                a == admissions[d.key]
            IN d.created /\ d.step = "creating"
                => a # NoAdmission /\ a.run = d.run /\ a.session = d.session /\ a.charged

\* Keys charged within the pending window whose run waits or may still be created.
Waiting ==
    {k \in Keys : /\ admissions[k] # NoAdmission
                  /\ admissions[k].charged
                  /\ admissions[k].at > now - PendingTime
                  /\ \/ rows[admissions[k].run] = "queued"
                     \/ rows[admissions[k].run] = "absent" /\ admissions[k].session \in sessions}

\* A burst of submissions within one pending window never puts more runs into the
\* queue than it holds, although runs are counted before they are created (admit_run).
BurstFitsQueue == Cardinality(Waiting) <= MaxQueued

\* No step takes back or alters the admission of a key that has a run: the charge for
\* created work is not refunded (release_run).
ChargesRemain ==
    [][\A k \in Keys : admissions[k] # NoAdmission /\ records[k] # NoRecord
            => admissions'[k] = admissions[k]]_vars

\* docs/api.md:222: new run work is charged once per idempotency key.  A run whose
\* admission was released while a retry was creating it has none.
NewWorkIsCharged ==
    \A k \in Keys : k \notin Legacy /\ records[k] # NoRecord => admissions[k] # NoAdmission
=============================================================================

--------------------------- MODULE RunStoreProofs ---------------------------
(***************************************************************************)
(* Proofs about RunStore for every number of runs, keys, sessions, leases  *)
(* and workers, every clock range and every bound.                         *)
(*                                                                         *)
(* The argument: RowStep relates a row to the row that replaces it.  Each  *)
(* operation that writes a row is a RowStep (one lemma per operation), so  *)
(* a step of the repository creates a row, rewrites one row by a RowStep,  *)
(* or removes rows (StepShape); each property follows from these three     *)
(* shapes.                                                                 *)
(***************************************************************************)
EXTENDS RunStore, TLAPS

ValidRow(run) == run \in RunRecords /\ ValidTimes(run) /\ ValidState(run)

\* Everything the properties need to know about a rewritten row.
RowStep(a, b) ==
    /\ ValidRow(b)
    /\ a.state \notin TerminalStates
    /\ b.gen = a.gen /\ b.session = a.session /\ b.key = a.key
    /\ b.updated >= a.updated
    /\ b.state # "queued"
    /\ a.cancelled # NoTime =>
          /\ b.cancelled = a.cancelled
          /\ b.attempts = a.attempts
          /\ b.lease \in {a.lease, NoLease}
          /\ b.state # a.state => b.state = "cancelled"
    /\ a.lease # NoLease /\ b.lease # NoLease =>
          \/ /\ Holds(b.lease, a.lease.worker, a.lease.id)
             /\ b.lease.acquired = a.lease.acquired
             /\ b.lease.expires >= a.lease.expires
          \/ b.lease.acquired >= a.lease.expires
    /\ b.state \in {"completed", "failed", "expired"} /\ a.state \in OwnedStates =>
          b.updated < a.lease.expires /\ a.cancelled = NoTime

Bumped(run) == [run EXCEPT !.version = @ + 1]

LEMMA PayloadFacts ==
    /\ Payloads("completed") = Answers
    /\ Payloads("failed") = {"run_failure"}
    /\ Payloads("expired") = {"expired_failure"}
    /\ \A state \in States \ {"completed", "failed", "expired"} :
          Payloads(state) = {NoPayload}
    /\ \A state \in States : Payloads(state) \subseteq Answers \cup Failures \cup {NoPayload}
  BY DEF Payloads, States, OwnedStates, TerminalStates, Failures

\* Times are integers, and NoTime is none of them.
LEMMA TimeFacts ==
    /\ Time \subseteq Int /\ NoTime \notin Time
    /\ \A t \in Time : 0 <= t /\ t <= LastInstant
  BY BoundsAssumption DEF Time, NoTime

LEMMA VersionFacts ==
    /\ 0 \in Versions
    /\ \A n \in Versions : n < MaxVersion => n + 1 \in Versions /\ n + 1 # 0
  BY BoundsAssumption DEF Versions

\* A cancellation that takes effect, by whichever operation.
LEMMA CancelledStep ==
    ASSUME NEW run, ValidRow(run), NEW at \in Time, run.version < MaxVersion,
           run.state \notin TerminalStates, at >= run.updated
    PROVE  RowStep(run, Bumped(Cancelled(run, at)))
<1> DEFINE b == Bumped(Cancelled(run, at))
<1>1. /\ b.gen = run.gen /\ b.session = run.session /\ b.key = run.key
      /\ b.state = "cancelled" /\ b.version = run.version + 1
      /\ b.attempts = run.attempts /\ b.created = run.created
      /\ b.updated = at /\ b.terminal = at /\ b.lease = NoLease
      /\ b.payload = run.payload
      /\ b.cancelled = IF run.cancelled = NoTime THEN at ELSE run.cancelled
  BY DEF Bumped, Cancelled, ValidRow, RunRecords
<1>2. b \in RunRecords
  BY <1>1, TimeFacts, VersionFacts
     DEF ValidRow, RunRecords, Bumped, Cancelled, States, TerminalStates
<1>3. ValidTimes(b)
  BY <1>1, BoundsAssumption DEF ValidRow, ValidTimes, RunRecords, Time, NoTime
<1>4. run.payload = NoPayload
  BY PayloadFacts DEF ValidRow, ValidState, RunRecords, TerminalStates
<1>5. ValidState(b)
  BY <1>1, <1>4, PayloadFacts, TimeFacts, SentinelAssumption
     DEF ValidRow, ValidState, RunRecords, States, TerminalStates, OwnedStates
<1> QED
  BY <1>1, <1>2, <1>3, <1>5, TimeFacts DEF RowStep, ValidRow, RunRecords

LEMMA ClaimedStep ==
    ASSUME NEW run, ValidRow(run), run.version < MaxVersion,
           NEW g, NEW w \in WorkerIds, NEW l \in LeaseIds,
           NEW at \in Time, NEW secs \in LeaseSeconds,
           ClaimDisposition(run, g, w, l, at, secs) = "claimed"
    PROVE  RowStep(run, Bumped(ClaimedRow(run, w, l, at, secs)))
<1> DEFINE b == Bumped(ClaimedRow(run, w, l, at, secs))
           lease == [id |-> l, worker |-> w, acquired |-> at, expires |-> at + secs]
<1>1. /\ b.gen = run.gen /\ b.session = run.session /\ b.key = run.key
      /\ b.state = "running" /\ b.version = run.version + 1
      /\ b.attempts = run.attempts + 1 /\ b.created = run.created
      /\ b.updated = at /\ b.terminal = run.terminal /\ b.lease = lease
      /\ b.payload = run.payload /\ b.cancelled = run.cancelled
  BY DEF Bumped, ClaimedRow, ValidRow, RunRecords
<1>2. /\ run.state \notin TerminalStates /\ at >= run.updated
      /\ run.cancelled = NoTime /\ ~Live(run.lease, at) /\ at + secs <= LastInstant
  <2>1. run.state \notin TerminalStates /\ run.cancelled = NoTime
    BY DEF ClaimDisposition
  <2>2. ~(at < run.updated) /\ ~Live(run.lease, at) /\ ~(at + secs > LastInstant)
    BY DEF ClaimDisposition
  <2> QED
    BY <2>1, <2>2, BoundsAssumption DEF ValidRow, RunRecords, LeaseSeconds, Time
<1>3. lease \in Leases /\ lease # NoLease
  BY <1>2, BoundsAssumption, SentinelAssumption DEF Leases, Time, LeaseSeconds
<1>4. b \in RunRecords
  <2>1. lease \in Leases \cup {NoLease} /\ "running" \in States
        /\ run.attempts + 1 \in Nat /\ run.version + 1 \in Versions
    BY <1>3, VersionFacts DEF ValidRow, RunRecords, States, OwnedStates
  <2> HIDE DEF lease
  <2> QED
    BY <2>1 DEF ValidRow, RunRecords, Bumped, ClaimedRow, lease
<1>5. ValidTimes(b)
  BY <1>1, <1>2, BoundsAssumption
     DEF ValidRow, ValidTimes, RunRecords, LeaseSeconds, Time, NoTime
<1>6. run.payload = NoPayload
  BY <1>2, PayloadFacts DEF ValidRow, ValidState, RunRecords, TerminalStates
<1>7. ValidState(b)
  BY <1>1, <1>2, <1>3, <1>6, PayloadFacts, TimeFacts
     DEF ValidRow, ValidState, RunRecords, States, TerminalStates, OwnedStates
<1>8. run.lease # NoLease => lease.acquired >= run.lease.expires
  BY <1>2, BoundsAssumption DEF Live, ValidRow, RunRecords, Leases, Time
<1> QED
  BY <1>1, <1>2, <1>4, <1>5, <1>7, <1>8, TimeFacts
     DEF RowStep, ValidRow, RunRecords, TerminalStates, OwnedStates

LEMMA RenewedStep ==
    ASSUME NEW run, ValidRow(run), run.version < MaxVersion,
           NEW w \in WorkerIds, NEW l \in LeaseIds,
           NEW at \in Time, NEW secs \in LeaseSeconds,
           RenewDisposition(run, w, l, at, secs) = "renewed"
    PROVE  /\ RowStep(run, Bumped(RenewedRow(run, at, secs)))
           /\ RenewedRow(run, at, secs).state = run.state
           /\ RenewedRow(run, at, secs).payload = run.payload
<1> DEFINE b == Bumped(RenewedRow(run, at, secs))
           lease == [run.lease EXCEPT !.expires = LaterOf(@, at + secs)]
<1>2. /\ run.state \notin TerminalStates /\ run.cancelled = NoTime
      /\ run.lease # NoLease /\ at >= run.updated /\ at + secs <= LastInstant
  <2>1. /\ run.state \notin TerminalStates /\ run.cancelled = NoTime
        /\ Live(run.lease, at) /\ ~(at < run.updated) /\ ~(at + secs > LastInstant)
    BY DEF RenewDisposition
  <2> QED
    BY <2>1, BoundsAssumption DEF ValidRow, RunRecords, LeaseSeconds, Time, Live
<1>1. /\ b.gen = run.gen /\ b.session = run.session /\ b.key = run.key
      /\ b.state = run.state /\ b.version = run.version + 1
      /\ b.attempts = run.attempts /\ b.created = run.created
      /\ b.updated = at /\ b.terminal = run.terminal /\ b.lease = lease
      /\ b.payload = run.payload /\ b.cancelled = run.cancelled
      /\ RenewedRow(run, at, secs).state = run.state
      /\ RenewedRow(run, at, secs).payload = run.payload
  BY DEF Bumped, RenewedRow, ValidRow, RunRecords
<1>3. run.lease \in Leases
  BY <1>2 DEF ValidRow, RunRecords
<1>4. /\ lease.id = run.lease.id /\ lease.worker = run.lease.worker
      /\ lease.acquired = run.lease.acquired
      /\ lease.expires >= run.lease.expires /\ lease.expires \in Time
  BY <1>2, <1>3, BoundsAssumption DEF Leases, LaterOf, Time, LeaseSeconds
<1>5. lease \in Leases /\ lease # NoLease
  BY <1>3, <1>4, SentinelAssumption DEF Leases
<1>6. b \in RunRecords
  <2>1. lease \in Leases \cup {NoLease} /\ run.version + 1 \in Versions
    BY <1>5, VersionFacts DEF ValidRow, RunRecords
  <2>2. b = [[[run EXCEPT !.updated = at] EXCEPT !.lease = lease]
                  EXCEPT !.version = run.version + 1]
    BY DEF Bumped, RenewedRow, ValidRow, RunRecords
  <2> HIDE DEF lease, b
  <2> QED
    BY <2>1, <2>2 DEF ValidRow, RunRecords
<1>7. ValidTimes(b)
  BY <1>1, <1>2, <1>3, <1>4, <1>5, BoundsAssumption
     DEF ValidRow, ValidTimes, RunRecords, Leases, Time, NoTime
<1>8. ValidState(b) /\ b.state # "queued"
  BY <1>1, <1>2, <1>5
     DEF ValidRow, ValidState, RunRecords, States, TerminalStates, OwnedStates
<1>9. RowStep(run, b)
  <2> HIDE DEF b, lease
  <2> QED
    BY <1>1, <1>2, <1>4, <1>6, <1>7, <1>8
       DEF RowStep, ValidRow, ValidState, Holds, TerminalStates, OwnedStates
<1> QED
  BY <1>1, <1>9

\* A cancellation left to the owner of the run.
LEMMA FlaggedStep ==
    ASSUME NEW run, ValidRow(run), run.version < MaxVersion, NEW at \in Time,
           run.state \notin TerminalStates, run.cancelled = NoTime,
           at >= run.updated, ~CancelsAtOnce(run, at)
    PROVE  RowStep(run, Bumped(FlaggedRow(run, at)))
<1> DEFINE b == Bumped(FlaggedRow(run, at))
<1>1. /\ b.gen = run.gen /\ b.session = run.session /\ b.key = run.key
      /\ b.state = run.state /\ b.version = run.version + 1
      /\ b.attempts = run.attempts /\ b.created = run.created
      /\ b.updated = at /\ b.terminal = run.terminal /\ b.lease = run.lease
      /\ b.payload = run.payload /\ b.cancelled = at
  BY DEF Bumped, FlaggedRow, ValidRow, RunRecords
<1>2. b \in RunRecords
  BY TimeFacts, VersionFacts DEF ValidRow, RunRecords, Bumped, FlaggedRow
<1>3. ValidTimes(b)
  BY <1>1, BoundsAssumption DEF ValidRow, ValidTimes, RunRecords, Time, NoTime, Leases
<1>4. ValidState(b) /\ b.state # "queued"
  BY <1>1, TimeFacts
     DEF CancelsAtOnce, ValidRow, ValidState, RunRecords, States, TerminalStates, OwnedStates
<1>5. run.lease # NoLease =>
        Holds(b.lease, run.lease.worker, run.lease.id) /\ b.lease.expires >= run.lease.expires
  BY <1>1, BoundsAssumption DEF Holds, ValidRow, RunRecords, Leases, Time
<1> SUFFICES RowStep(run, b)
  OBVIOUS
<1> HIDE DEF b
<1> QED
  BY <1>1, <1>2, <1>3, <1>4, <1>5
     DEF RowStep, ValidRow, TerminalStates

LEMMA UpdatedStep ==
    ASSUME NEW run, ValidRow(run), run.version < MaxVersion,
           NEW version, NEW state, NEW next \in NextStates(state),
           NEW payload \in Payloads(next),
           NEW w \in WorkerIds, NEW l \in LeaseIds, NEW at \in Time,
           WriteDisposition(run, version, state, next, w, l, at) = "applied"
    PROVE  RowStep(run, Bumped(UpdatedRow(run, next, payload, at)))
<1> DEFINE b == Bumped(UpdatedRow(run, next, payload, at))
<1>1. /\ run.state = state /\ ~(at < run.updated)
      /\ state \in OwnedStates => Holds(run.lease, w, l) /\ Live(run.lease, at)
      /\ run.cancelled # NoTime => next = "cancelled"
  BY DEF WriteDisposition
<1>2. at >= run.updated
  BY <1>1, BoundsAssumption DEF ValidRow, RunRecords, Time
<1>3. /\ next \in States \ {"queued"} /\ state \notin TerminalStates
      /\ state = "queued" => next \in TerminalStates
      /\ state \in {"queued"} \cup OwnedStates
  BY DEF NextStates, TerminalStates, OwnedStates, States
<1>4. CASE next = "cancelled"
  <2>1. run.state \notin TerminalStates
    BY <1>1, <1>3
  <2> QED
    BY <1>2, <1>4, <2>1, CancelledStep DEF UpdatedRow
<1>5. CASE next \in TerminalStates \ {"cancelled"}
  <2>1. /\ b.gen = run.gen /\ b.session = run.session /\ b.key = run.key
        /\ b.state = next /\ b.version = run.version + 1
        /\ b.attempts = run.attempts /\ b.created = run.created
        /\ b.updated = at /\ b.terminal = at /\ b.lease = NoLease
        /\ b.payload = payload /\ b.cancelled = run.cancelled
    BY <1>5 DEF Bumped, UpdatedRow, ValidRow, RunRecords
  <2>2. payload \in Answers \cup Failures \cup {NoPayload}
    BY <1>3, PayloadFacts
  <2>3. b \in RunRecords
    <3>1. /\ next \in States /\ run.version + 1 \in Versions
          /\ at \in Time \cup {NoTime} /\ NoLease \in Leases \cup {NoLease}
      BY <1>3, VersionFacts DEF ValidRow, RunRecords
    <3>2. b = [[run EXCEPT !.state = next, !.updated = at, !.terminal = at,
                           !.lease = NoLease, !.payload = payload]
                  EXCEPT !.version = run.version + 1]
      BY <1>5 DEF Bumped, UpdatedRow, ValidRow, RunRecords
    <3> HIDE DEF b
    <3> QED
      BY <2>2, <3>1, <3>2 DEF ValidRow, RunRecords
  <2>4. ValidTimes(b)
    BY <1>2, <2>1, BoundsAssumption DEF ValidRow, ValidTimes, RunRecords, Time, NoTime
  <2>5. run.cancelled = NoTime
    BY <1>1, <1>5
  <2>6. ValidState(b)
    BY <1>3, <1>5, <2>1, <2>5, TimeFacts
       DEF ValidRow, ValidState, RunRecords, TerminalStates, OwnedStates
  <2>7. run.state \in OwnedStates => b.updated < run.lease.expires
    <3> SUFFICES ASSUME run.state \in OwnedStates PROVE at < run.lease.expires
      BY <2>1
    <3>1. run.lease # NoLease /\ run.lease.expires > at
      BY <1>1 DEF Live
    <3>2. run.lease \in Leases
      BY <3>1 DEF ValidRow, RunRecords
    <3> QED
      BY <3>1, <3>2, BoundsAssumption DEF Leases, Time
  <2> SUFFICES RowStep(run, b)
    OBVIOUS
  <2> HIDE DEF b
  <2> QED
    BY <1>1, <1>2, <1>3, <1>5, <2>1, <2>3, <2>4, <2>5, <2>6, <2>7
       DEF RowStep, ValidRow, TerminalStates
<1>6. CASE next \in OwnedStates
  <2>1. /\ b.gen = run.gen /\ b.session = run.session /\ b.key = run.key
        /\ b.state = next /\ b.version = run.version + 1
        /\ b.attempts = run.attempts /\ b.created = run.created
        /\ b.updated = at /\ b.terminal = run.terminal /\ b.lease = run.lease
        /\ b.payload = run.payload /\ b.cancelled = run.cancelled
    BY <1>6 DEF Bumped, UpdatedRow, ValidRow, RunRecords, OwnedStates, TerminalStates
  <2>2. b \in RunRecords
    BY <1>3, <1>6, VersionFacts
       DEF ValidRow, RunRecords, Bumped, UpdatedRow, OwnedStates, TerminalStates
  <2>3. ValidTimes(b)
    BY <1>2, <2>1, BoundsAssumption
       DEF ValidRow, ValidTimes, RunRecords, Time, NoTime, Leases
  <2>4. run.state \in OwnedStates /\ run.cancelled = NoTime
    BY <1>1, <1>3, <1>6 DEF OwnedStates, TerminalStates
  <2>5. b.payload \in Payloads(b.state)
    BY <1>6, <2>1, <2>4, PayloadFacts
       DEF ValidRow, ValidState, States, OwnedStates, TerminalStates
  <2>6. ValidState(b)
    BY <1>6, <2>1, <2>4, <2>5
       DEF ValidRow, ValidState, OwnedStates, TerminalStates
  <2>7. run.lease # NoLease =>
          Holds(b.lease, run.lease.worker, run.lease.id) /\ b.lease.expires >= run.lease.expires
    BY <2>1, BoundsAssumption DEF Holds, ValidRow, RunRecords, Leases, Time
  <2> SUFFICES RowStep(run, b)
    OBVIOUS
  <2> HIDE DEF b
  <2> QED
    BY <1>1, <1>2, <1>3, <1>6, <2>1, <2>2, <2>3, <2>4, <2>6, <2>7
       DEF RowStep, ValidRow, OwnedStates, TerminalStates
<1> QED
  BY <1>3, <1>4, <1>5, <1>6 DEF States

-----------------------------------------------------------------------------
\* The three shapes of a step.

Creates(r) == \E k \in Keys, s \in Sessions, at \in Time : Create(r, k, s, at)

\* Row r is rewritten by a RowStep, with an event or, for a renewal, without.
Rewrites(r) ==
    /\ runs[r] # NoRun
    /\ RowStep(runs[r], runs'[r])
    /\ runs' = [runs EXCEPT ![r] = runs'[r]]
    /\ \/ events' = [events EXCEPT ![r] = Append(@, EventOf(runs'[r]))]
       \/ /\ events' = events
          /\ runs'[r].state = runs[r].state
          /\ runs'[r].payload = runs[r].payload
    /\ \A x \in reflections' : \/ x \in reflections
                               \/ /\ x.session = runs[r].session
                                  /\ x \in Reflections
    /\ UNCHANGED <<idempotency, sessions, generation>>

\* The rows of gone disappear, among them those of a deleted session.
Removes(gone) ==
    /\ Remove(gone)
    /\ sessions' \subseteq sessions
    /\ reflections' \subseteq reflections
    /\ \A r \in RunIds \ gone :
          runs[r] # NoRun /\ runs[r].session \in sessions => runs[r].session \in sessions'
    /\ \A x \in reflections' : x.session \in sessions => x.session \in sessions'
    /\ UNCHANGED generation

\* A rewritten row, whatever the operation, once it is known to be a RowStep.
LEMMA SaveRewrites ==
    ASSUME StoreTypeOK, NEW r \in RunIds, runs[r] # NoRun, NEW b,
           Save(r, b), RowStep(runs[r], Bumped(b)),
           \/ Log(r, b)
           \/ /\ events' = events
              /\ b.state = runs[r].state /\ b.payload = runs[r].payload,
           DOMAIN b = DOMAIN runs[r],
           \/ UNCHANGED reflections
           \/ \E next \in States : Reflect(r, runs[r], next),
           UNCHANGED <<idempotency, sessions, generation>>
    PROVE  Rewrites(r)
<1>1. /\ runs' = [runs EXCEPT ![r] = Bumped(b)] /\ runs'[r] = Bumped(b)
  BY DEF StoreTypeOK, Save, Bumped
<1>2. DOMAIN runs[r] = {"gen", "session", "key", "state", "version", "attempts",
                        "created", "updated", "cancelled", "terminal", "lease",
                        "payload"}
      /\ runs[r] \in RunRecords
  BY DEF StoreTypeOK, RunRecords
<1>3. Bumped(b).state = b.state /\ Bumped(b).payload = b.payload
      /\ Bumped(b).updated = b.updated
  BY <1>2 DEF Bumped
<1>4. EventOf(Bumped(b)) = EventOf(b)
  BY <1>3 DEF EventOf
<1>5. \A x \in reflections' : \/ x \in reflections
                              \/ x.session = runs[r].session /\ x \in Reflections
  BY <1>2 DEF Reflect, Reflections, RunRecords
<1> QED
  BY <1>1, <1>3, <1>4, <1>5 DEF Rewrites, Log

LEMMA ClaimShape ==
    ASSUME StoreTypeOK, ValidLifecycle,
           NEW r \in RunIds, NEW g, NEW w \in WorkerIds, NEW l \in LeaseIds,
           NEW at \in Time, NEW secs \in LeaseSeconds, Claim(r, g, w, l, at, secs)
    PROVE  Rewrites(r)
<1> DEFINE run == runs[r]
<1>1. run # NoRun
  BY DEF Claim, ClaimDisposition
<1>2. ValidRow(run)
  BY <1>1 DEF StoreTypeOK, ValidLifecycle, ValidRow
<1>3. CASE /\ ClaimDisposition(run, g, w, l, at, secs) = "claimed"
           /\ Save(r, ClaimedRow(run, w, l, at, secs))
           /\ Log(r, ClaimedRow(run, w, l, at, secs))
  <2>1. RowStep(run, Bumped(ClaimedRow(run, w, l, at, secs)))
    BY <1>2, <1>3, ClaimedStep DEF Save
  <2>2. DOMAIN ClaimedRow(run, w, l, at, secs) = DOMAIN run
    BY DEF ClaimedRow
  <2> QED
    BY <1>1, <1>3, <2>1, <2>2, SaveRewrites DEF Claim
<1>4. CASE /\ ClaimDisposition(run, g, w, l, at, secs) = "cancellation_requested"
           /\ Save(r, Cancelled(run, at))
           /\ Log(r, Cancelled(run, at))
  <2>1. run.state \notin TerminalStates /\ ~(at < run.updated)
    BY <1>4 DEF ClaimDisposition
  <2>2. RowStep(run, Bumped(Cancelled(run, at)))
    BY <1>2, <1>4, <2>1, CancelledStep, BoundsAssumption
       DEF Save, ValidRow, RunRecords, Time
  <2>3. DOMAIN Cancelled(run, at) = DOMAIN run
    BY DEF Cancelled
  <2> QED
    BY <1>1, <1>4, <2>2, <2>3, SaveRewrites DEF Claim
<1> QED
  BY <1>3, <1>4 DEF Claim

LEMMA RenewShape ==
    ASSUME StoreTypeOK, ValidLifecycle,
           NEW r \in RunIds, NEW w \in WorkerIds, NEW l \in LeaseIds,
           NEW at \in Time, NEW secs \in LeaseSeconds, RenewLease(r, w, l, at, secs)
    PROVE  Rewrites(r)
<1>1. runs[r] # NoRun
  BY DEF RenewLease, RenewDisposition
<1>2. ValidRow(runs[r])
  BY <1>1 DEF StoreTypeOK, ValidLifecycle, ValidRow
<1>3. /\ RowStep(runs[r], Bumped(RenewedRow(runs[r], at, secs)))
      /\ RenewedRow(runs[r], at, secs).state = runs[r].state
      /\ RenewedRow(runs[r], at, secs).payload = runs[r].payload
  BY <1>2, RenewedStep DEF RenewLease, Save
<1>4. DOMAIN RenewedRow(runs[r], at, secs) = DOMAIN runs[r]
  BY DEF RenewedRow
<1> QED
  BY <1>1, <1>3, <1>4, SaveRewrites DEF RenewLease

LEMMA UpdateShape ==
    ASSUME StoreTypeOK, ValidLifecycle,
           NEW r \in RunIds, NEW version, NEW state, NEW next, NEW payload,
           NEW w \in WorkerIds, NEW l \in LeaseIds, NEW at \in Time,
           CompareAndSet(r, version, state, next, payload, w, l, at)
    PROVE  Rewrites(r)
<1>1. runs[r] # NoRun
  BY DEF CompareAndSet, WriteDisposition
<1>2. ValidRow(runs[r])
  BY <1>1 DEF StoreTypeOK, ValidLifecycle, ValidRow
<1>3. RowStep(runs[r], Bumped(UpdatedRow(runs[r], next, payload, at)))
  BY <1>2, UpdatedStep DEF CompareAndSet, Save
<1>4. DOMAIN UpdatedRow(runs[r], next, payload, at) = DOMAIN runs[r]
  BY DEF UpdatedRow, Cancelled
<1>5. \/ UNCHANGED reflections
      \/ \E outcome \in States : Reflect(r, runs[r], outcome)
  BY DEF CompareAndSet, States, TerminalStates
<1> QED
  BY <1>1, <1>3, <1>4, <1>5, SaveRewrites DEF CompareAndSet

LEMMA CancellationShape ==
    ASSUME StoreTypeOK, ValidLifecycle, NEW r \in RunIds, NEW at \in Time,
           RequestCancellation(r, at)
    PROVE  Rewrites(r)
<1> DEFINE changed == IF CancelsAtOnce(runs[r], at) THEN Cancelled(runs[r], at)
                      ELSE FlaggedRow(runs[r], at)
<1>1. /\ runs[r] # NoRun /\ runs[r].state \notin TerminalStates
      /\ runs[r].cancelled = NoTime /\ at >= runs[r].updated
      /\ Save(r, changed) /\ Log(r, changed)
      /\ UNCHANGED <<idempotency, sessions, reflections, generation>>
  BY DEF RequestCancellation
<1>2. ValidRow(runs[r])
  BY <1>1 DEF StoreTypeOK, ValidLifecycle, ValidRow
<1>3. RowStep(runs[r], Bumped(changed))
  BY <1>1, <1>2, CancelledStep, FlaggedStep DEF Save
<1>4. DOMAIN changed = DOMAIN runs[r]
  BY DEF Cancelled, FlaggedRow
<1> QED
  BY <1>1, <1>3, <1>4, SaveRewrites

LEMMA DeletionShape ==
    ASSUME StoreTypeOK,
           \/ \E r \in RunIds : DeleteRun(r)
           \/ \E s \in Sessions : DeleteSession(s) \/ DeleteMemory(s)
    PROVE  \E gone \in SUBSET RunIds : Removes(gone)
<1>1. CASE \E r \in RunIds : DeleteRun(r)
  <2> PICK r \in RunIds : DeleteRun(r)
    BY <1>1
  <2>1. Removes({r})
    BY DEF DeleteRun, Removes
  <2> QED
    BY <2>1
<1>2. CASE \E s \in Sessions : DeleteSession(s)
  <2> PICK s \in Sessions : DeleteSession(s)
    BY <1>2
  <2>1. Removes(RunsOf(s))
    BY DEF DeleteSession, Removes, RunsOf
  <2> QED
    BY <2>1 DEF RunsOf
<1>3. CASE \E s \in Sessions : DeleteMemory(s)
  <2> PICK s \in Sessions : DeleteMemory(s)
    BY <1>3
  <2>1. Remove({})
    BY DEF DeleteMemory, Remove, StoreTypeOK
  <2>2. Removes({})
    BY <2>1 DEF DeleteMemory, Removes
  <2> QED
    BY <2>2
<1> QED
  BY <1>1, <1>2, <1>3

LEMMA StepShape ==
    ASSUME StoreTypeOK, ValidLifecycle, StoreNext
    PROVE  \/ \E r \in RunIds : Creates(r) \/ Rewrites(r)
           \/ \E gone \in SUBSET RunIds : Removes(gone)
<1>1. CASE \E r \in RunIds, at \in Time : Operate(r, at)
  <2> PICK r \in RunIds, at \in Time : Operate(r, at)
    BY <1>1
  <2> QED
    BY ClaimShape, RenewShape, UpdateShape, CancellationShape DEF Operate, Creates
<1> QED
  BY <1>1, DeletionShape DEF StoreNext

-----------------------------------------------------------------------------
\* The inductive invariant.  No part is inductive alone: a valid row needs the
\* types, a faithful log needs the valid row it repeats, and the key of a row
\* has to be its own for the cascade to leave the tables consistent.

StoreInv ==
    /\ StoreTypeOK /\ ValidLifecycle /\ EventLogFaithful
    /\ IdempotencyConsistent /\ NothingOutlivesItsSession

LEMMA EventsAreTyped ==
    ASSUME NEW run \in RunRecords
    PROVE  EventOf(run) \in Events
  BY DEF EventOf, Events, RunRecords

\* One more event at the end of a faithful log.
LEMMA LongerLog ==
    ASSUME NEW log \in Seq(Events), NEW a \in RunRecords, NEW b \in RunRecords,
           FaithfulLog(a, log), a.state \notin TerminalStates, a.updated <= b.updated
    PROVE  FaithfulLog(b, Append(log, EventOf(b)))
<1> DEFINE e == EventOf(b)
           longer == Append(log, e)
<1>1. e \in Events /\ e.state = b.state /\ e.payload = b.payload /\ e.at = b.updated
  BY EventsAreTyped DEF EventOf
<1> HIDE DEF e
<1>2. /\ Len(log) \in Nat /\ Len(longer) = Len(log) + 1
      /\ longer[Len(log) + 1] = e
      /\ \A i \in 1..Len(log) : longer[i] = log[i] /\ log[i] \in Events
  BY <1>1
<1>3. /\ Len(log) > 0 /\ log[1].state = "queued"
      /\ log[Len(log)].state = a.state /\ log[Len(log)].at <= a.updated
      /\ \A i \in 1..Len(log) - 1 : /\ log[i].state \notin TerminalStates
                                   /\ log[i].at <= log[i + 1].at
  BY DEF FaithfulLog
<1> HIDE DEF longer
<1>4. log[Len(log)].at <= b.updated
  <2>1. log[Len(log)] \in Events
    BY <1>2, <1>3
  <2>2. log[Len(log)].at \in Int /\ a.updated \in Int /\ b.updated \in Int
    BY <2>1, TimeFacts DEF Events, RunRecords
  <2> QED
    BY <1>3, <2>2
<1>5. \A i \in 1..Len(longer) - 1 : /\ longer[i].state \notin TerminalStates
                                   /\ longer[i].at <= longer[i + 1].at
  <2> TAKE i \in 1..Len(longer) - 1
  <2>1. CASE i = Len(log)
    BY <1>1, <1>2, <1>3, <1>4, <2>1
  <2>2. CASE i # Len(log)
    <3>1. i \in 1..Len(log) - 1 /\ i + 1 \in 1..Len(log)
      BY <1>2, <2>2
    <3> QED
      BY <1>2, <1>3, <3>1
  <2> QED
    BY <2>1, <2>2
<1>6. b.updated <= b.updated
  BY BoundsAssumption DEF RunRecords, Time
<1> QED
  BY <1>1, <1>2, <1>3, <1>5, <1>6 DEF FaithfulLog, e, longer

LEMMA CreatedRow ==
    ASSUME StoreTypeOK, NEW r \in RunIds, NEW k \in Keys, NEW s \in Sessions,
           NEW at \in Time, Create(r, k, s, at)
    PROVE  /\ ValidRow(runs'[r])
           /\ runs' = [runs EXCEPT ![r] = runs'[r]]
           /\ events' = [events EXCEPT ![r] = Append(@, EventOf(runs'[r]))]
           /\ runs'[r].state = "queued" /\ runs'[r].cancelled = NoTime
           /\ runs'[r].key = k /\ runs'[r].session = s
           /\ runs'[r].payload = NoPayload
<1> DEFINE run == [gen |-> generation + 1, session |-> s, key |-> k,
                   state |-> "queued", version |-> 0, attempts |-> 0,
                   created |-> at, updated |-> at, cancelled |-> NoTime,
                   terminal |-> NoTime, lease |-> NoLease, payload |-> NoPayload]
<1>1. /\ runs' = [runs EXCEPT ![r] = run] /\ Log(r, run)
      /\ generation < MaxGeneration
  BY DEF Create
<1>2. runs'[r] = run
  BY <1>1 DEF StoreTypeOK
<1>3. generation + 1 \in Generations
  BY <1>1, BoundsAssumption DEF StoreTypeOK, Generations
<1>4. run \in RunRecords
  BY <1>3, VersionFacts DEF RunRecords, States
<1>5. ValidTimes(run)
  BY BoundsAssumption DEF ValidTimes, Time
<1>6. ValidState(run)
  BY PayloadFacts DEF ValidState, States, TerminalStates, OwnedStates
<1> HIDE DEF run
<1>7. ValidRow(runs'[r])
  BY <1>2, <1>4, <1>5, <1>6 DEF ValidRow
<1>8. events' = [events EXCEPT ![r] = Append(@, EventOf(runs'[r]))]
  BY <1>1, <1>2 DEF Log
<1>9. runs' = [runs EXCEPT ![r] = runs'[r]]
  BY <1>1, <1>2
<1> QED
  BY <1>2, <1>7, <1>8, <1>9 DEF run

LEMMA CreatesKeepsInv ==
    ASSUME StoreInv, NEW r \in RunIds, Creates(r)
    PROVE  StoreInv'
<1> PICK k \in Keys, s \in Sessions, at \in Time : Create(r, k, s, at)
  BY DEF Creates
<1> USE DEF StoreInv
<1>1. /\ ValidRow(runs'[r])
      /\ runs' = [runs EXCEPT ![r] = runs'[r]]
      /\ events' = [events EXCEPT ![r] = Append(@, EventOf(runs'[r]))]
      /\ runs'[r].state = "queued"
      /\ runs'[r].key = k /\ runs'[r].session = s
  BY CreatedRow
<1>2. /\ idempotency[k] = NoRun /\ runs[r] = NoRun /\ s \in sessions
      /\ idempotency' = [idempotency EXCEPT ![k] = r]
      /\ sessions' = sessions /\ reflections' = reflections
      /\ generation' \in 0..MaxGeneration
  BY BoundsAssumption DEF Create, StoreTypeOK
<1>3. runs'[r] \in RunRecords /\ runs'[r] # NoRun
  BY <1>1, SentinelAssumption DEF ValidRow
<1>4. events[r] = <<>>
  BY <1>2 DEF EventLogFaithful
<1>5. events'[r] = <<EventOf(runs'[r])>> /\ EventOf(runs'[r]) \in Events
  BY <1>1, <1>3, <1>4, EventsAreTyped DEF StoreTypeOK
<1>6. StoreTypeOK'
  BY <1>1, <1>2, <1>3, <1>5 DEF StoreTypeOK
<1>7. ValidLifecycle'
  BY <1>1 DEF ValidLifecycle, ValidRow, StoreTypeOK
<1>8. FaithfulLog(runs'[r], events'[r])
  <2>1. runs'[r].updated <= runs'[r].updated
    BY <1>3, BoundsAssumption DEF RunRecords, Time
  <2>2. Len(events'[r]) = 1 /\ events'[r][1] = EventOf(runs'[r])
    BY <1>5
  <2>3. /\ EventOf(runs'[r]).state = runs'[r].state
        /\ EventOf(runs'[r]).payload = runs'[r].payload
        /\ EventOf(runs'[r]).at = runs'[r].updated
    BY DEF EventOf
  <2>4. \A i \in 1..Len(events'[r]) - 1 : FALSE
    BY <2>2
  <2> HIDE DEF StoreInv
  <2> QED
    BY <1>1, <2>1, <2>2, <2>3, <2>4 DEF FaithfulLog
<1>9. EventLogFaithful'
  <2> SUFFICES ASSUME NEW q \in RunIds
               PROVE  IF runs'[q] = NoRun THEN events'[q] = <<>>
                      ELSE FaithfulLog(runs'[q], events'[q])
    BY DEF EventLogFaithful
  <2>1. CASE q = r
    BY <1>3, <1>8, <2>1
  <2>2. CASE q # r
    BY <1>1, <2>2 DEF EventLogFaithful, StoreTypeOK
  <2> QED
    BY <2>1, <2>2
<1>10. IdempotencyConsistent'
  <2>1. \A q \in RunIds \ {r} : runs'[q] = runs[q]
    BY <1>1 DEF StoreTypeOK
  <2>2. /\ idempotency'[k] = r
        /\ \A x \in Keys \ {k} : idempotency'[x] = idempotency[x]
    BY <1>2 DEF StoreTypeOK
  <2>3. \A x \in Keys : idempotency'[x] # NoRun =>
          runs'[idempotency'[x]] # NoRun /\ runs'[idempotency'[x]].key = x
    <3> SUFFICES ASSUME NEW x \in Keys, idempotency'[x] # NoRun
                 PROVE  runs'[idempotency'[x]] # NoRun /\ runs'[idempotency'[x]].key = x
      OBVIOUS
    <3>1. CASE x = k
      BY <1>1, <1>3, <2>2, <3>1
    <3>2. CASE x # k
      <4>1. /\ idempotency'[x] = idempotency[x] /\ idempotency[x] \in RunIds
            /\ runs[idempotency[x]] # NoRun /\ runs[idempotency[x]].key = x
        BY <2>2, <3>2 DEF IdempotencyConsistent, StoreTypeOK
      <4> QED
        BY <1>2, <2>1, <4>1
    <3> QED
      BY <3>1, <3>2
  <2>4. \A q \in RunIds : runs'[q] # NoRun => idempotency'[runs'[q].key] = q
    <3> SUFFICES ASSUME NEW q \in RunIds, runs'[q] # NoRun
                 PROVE  idempotency'[runs'[q].key] = q
      OBVIOUS
    <3>1. CASE q = r
      BY <1>1, <2>2, <3>1
    <3>2. CASE q # r
      <4>1. runs[q] # NoRun /\ runs'[q] = runs[q] /\ idempotency[runs[q].key] = q
        BY <2>1, <3>2 DEF IdempotencyConsistent
      <4>2. runs[q].key \in Keys
        BY <4>1 DEF StoreTypeOK, RunRecords
      <4>3. runs[q].key # k
        BY <1>2, <4>1, SentinelAssumption
      <4> QED
        BY <2>2, <4>1, <4>2, <4>3
    <3> QED
      BY <3>1, <3>2
  <2> QED
    BY <2>3, <2>4 DEF IdempotencyConsistent
<1>11. NothingOutlivesItsSession'
  BY <1>1, <1>2 DEF NothingOutlivesItsSession, StoreTypeOK
<1> QED
  BY <1>6, <1>7, <1>9, <1>10, <1>11

LEMMA RewritesKeepsInv ==
    ASSUME StoreInv, NEW r \in RunIds, Rewrites(r)
    PROVE  StoreInv'
<1> USE DEF StoreInv
<1>1. /\ runs[r] # NoRun /\ RowStep(runs[r], runs'[r])
      /\ runs' = [runs EXCEPT ![r] = runs'[r]]
      /\ idempotency' = idempotency /\ sessions' = sessions
      /\ generation' = generation
      /\ \A x \in reflections' : \/ x \in reflections
                                 \/ /\ x.session = runs[r].session
                                    /\ x \in Reflections
  BY DEF Rewrites
<1>2. /\ ValidRow(runs'[r]) /\ runs'[r] \in RunRecords /\ runs'[r] # NoRun
      /\ runs'[r].key = runs[r].key /\ runs'[r].session = runs[r].session
      /\ runs[r].state \notin TerminalStates
      /\ runs[r] \in RunRecords
      /\ runs'[r].updated >= runs[r].updated
  BY <1>1, SentinelAssumption DEF RowStep, ValidRow, StoreTypeOK
<1>3. runs[r].updated <= runs'[r].updated
  BY <1>2, BoundsAssumption DEF RunRecords, Time
<1>4. FaithfulLog(runs[r], events[r]) /\ events[r] \in Seq(Events)
  BY <1>1 DEF EventLogFaithful, StoreTypeOK
<1>5. /\ FaithfulLog(runs'[r], events'[r]) /\ events' \in [RunIds -> Seq(Events)]
      /\ \A q \in RunIds \ {r} : events'[q] = events[q]
  <2>1. CASE events' = [events EXCEPT ![r] = Append(@, EventOf(runs'[r]))]
    <3>1. FaithfulLog(runs'[r], Append(events[r], EventOf(runs'[r])))
      BY <1>2, <1>3, <1>4, LongerLog
    <3>2. EventOf(runs'[r]) \in Events
      BY <1>2, EventsAreTyped
    <3> QED
      BY <2>1, <3>1, <3>2 DEF StoreTypeOK
  <2>2. CASE /\ events' = events
             /\ runs'[r].state = runs[r].state /\ runs'[r].payload = runs[r].payload
    <3>1. Len(events[r]) > 0 /\ events[r][Len(events[r])] \in Events
      BY <1>4 DEF FaithfulLog
    <3>2. events[r][Len(events[r])].at <= runs'[r].updated
      BY <1>2, <1>3, <1>4, <3>1, BoundsAssumption
         DEF FaithfulLog, Events, RunRecords, Time
    <3>3. FaithfulLog(runs'[r], events[r])
      BY <1>4, <2>2, <3>2 DEF FaithfulLog
    <3> QED
      BY <2>2, <3>3 DEF StoreTypeOK
  <2> QED
    BY <2>1, <2>2 DEF Rewrites
<1>6. StoreTypeOK'
  BY <1>1, <1>2, <1>5 DEF StoreTypeOK
<1>7. ValidLifecycle'
  BY <1>1, <1>2 DEF ValidLifecycle, ValidRow, StoreTypeOK
<1>8. EventLogFaithful'
  <2> SUFFICES ASSUME NEW q \in RunIds
               PROVE  IF runs'[q] = NoRun THEN events'[q] = <<>>
                      ELSE FaithfulLog(runs'[q], events'[q])
    BY DEF EventLogFaithful
  <2>1. CASE q = r
    <3> HIDE DEF StoreInv
    <3> QED
      BY <1>2, <1>5, <2>1
  <2>2. CASE q # r
    BY <1>1, <1>5, <2>2 DEF EventLogFaithful, StoreTypeOK
  <2> QED
    BY <2>1, <2>2
<1>9. IdempotencyConsistent'
  <2>1. \A q \in RunIds :
          /\ runs'[q] # NoRun <=> runs[q] # NoRun
          /\ runs[q] # NoRun => runs'[q].key = runs[q].key
    BY <1>1, <1>2 DEF StoreTypeOK
  <2>2. \A k \in Keys : idempotency[k] # NoRun => idempotency[k] \in RunIds
    BY DEF StoreTypeOK
  <2>3. IdempotencyConsistent
    OBVIOUS
  <2> HIDE DEF StoreInv
  <2> QED
    BY <1>1, <2>1, <2>2, <2>3 DEF IdempotencyConsistent
<1>10. NothingOutlivesItsSession'
  BY <1>1, <1>2 DEF NothingOutlivesItsSession, StoreTypeOK
<1> QED
  BY <1>6, <1>7, <1>8, <1>9, <1>10

LEMMA RemovesKeepsInv ==
    ASSUME StoreInv, NEW gone \in SUBSET RunIds, Removes(gone)
    PROVE  StoreInv'
<1> USE DEF StoreInv
<1>1. /\ runs' = [r \in RunIds |-> IF r \in gone THEN NoRun ELSE runs[r]]
      /\ events' = [r \in RunIds |-> IF r \in gone THEN <<>> ELSE events[r]]
      /\ idempotency' = [k \in Keys |-> IF idempotency[k] \in gone
                                       THEN NoRun ELSE idempotency[k]]
  BY DEF Removes, Remove
<1>2. /\ sessions' \subseteq sessions /\ reflections' \subseteq reflections
      /\ \A r \in RunIds \ gone :
            runs[r] # NoRun /\ runs[r].session \in sessions => runs[r].session \in sessions'
      /\ \A x \in reflections' : x.session \in sessions => x.session \in sessions'
      /\ generation' = generation
  BY DEF Removes
<1>3. StoreTypeOK'
  BY <1>1, <1>2 DEF StoreTypeOK
<1>4. ValidLifecycle'
  BY <1>1 DEF ValidLifecycle
<1>5. EventLogFaithful'
  BY <1>1 DEF EventLogFaithful
<1>6. IdempotencyConsistent'
  <2>1. \A k \in Keys : idempotency'[k] # NoRun =>
          runs'[idempotency'[k]] # NoRun /\ runs'[idempotency'[k]].key = k
    <3> SUFFICES ASSUME NEW k \in Keys, idempotency'[k] # NoRun
                 PROVE  runs'[idempotency'[k]] # NoRun /\ runs'[idempotency'[k]].key = k
      OBVIOUS
    <3>1. idempotency'[k] = idempotency[k] /\ idempotency[k] \in RunIds \ gone
      BY <1>1 DEF StoreTypeOK
    <3> QED
      BY <1>1, <3>1 DEF IdempotencyConsistent
  <2>2. \A r \in RunIds : runs'[r] # NoRun => idempotency'[runs'[r].key] = r
    <3> SUFFICES ASSUME NEW r \in RunIds, runs'[r] # NoRun
                 PROVE  idempotency'[runs'[r].key] = r
      OBVIOUS
    <3>1. r \notin gone /\ runs'[r] = runs[r] /\ runs[r] # NoRun
      BY <1>1
    <3>2. idempotency[runs[r].key] = r /\ runs[r].key \in Keys
      BY <3>1 DEF IdempotencyConsistent, StoreTypeOK, RunRecords
    <3> QED
      BY <1>1, <3>1, <3>2
  <2> QED
    BY <2>1, <2>2 DEF IdempotencyConsistent
<1>7. NothingOutlivesItsSession'
  BY <1>1, <1>2 DEF NothingOutlivesItsSession
<1> QED
  BY <1>3, <1>4, <1>5, <1>6, <1>7

LEMMA InitInv == StoreInit => StoreInv
  BY BoundsAssumption
     DEF StoreInit, StoreInv, StoreTypeOK, ValidLifecycle, EventLogFaithful,
         IdempotencyConsistent, NothingOutlivesItsSession

LEMMA StepInv == StoreInv /\ [StoreNext]_storeVars => StoreInv'
<1> SUFFICES ASSUME StoreInv, [StoreNext]_storeVars PROVE StoreInv'
  OBVIOUS
<1>1. CASE StoreNext
  BY <1>1, StepShape, CreatesKeepsInv, RewritesKeepsInv, RemovesKeepsInv DEF StoreInv
<1>2. CASE UNCHANGED storeVars
  BY <1>2 DEF storeVars, StoreInv, StoreTypeOK, ValidLifecycle, EventLogFaithful,
              IdempotencyConsistent, NothingOutlivesItsSession
<1> QED
  BY <1>1, <1>2

\* The invariant of the store is inductive: what StoreInit establishes every
\* operation of the repository preserves.
THEOREM Invariance == StoreSpec => []StoreInv
  BY InitInv, StepInv, PTL DEF StoreSpec

\* Every variable keeps its type.
THEOREM TypeCorrect == StoreSpec => []StoreTypeOK
  BY Invariance, PTL DEF StoreInv

\* No sequence of operations composes to a row that RunRecord's validator
\* (validate_lifecycle) would refuse.
THEOREM LifecycleIsValid == StoreSpec => []ValidLifecycle
  BY Invariance, PTL DEF StoreInv

\* The event log of a run is the history of its row: state and event commit
\* together (_save_run and _append_run_event in one transaction).
THEOREM LogIsFaithful == StoreSpec => []EventLogFaithful
  BY Invariance, PTL DEF StoreInv

\* A key and its run find each other through every deletion and reuse (create,
\* and the foreign keys that cascade).
THEOREM KeysAreConsistent == StoreSpec => []IdempotencyConsistent
  BY Invariance, PTL DEF StoreInv

\* Deleting a session (SQLiteSessionRepository.delete) leaves nothing of it.
THEOREM SessionsLeaveNothing == StoreSpec => []NothingOutlivesItsSession
  BY Invariance, PTL DEF StoreInv

-----------------------------------------------------------------------------
\* Action properties.

\* A step leaves row r alone, rewrites it by a RowStep, or starts or ends it.
LEMMA RowFate ==
    ASSUME StoreInv, [StoreNext]_storeVars, NEW r \in RunIds, Continues(r)
    PROVE  \/ runs'[r] = runs[r] /\ events'[r] = events[r]
           \/ RowStep(runs[r], runs'[r])
<1>1. CASE \E q \in RunIds : Creates(q)
  <2> PICK q \in RunIds, k \in Keys, s \in Sessions, at \in Time : Create(q, k, s, at)
    BY <1>1 DEF Creates
  <2>1. /\ runs[q] = NoRun
        /\ runs' = [runs EXCEPT ![q] = runs'[q]]
        /\ events' = [events EXCEPT ![q] = Append(@, EventOf(runs'[q]))]
    BY CreatedRow DEF Create, StoreInv
  <2>2. q # r
    BY <2>1 DEF Continues
  <2> QED
    BY <2>1, <2>2 DEF StoreInv, StoreTypeOK
<1>2. CASE \E q \in RunIds : Rewrites(q)
  <2> PICK q \in RunIds : Rewrites(q)
    BY <1>2
  <2>1. CASE q = r
    BY <2>1 DEF Rewrites
  <2>2. CASE q # r
    BY <2>2 DEF Rewrites, StoreInv, StoreTypeOK
  <2> QED
    BY <2>1, <2>2
<1>3. CASE \E gone \in SUBSET RunIds : Removes(gone)
  BY <1>3 DEF Removes, Remove, Continues
<1>4. CASE UNCHANGED storeVars
  BY <1>4 DEF storeVars
<1> QED
  BY <1>1, <1>2, <1>3, <1>4, StepShape DEF StoreInv

\* A run id changes generation only through an absent row.
LEMMA Rebirth ==
    ASSUME StoreInv, [StoreNext]_storeVars, NEW r \in RunIds,
           runs[r] # NoRun, runs'[r] # NoRun
    PROVE  runs'[r].gen = runs[r].gen
<1>1. CASE \E q \in RunIds : Creates(q)
  <2> PICK q \in RunIds, k \in Keys, s \in Sessions, at \in Time : Create(q, k, s, at)
    BY <1>1 DEF Creates
  <2>1. runs[q] = NoRun /\ runs' = [runs EXCEPT ![q] = runs'[q]]
    BY CreatedRow DEF Create, StoreInv
  <2> QED
    BY <2>1 DEF StoreInv, StoreTypeOK
<1>2. CASE \E q \in RunIds : Rewrites(q)
  BY <1>2 DEF Rewrites, RowStep, StoreInv, StoreTypeOK
<1>3. CASE \E gone \in SUBSET RunIds : Removes(gone)
  BY <1>3 DEF Removes, Remove
<1>4. CASE UNCHANGED storeVars
  BY <1>4 DEF storeVars
<1> QED
  BY <1>1, <1>2, <1>3, <1>4, StepShape DEF StoreInv

\* "Terminal exactly once": no claim, renewal, update or cancellation, however
\* late, writes a terminal row again.
THEOREM TerminalStaysFinal == StoreSpec => TerminalIsFinal
<1>1. StoreInv /\ [StoreNext]_storeVars =>
        [\A r \in RunIds :
           /\ runs[r] # NoRun /\ runs'[r] # NoRun => runs'[r].gen = runs[r].gen
           /\ Continues(r) /\ runs[r].state \in TerminalStates =>
                runs'[r] = runs[r] /\ events'[r] = events[r]]_storeVars
  BY RowFate, Rebirth DEF RowStep
<1> QED
  BY <1>1, Invariance, PTL DEF StoreSpec, TerminalIsFinal

\* After request_cancellation no claim, renewal or update gets past the flag.
THEOREM CancellationIsHonoured == StoreSpec => CancellationHonoured
<1>1. StoreInv /\ [StoreNext]_storeVars =>
        [\A r \in RunIds :
           Continues(r) /\ runs[r].cancelled # NoTime =>
             /\ runs'[r].cancelled = runs[r].cancelled
             /\ runs'[r].attempts = runs[r].attempts
             /\ runs'[r].lease \in {runs[r].lease, NoLease}
             /\ runs'[r].state # runs[r].state => runs'[r].state = "cancelled"]_storeVars
  BY RowFate DEF RowStep
<1> QED
  BY <1>1, Invariance, PTL DEF StoreSpec, CancellationHonoured

\* Two leases of one run (claim, renew_lease) never overlap, for any number of
\* processes and any clock readings.
THEOREM LeasesAreHandedOver == StoreSpec => LeaseHandover
<1>1. StoreInv /\ [StoreNext]_storeVars =>
        [\A r \in RunIds :
           Continues(r) /\ runs[r].lease # NoLease /\ runs'[r].lease # NoLease =>
             \/ /\ Holds(runs'[r].lease, runs[r].lease.worker, runs[r].lease.id)
                /\ runs'[r].lease.acquired = runs[r].lease.acquired
                /\ runs'[r].lease.expires >= runs[r].lease.expires
             \/ runs'[r].lease.acquired >= runs[r].lease.expires]_storeVars
  <2> SUFFICES ASSUME StoreInv, [StoreNext]_storeVars, NEW r \in RunIds, Continues(r),
                      runs[r].lease # NoLease, runs'[r].lease # NoLease
               PROVE  \/ /\ Holds(runs'[r].lease, runs[r].lease.worker, runs[r].lease.id)
                         /\ runs'[r].lease.acquired = runs[r].lease.acquired
                         /\ runs'[r].lease.expires >= runs[r].lease.expires
                      \/ runs'[r].lease.acquired >= runs[r].lease.expires
    OBVIOUS
  <2>1. runs[r].lease \in Leases
    BY DEF StoreInv, StoreTypeOK, RunRecords, Continues
  <2>2. runs[r].lease.expires >= runs[r].lease.expires
    BY <2>1, BoundsAssumption DEF Leases, Time
  <2> QED
    BY <2>2, RowFate DEF RowStep, Holds
<1> QED
  BY <1>1, Invariance, PTL DEF StoreSpec, LeaseHandover

\* compare_and_set stores the result of an execution only under its live lease
\* and with no cancellation requested.
THEOREM ResultsNeedALiveLease == StoreSpec => ResultNeedsLiveLease
<1>1. StoreInv /\ [StoreNext]_storeVars =>
        [\A r \in RunIds :
           Continues(r) /\ runs'[r].state \in {"completed", "failed", "expired"}
             /\ runs[r].state \in OwnedStates =>
               /\ runs'[r].updated < runs[r].lease.expires
               /\ runs[r].cancelled = NoTime]_storeVars
  BY RowFate DEF RowStep, OwnedStates
<1> QED
  BY <1>1, Invariance, PTL DEF StoreSpec, ResultNeedsLiveLease

-----------------------------------------------------------------------------
\* Refinement: a step of the repository is a step of RunPromise or a stutter.

LEMMA PromiseInit == StoreInit => Promise!Init
  BY DEF StoreInit, Promise!Init, PhaseOf, ResultOf, NoPayload, Promise!NoPayload

\* A rewritten row accepts a cancellation, ends the run, or shows nothing.
LEMMA RowPromise ==
    ASSUME NEW a, NEW b, ValidRow(a), RowStep(a, b)
    PROVE  /\ ResultOf(a) = NoPayload
           /\ PhaseOf(a) \in {"pending", "cancelling"}
           /\ \/ PhaseOf(b) = PhaseOf(a) /\ ResultOf(b) = NoPayload
              \/ /\ PhaseOf(a) = "pending" /\ PhaseOf(b) = "cancelling"
                 /\ ResultOf(b) = NoPayload
              \/ /\ PhaseOf(b) \in TerminalStates
                 /\ PhaseOf(a) = "pending" \/ PhaseOf(b) = "cancelled"
                 /\ ResultOf(b) \in Payloads(PhaseOf(b))
<1>1. a # NoRun /\ b # NoRun
  BY SentinelAssumption DEF RowStep, ValidRow
<1>2. a.state \in States /\ b.state \in States /\ a.state \notin TerminalStates
  BY DEF RowStep, ValidRow, RunRecords
<1>3. /\ a.payload = NoPayload
      /\ b.payload \in Payloads(b.state)
      /\ b.state \notin TerminalStates => b.payload = NoPayload
  BY <1>2, PayloadFacts DEF RowStep, ValidRow, ValidState, TerminalStates
<1>4. CASE b.state \in TerminalStates
  BY <1>1, <1>2, <1>3, <1>4 DEF PhaseOf, ResultOf, RowStep
<1>5. CASE b.state \notin TerminalStates
  BY <1>1, <1>2, <1>3, <1>5 DEF PhaseOf, ResultOf, RowStep
<1> QED
  BY <1>4, <1>5

LEMMA PromiseRewrites ==
    ASSUME StoreInv, NEW r \in RunIds, Rewrites(r)
    PROVE  Promise!Next \/ UNCHANGED Promise!promiseVars
<1> DEFINE phase == [q \in RunIds |-> PhaseOf(runs[q])]
           result == [q \in RunIds |-> ResultOf(runs[q])]
<1>1. ValidRow(runs[r]) /\ RowStep(runs[r], runs'[r])
  BY DEF StoreInv, StoreTypeOK, ValidLifecycle, ValidRow, Rewrites
<1>2. \A q \in RunIds \ {r} : runs'[q] = runs[q]
  BY DEF Rewrites, StoreInv, StoreTypeOK
<1>3. /\ phase' = [phase EXCEPT ![r] = PhaseOf(runs'[r])]
      /\ result' = [result EXCEPT ![r] = ResultOf(runs'[r])]
  BY <1>2
<1>4. phase[r] = PhaseOf(runs[r]) /\ result[r] = ResultOf(runs[r])
  OBVIOUS
<1>5. /\ ResultOf(runs'[r]) = NoPayload => result' = result
      /\ PhaseOf(runs'[r]) = PhaseOf(runs[r]) => phase' = phase
  <2>1. NoPayload = result[r] /\ PhaseOf(runs[r]) = phase[r]
    BY <1>1, <1>4, RowPromise
  <2> HIDE DEF phase, result
  <2>2. /\ [phase EXCEPT ![r] = phase[r]] = phase
        /\ [result EXCEPT ![r] = result[r]] = result
    BY DEF phase, result
  <2> QED
    BY <1>3, <2>1, <2>2
<1>6. CASE /\ PhaseOf(runs'[r]) = PhaseOf(runs[r])
           /\ ResultOf(runs'[r]) = NoPayload
  BY <1>5, <1>6 DEF Promise!promiseVars
<1>7. CASE /\ PhaseOf(runs[r]) = "pending" /\ PhaseOf(runs'[r]) = "cancelling"
           /\ ResultOf(runs'[r]) = NoPayload
  <2>1. Promise!AskToCancel(r)
    BY <1>3, <1>4, <1>5, <1>7 DEF Promise!AskToCancel
  <2> QED
    BY <2>1 DEF Promise!Next
<1>8. CASE /\ PhaseOf(runs'[r]) \in TerminalStates
           /\ PhaseOf(runs[r]) = "pending" \/ PhaseOf(runs'[r]) = "cancelled"
           /\ ResultOf(runs'[r]) \in Payloads(PhaseOf(runs'[r]))
  <2>1. Promise!End(r, PhaseOf(runs'[r]), ResultOf(runs'[r]))
    BY <1>1, <1>3, <1>4, <1>8, RowPromise DEF Promise!End
  <2>2. /\ PhaseOf(runs'[r]) \in Promise!TerminalStates
        /\ ResultOf(runs'[r]) \in Promise!Payloads(PhaseOf(runs'[r]))
    BY <1>8 DEF Promise!TerminalStates, TerminalStates, Promise!Payloads, Payloads,
                Promise!NoPayload, NoPayload
  <2> QED
    BY <2>1, <2>2 DEF Promise!Next
<1> QED
  BY <1>1, <1>6, <1>7, <1>8, RowPromise

LEMMA PromiseCreates ==
    ASSUME StoreInv, NEW r \in RunIds, Creates(r)
    PROVE  Promise!Next
<1> PICK k \in Keys, s \in Sessions, at \in Time : Create(r, k, s, at)
  BY DEF Creates
<1>1. /\ runs[r] = NoRun /\ ValidRow(runs'[r])
      /\ runs' = [runs EXCEPT ![r] = runs'[r]]
      /\ runs'[r].state = "queued" /\ runs'[r].cancelled = NoTime
      /\ runs'[r].payload = NoPayload
  BY CreatedRow DEF Create, StoreInv
<1>2. runs'[r] # NoRun
  BY <1>1, SentinelAssumption DEF ValidRow
<1>3. /\ PhaseOf(runs[r]) = "absent" /\ PhaseOf(runs'[r]) = "pending"
      /\ ResultOf(runs[r]) = ResultOf(runs'[r])
  BY <1>1, <1>2 DEF PhaseOf, ResultOf, TerminalStates
<1>4. \A q \in RunIds \ {r} : runs'[q] = runs[q]
  BY <1>1 DEF StoreInv, StoreTypeOK
<1> DEFINE phase == [q \in RunIds |-> PhaseOf(runs[q])]
           result == [q \in RunIds |-> ResultOf(runs[q])]
<1>5. phase' = [phase EXCEPT ![r] = "pending"] /\ phase[r] = "absent"
  <2>1. phase' = [phase EXCEPT ![r] = PhaseOf(runs'[r])]
    BY <1>4
  <2>2. PhaseOf(runs'[r]) = "pending" /\ phase[r] = "absent"
    BY <1>3
  <2> HIDE DEF phase
  <2> QED
    BY <2>1, <2>2
<1>6. result' = result
  <2>1. \A q \in RunIds : ResultOf(runs'[q]) = ResultOf(runs[q])
    BY <1>3, <1>4
  <2> QED
    BY <2>1
<1>7. Promise!Accept(r)
  BY <1>5, <1>6 DEF Promise!Accept
<1> QED
  BY <1>7 DEF Promise!Next

LEMMA PromiseRemoves ==
    ASSUME NEW gone \in SUBSET RunIds, Removes(gone)
    PROVE  Promise!Next
<1>1. Promise!Forget(gone)
  BY DEF Promise!Forget, Removes, Remove, PhaseOf, ResultOf, NoPayload, Promise!NoPayload
<1> QED
  BY <1>1 DEF Promise!Next

\* What the repository shows of a run is what RunPromise allows: pending until
\* it ends once, in a state and with a result that fit, and as cancelled after
\* a cancellation was accepted.
THEOREM ImplementsPromise == StoreSpec => PromiseKept
<1>1. StoreInv /\ [StoreNext]_storeVars => [Promise!Next]_(Promise!promiseVars)
  <2> SUFFICES ASSUME StoreInv, [StoreNext]_storeVars
               PROVE  Promise!Next \/ UNCHANGED Promise!promiseVars
    OBVIOUS
  <2>1. CASE UNCHANGED storeVars
    BY <2>1 DEF storeVars, Promise!promiseVars
  <2>2. CASE StoreNext
    BY <2>2, StepShape, PromiseCreates, PromiseRewrites, PromiseRemoves DEF StoreInv
  <2> QED
    BY <2>1, <2>2
<1> QED
  BY <1>1, PromiseInit, Invariance, PTL DEF StoreSpec, Promise!Spec, PromiseKept

-----------------------------------------------------------------------------
\* Refinement: the rows and their events are the log of EventLog.

KindOf(state) == IF state \in TerminalStates THEN "end" ELSE "status"

LEMMA AppendedElements ==
    ASSUME NEW S, NEW f \in Seq(S), NEW x \in S
    PROVE  Append(f, x) = [i \in 1..(Len(f) + 1) |-> IF i = Len(f) + 1 THEN x ELSE f[i]]
<1> DEFINE g == [i \in 1..(Len(f) + 1) |-> IF i = Len(f) + 1 THEN x ELSE f[i]]
           h == Append(f, x)
<1>1. h \in Seq(S) /\ Len(f) \in Nat /\ Len(h) = Len(f) + 1
  OBVIOUS
<1>2. DOMAIN h = 1..(Len(f) + 1)
  BY <1>1
<1>3. h = [i \in DOMAIN h |-> h[i]]
  <2>1. \A t \in Seq(S) : t = [i \in DOMAIN t |-> t[i]]
    OBVIOUS
  <2> HIDE DEF h
  <2> QED
    BY <1>1, <2>1
<1>4. \A i \in 1..(Len(f) + 1) : h[i] = IF i = Len(f) + 1 THEN x ELSE f[i]
  BY <1>1
<1> HIDE DEF h
<1>5. h = [i \in 1..(Len(f) + 1) |-> h[i]]
  BY <1>2, <1>3
<1> QED
  BY <1>4, <1>5 DEF h

LEMMA NumberedAppend ==
    ASSUME NEW seq \in Seq(Events), NEW e \in Events
    PROVE  Numbered(Append(seq, e)) = EventTable!Appended(Numbered(seq), KindOf(e.state))
<1> DEFINE entry(i, x) == [sequence |-> i, kind |-> KindOf(x.state)]
<1>1. /\ Numbered(seq) = [i \in 1..Len(seq) |-> entry(i, seq[i])]
      /\ Len(seq) \in Nat
  BY DEF Numbered, KindOf
<1>2. /\ Append(seq, e) \in Seq(Events)
      /\ Len(Append(seq, e)) = Len(seq) + 1
      /\ Append(seq, e)[Len(seq) + 1] = e
      /\ \A i \in 1..Len(seq) : Append(seq, e)[i] = seq[i]
  OBVIOUS
<1>3. Numbered(Append(seq, e)) = [i \in 1..(Len(seq) + 1) |-> entry(i, Append(seq, e)[i])]
  BY <1>2 DEF Numbered, KindOf
<1>4. Len(Numbered(seq)) = Len(seq)
  BY <1>1
<1>5. EventTable!Appended(Numbered(seq), KindOf(e.state))
        = [i \in 1..(Len(seq) + 1) |->
            IF i = Len(seq) + 1 THEN entry(Len(seq) + 1, e) ELSE entry(i, seq[i])]
  <2> HIDE DEF entry
  <2>1. EventTable!Appended(Numbered(seq), KindOf(e.state))
            = Append(Numbered(seq), entry(Len(seq) + 1, e))
    BY <1>4 DEF EventTable!Appended, entry
  <2>2. \A i \in 1..(Len(seq) + 1), x \in Events : entry(i, x) \in EventTable!LogEvents
    BY <1>1 DEF entry, KindOf, EventTable!LogEvents
  <2>3. Numbered(seq) \in Seq(EventTable!LogEvents)
    BY <1>1, <2>2
  <2>4. entry(Len(seq) + 1, e) \in EventTable!LogEvents
    BY <1>1, <2>2
  <2>5. \A f \in Seq(EventTable!LogEvents), x \in EventTable!LogEvents :
            Append(f, x) = [i \in 1..(Len(f) + 1) |-> IF i = Len(f) + 1 THEN x ELSE f[i]]
    BY AppendedElements
  <2>6. Append(Numbered(seq), entry(Len(seq) + 1, e))
            = [i \in 1..(Len(seq) + 1) |->
                IF i = Len(seq) + 1 THEN entry(Len(seq) + 1, e) ELSE Numbered(seq)[i]]
    BY <1>4, <2>3, <2>4, <2>5
  <2>7. \A i \in 1..Len(seq) : Numbered(seq)[i] = entry(i, seq[i])
    BY <1>1
  <2>8. \A i \in 1..(Len(seq) + 1) : i # Len(seq) + 1 => i \in 1..Len(seq)
    BY <1>1
  <2> QED
    BY <2>1, <2>6, <2>7, <2>8
<1>6. \A i \in 1..(Len(seq) + 1) :
        entry(i, Append(seq, e)[i])
            = IF i = Len(seq) + 1 THEN entry(Len(seq) + 1, e) ELSE entry(i, seq[i])
  BY <1>1, <1>2
<1> HIDE DEF entry
<1> QED
  BY <1>3, <1>5, <1>6

LEMMA LogInitial == StoreInit => EventTable!LogInit
  BY DEF StoreInit, EventTable!LogInit, StatusOf, Numbered

LEMMA LogRewrites ==
    ASSUME StoreInv, NEW r \in RunIds, Rewrites(r)
    PROVE  EventTable!LogNext \/ UNCHANGED EventTable!logVars
<1> DEFINE status == [q \in RunIds |-> StatusOf(runs[q])]
           log == [q \in RunIds |-> Numbered(events[q])]
<1>1. ValidRow(runs[r]) /\ RowStep(runs[r], runs'[r])
  BY DEF StoreInv, StoreTypeOK, ValidLifecycle, ValidRow, Rewrites
<1>2. /\ runs[r] # NoRun /\ runs'[r] # NoRun
      /\ runs[r].state \notin TerminalStates
      /\ runs'[r] \in RunRecords
  BY <1>1, SentinelAssumption DEF RowStep, ValidRow
<1>3. \A q \in RunIds \ {r} : runs'[q] = runs[q]
  BY DEF Rewrites, StoreInv, StoreTypeOK
<1>4. status' = [status EXCEPT ![r] = StatusOf(runs'[r])] /\ status[r] = "live"
  BY <1>2, <1>3 DEF StatusOf
<1>5. CASE events' = [events EXCEPT ![r] = Append(@, EventOf(runs'[r]))]
  <2> DEFINE e == EventOf(runs'[r])
             kind == KindOf(runs'[r].state)
  <2>1. e \in Events /\ e.state = runs'[r].state /\ events[r] \in Seq(Events)
    BY <1>2, EventsAreTyped DEF EventOf, StoreInv, StoreTypeOK
  <2>2. Numbered(events'[r]) = EventTable!Appended(log[r], kind)
    <3>1. events'[r] = Append(events[r], e)
      BY <1>5 DEF StoreInv, StoreTypeOK
    <3>2. \A x \in Events : Numbered(Append(events[r], x))
                                = EventTable!Appended(Numbered(events[r]), KindOf(x.state))
      BY <2>1, NumberedAppend
    <3> HIDE DEF e
    <3> QED
      BY <2>1, <3>1, <3>2
  <2>3. log' = [log EXCEPT ![r] = EventTable!Appended(log[r], kind)]
    <3>1. \A q \in RunIds \ {r} : events'[q] = events[q]
      BY <1>5 DEF StoreInv, StoreTypeOK
    <3>2. log' = [log EXCEPT ![r] = Numbered(events'[r])]
      BY <3>1
    <3> HIDE DEF log, kind
    <3> QED
      BY <2>2, <3>2
  <2>4. StatusOf(runs'[r]) = IF kind = "end" THEN "over" ELSE "live"
    BY <1>2 DEF StatusOf, KindOf
  <2>5. kind \in {"status", "end"}
    BY DEF KindOf
  <2>6. EventTable!Write(r, kind)
    BY <1>4, <2>3, <2>4 DEF EventTable!Write
  <2> HIDE DEF kind
  <2> QED
    BY <2>5, <2>6 DEF EventTable!LogNext
<1>6. CASE events' = events /\ runs'[r].state = runs[r].state
  <2>1. StatusOf(runs'[r]) = status[r]
    BY <1>2, <1>4, <1>6 DEF StatusOf
  <2>2. status' = status
    <3> HIDE DEF status
    <3>1. [status EXCEPT ![r] = status[r]] = status
      BY DEF status
    <3> QED
      BY <1>4, <2>1, <3>1
  <2> QED
    BY <1>6, <2>2 DEF EventTable!logVars
<1> QED
  BY <1>5, <1>6 DEF Rewrites

LEMMA LogCreates ==
    ASSUME StoreInv, NEW r \in RunIds, Creates(r)
    PROVE  EventTable!LogNext
<1> PICK k \in Keys, s \in Sessions, at \in Time : Create(r, k, s, at)
  BY DEF Creates
<1>1. /\ runs[r] = NoRun /\ ValidRow(runs'[r])
      /\ runs' = [runs EXCEPT ![r] = runs'[r]]
      /\ events' = [events EXCEPT ![r] = Append(@, EventOf(runs'[r]))]
      /\ runs'[r].state = "queued"
  BY CreatedRow DEF Create, StoreInv
<1>2. events[r] = <<>> /\ runs'[r] # NoRun /\ runs'[r] \in RunRecords
  BY <1>1, SentinelAssumption DEF StoreInv, EventLogFaithful, ValidRow
<1> DEFINE status == [q \in RunIds |-> StatusOf(runs[q])]
           log == [q \in RunIds |-> Numbered(events[q])]
<1>3. status' = [status EXCEPT ![r] = "live"] /\ status[r] = "absent"
  <2>1. \A q \in RunIds \ {r} : runs'[q] = runs[q]
    BY <1>1 DEF StoreInv, StoreTypeOK
  <2>2. StatusOf(runs'[r]) = "live" /\ status[r] = "absent"
    BY <1>1, <1>2 DEF StatusOf, TerminalStates
  <2>3. status' = [status EXCEPT ![r] = StatusOf(runs'[r])]
    BY <2>1
  <2> HIDE DEF status
  <2> QED
    BY <2>2, <2>3
<1>4. log' = [log EXCEPT ![r] = EventTable!Appended(<<>>, "status")]
  <2>1. Numbered(<<>>) = <<>>
    BY DEF Numbered
  <2>2. KindOf("queued") = "status"
    BY DEF KindOf, TerminalStates
  <2>3. EventOf(runs'[r]) \in Events /\ EventOf(runs'[r]).state = "queued"
    BY <1>1, <1>2, EventsAreTyped DEF EventOf
  <2>4. \A x \in Events : Numbered(Append(<<>>, x))
                            = EventTable!Appended(Numbered(<<>>), KindOf(x.state))
    <3>1. <<>> \in Seq(Events)
      OBVIOUS
    <3> QED
      BY <3>1, NumberedAppend
  <2>5. events'[r] = Append(<<>>, EventOf(runs'[r]))
    BY <1>1, <1>2 DEF StoreInv, StoreTypeOK
  <2>6. Numbered(events'[r]) = EventTable!Appended(<<>>, "status")
    BY <2>1, <2>2, <2>3, <2>4, <2>5
  <2>7. \A q \in RunIds \ {r} : events'[q] = events[q]
    BY <1>1 DEF StoreInv, StoreTypeOK
  <2>8. log' = [log EXCEPT ![r] = Numbered(events'[r])]
    BY <2>7
  <2> HIDE DEF log
  <2> QED
    BY <2>6, <2>8
<1>5. EventTable!Begin(r)
  BY <1>3, <1>4 DEF EventTable!Begin
<1> QED
  BY <1>5 DEF EventTable!LogNext

LEMMA LogRemoves ==
    ASSUME NEW gone \in SUBSET RunIds, Removes(gone)
    PROVE  EventTable!LogNext
<1>1. Numbered(<<>>) = <<>> /\ StatusOf(NoRun) = "absent"
  BY DEF Numbered, StatusOf
<1>2. /\ \A r \in RunIds : runs'[r] = IF r \in gone THEN NoRun ELSE runs[r]
      /\ \A r \in RunIds : events'[r] = IF r \in gone THEN <<>> ELSE events[r]
  BY DEF Removes, Remove
<1>3. /\ \A r \in RunIds :
            StatusOf(runs'[r]) = IF r \in gone THEN "absent" ELSE StatusOf(runs[r])
      /\ \A r \in RunIds :
            Numbered(events'[r]) = IF r \in gone THEN <<>> ELSE Numbered(events[r])
  BY <1>1, <1>2
<1>4. EventTable!Drop(gone)
  BY <1>3 DEF EventTable!Drop
<1> QED
  BY <1>4 DEF EventTable!LogNext

\* What a reader of a run's events sees is the log of EventLog: numbered without gaps,
\* appended to with each change of the run, ended by its terminal event.
THEOREM ImplementsEventLog == StoreSpec => LogKept
<1>1. StoreInv /\ [StoreNext]_storeVars => [EventTable!LogNext]_(EventTable!logVars)
  <2> SUFFICES ASSUME StoreInv, [StoreNext]_storeVars
               PROVE  EventTable!LogNext \/ UNCHANGED EventTable!logVars
    OBVIOUS
  <2>1. CASE UNCHANGED storeVars
    BY <2>1 DEF storeVars, EventTable!logVars
  <2>2. CASE StoreNext
    BY <2>2, StepShape, LogCreates, LogRewrites, LogRemoves DEF StoreInv
  <2> QED
    BY <2>1, <2>2
<1> QED
  BY <1>1, LogInitial, Invariance, PTL DEF StoreSpec, EventTable!LogSpec, LogKept
=============================================================================

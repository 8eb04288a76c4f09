------------------------- MODULE LocalServiceProofs -------------------------
(***************************************************************************)
(* Proofs about LocalService, for any number of processes, runs, sessions  *)
(* and leases and any delay of the clock readings.                         *)
(*                                                                         *)
(* The argument: every step is a step of the run store or leaves it alone  *)
(* (ServiceShape), so the theorems about the store hold here; and a delivery *)
(* knows only things that stay true of its run while it is under way.      *)
(*                                                                         *)
(* The last two parts are about what shares the deployment and no state:   *)
(* the listing of sessions, and the schema of the file.                    *)
(***************************************************************************)
EXTENDS LocalService, Migrations, SessionPages, RunStoreProofs, SequenceTheorems,
        FiniteSetTheorems, WellFoundedInduction

Engaged == {"executing", "inspecting", "writing", "cancelling"}

\* Nobody will execute this generation of the row's run any more.
Over(run, g) ==
    \/ run = NoRun
    \/ run.gen # g
    \/ run.state \in TerminalStates
    \/ run.cancelled # NoTime

\* What a delivery holds: the item, and a row under the lease it claimed.
Sound(d) ==
    /\ d \in Deliveries
    /\ d.step # "idle" => d.run \in RunIds /\ d.gen \in Generations
    /\ d.step \in Engaged =>
          /\ d.seen \in RunRecords
          /\ d.seen.state \in OwnedStates
          /\ d.seen.lease \in Leases
          /\ d.lease \in LeaseIds
    /\ d.step \in Engaged \ {"cancelling"} => d.seen.lease.id = d.lease

WorkersSound == \A p \in Processes : Sound(workers[p])

\* Generations are drawn in order, so none that is remembered comes again.
GenerationsAreOld ==
    /\ \A p \in Processes : ~At(p, "idle") => workers[p].gen <= generation
    /\ \A c \in calls : c.gen <= generation
    /\ \A r \in RunIds : runs[r] # NoRun => runs[r].gen <= generation

\* A delivery or request about to take the item off knows that it may.
RemovalsAreJustified ==
    /\ \A p \in Processes : workers[p].step \in {"discarding", "clearing"} =>
          Over(runs[workers[p].run], workers[p].gen)
    /\ \A c \in calls : c.kind = "cancel" => Over(runs[c.run], c.gen)

\* A delivery that can still lead to an execution has its item in the queue.
DeliveriesAreQueued ==
    \A p \in Processes :
        workers[p].step # "idle" /\ ~Over(runs[workers[p].run], workers[p].gen)
            => work[workers[p].run] # NoItem

\* An executing process has the lease on the row, or the run is over for it, or
\* its lease has run out.
Tenure(p) ==
    LET d == workers[p]
        run == runs[d.run]
    IN \/ run = NoRun
       \/ run.gen # d.gen
       \/ run.state \in TerminalStates
       \/ /\ run.lease # NoLease
          /\ run.lease.id = d.lease
          /\ run.lease.expires = d.seen.lease.expires
       \/ d.seen.lease.expires <= now

\* A lease on a row that bears the id of an execution is of that execution's run.
LeaseOfItsRun(p) ==
    LET d == workers[p]
        run == runs[d.run]
    IN run # NoRun /\ run.lease # NoLease /\ run.lease.id = d.lease => run.gen = d.gen

LeasesDiffer ==
    \A p, q \in Processes :
        At(p, "executing") /\ At(q, "executing") /\ p # q
            => workers[p].lease # workers[q].lease

ExecutionsAreSound ==
    /\ \A p \in Processes : At(p, "executing") => Tenure(p) /\ LeaseOfItsRun(p)
    /\ LeasesDiffer
    /\ OneExecution

ServiceInv ==
    /\ StoreInv /\ TypeOK /\ WorkersSound /\ GenerationsAreOld
    /\ QueueHasItsRuns /\ RemovalsAreJustified /\ DeliveriesAreQueued
    /\ ExecutionsAreRecoverable /\ ExecutionsAreSound

-----------------------------------------------------------------------------
\* The shapes of a step.

\* A row is left alone, removed, created, ended, or flagged.
RowKept(r) ==
    \/ runs'[r] = runs[r]
    \/ runs'[r] = NoRun /\ work'[r] = NoItem
    \/ /\ runs[r] = NoRun /\ runs'[r] # NoRun
       /\ runs'[r].gen = generation' /\ generation < generation'
       /\ runs'[r].state = "queued"
    \/ /\ runs[r] # NoRun /\ runs'[r] # NoRun /\ runs'[r].gen = runs[r].gen
       /\ \/ runs'[r].state \in TerminalStates
          \/ /\ runs'[r].state = runs[r].state
             /\ runs'[r].lease = runs[r].lease
             /\ runs'[r].cancelled # NoTime

\* The executing process p has renewed the lease of its run.
RenewedBy(p, r) ==
    /\ At(p, "executing") /\ workers[p].run = r
    /\ runs[r] # NoRun /\ runs'[r] # NoRun /\ runs'[r].gen = runs[r].gen
    /\ runs[r].state \notin TerminalStates /\ runs'[r].state = runs[r].state
    /\ runs'[r].cancelled = runs[r].cancelled
    /\ runs[r].lease # NoLease /\ runs[r].lease.id = workers[p].lease
    /\ runs'[r].lease # NoLease /\ runs'[r].lease.id = workers[p].lease

\* Process p has claimed the run of its delivery under a fresh lease.
ClaimedBy(p, r) ==
    /\ At(p, "claiming") /\ workers[p].run = r
    /\ ~Over(runs[r], workers[p].gen)
    /\ runs'[r] # NoRun /\ runs'[r].gen = runs[r].gen
    /\ ~Live(runs[r].lease, now)
    /\ \A q \in Processes : runs'[r].lease.id # workers[q].lease

\* The item of a run is left alone, delivered, put there, removed because the run
\* is over, or gone with its row.
ItemKept(r) ==
    \/ work'[r] = work[r]
    \/ work[r] # NoItem /\ work'[r] # NoItem /\ work'[r].gen = work[r].gen
    \/ /\ work[r] = NoItem /\ work'[r] # NoItem
       /\ runs'[r] = runs[r] /\ Present(r, work'[r].gen)
    \/ /\ work[r] # NoItem /\ work'[r] = NoItem
       /\ runs'[r] = runs[r] /\ Over(runs[r], work[r].gen)
    \/ work'[r] = NoItem /\ runs'[r] = NoRun

\* A delivery starts with an item, keeps its run, ends knowing that it may, and
\* executes under the lease it has just claimed or renewed.
Proceeds(p) ==
    LET d == workers[p]
        e == workers'[p]
        run == runs[e.run]
    IN /\ e.step # "idle" =>
             \/ /\ work[e.run] # NoItem /\ e.gen = work[e.run].gen
                /\ work'[e.run] # NoItem
             \/ d.step # "idle" /\ e.run = d.run /\ e.gen = d.gen /\ work' = work
       /\ e.step \in {"discarding", "clearing"} => Over(runs'[e.run], e.gen)
       /\ e.step = "executing" =>
             /\ ~Over(run, e.gen)
             /\ e.seen = runs'[e.run] /\ e.seen.gen = e.gen
             /\ \/ ClaimedBy(p, e.run)
                \/ RenewedBy(p, e.run) /\ e.lease = d.lease

\* A step of process p, and a step of everything else.
Acts(p) ==
    /\ now' = now /\ calls' = calls
    /\ work' \in [RunIds -> Items \cup {NoItem}]
    /\ workers' = [workers EXCEPT ![p] = workers'[p]]
    /\ Sound(workers'[p])
    /\ Proceeds(p)
    /\ \A r \in RunIds :
          /\ ItemKept(r)
          /\ RowKept(r) \/ RenewedBy(p, r) \/ ClaimedBy(p, r)

Asks ==
    /\ now' \in Time /\ now' >= now
    /\ workers' = workers
    /\ work' \in [RunIds -> Items \cup {NoItem}]
    /\ \A c \in calls' \ calls :
          /\ c \in Calls
          /\ c.gen <= generation'
          /\ c.kind = "cancel" => Over(runs'[c.run], c.gen)
    /\ \A r \in RunIds : ItemKept(r) /\ RowKept(r)

-----------------------------------------------------------------------------
\* One lemma for each action of a process: it is a step of the store or leaves
\* it alone, and it has the shape of Acts.

LEMMA Facts ==
    ASSUME ServiceInv
    PROVE  /\ workers \in [Processes -> Deliveries]
           /\ \A p \in Processes : Sound(workers[p])
           /\ \A r \in RunIds : runs[r] \in RunRecords \cup {NoRun}
           /\ work \in [RunIds -> Items \cup {NoItem}]
           /\ now \in Time /\ calls \subseteq Calls
           /\ NoRun \notin RunRecords /\ NoRun \notin RunIds /\ NoItem \notin Items
  BY SentinelAssumption, ItemAssumption
     DEF ServiceInv, TypeOK, StoreTypeOK, WorkersTypeOK, WorkersSound

LEMMA NoOutcomeIsOutcome == NoOutcome \in Outcomes
  BY DEF NoOutcome, Outcomes, Failures

LEMMA IdleIsSound ==
    Idle \in Deliveries /\ Sound(Idle) /\ Idle.step = "idle"
<1>1. NoOutcome \in Outcomes
  BY NoOutcomeIsOutcome
<1>2. Idle \in Deliveries /\ Idle.step = "idle"
  BY <1>1 DEF Idle, Deliveries, Steps
<1> QED
  BY <1>2 DEF Sound, Engaged

Last(step, r, g) == [Idle EXCEPT !.step = step, !.run = r, !.gen = g]

LEMMA EndingIsSound ==
    ASSUME NEW step \in {"discarding", "clearing"}, NEW r \in RunIds,
           NEW g \in Generations
    PROVE  /\ Sound(Last(step, r, g)) /\ Last(step, r, g).step = step
           /\ Last(step, r, g).run = r /\ Last(step, r, g).gen = g
<1> DEFINE d == Last(step, r, g)
<1>1. d \in Deliveries /\ d.step = step /\ d.run = r /\ d.gen = g
  BY IdleIsSound DEF Idle, Deliveries, Steps, Last
<1> HIDE DEF d
<1>2. Sound(d)
  BY <1>1 DEF Sound, Engaged
<1> QED
  BY <1>1, <1>2 DEF d

\* What is left alone keeps its shape.
LEMMA Stillness ==
    /\ UNCHANGED runs => \A r \in RunIds : RowKept(r)
    /\ UNCHANGED work => \A r \in RunIds : ItemKept(r)
  BY DEF RowKept, ItemKept

\* A delivery that goes on, or ends, without touching store or queue.
LEMMA QuietStep ==
    ASSUME ServiceInv, NEW p \in Processes, NEW e,
           UNCHANGED <<storeVars, work, now, calls>>, Become(p, e),
           Sound(e),
           e.step # "idle" =>
             /\ workers[p].step # "idle"
             /\ e.run = workers[p].run /\ e.gen = workers[p].gen,
           e.step \in {"discarding", "clearing"} => Over(runs[e.run], e.gen),
           e.step # "executing"
    PROVE  Acts(p)
<1>1. workers' = [workers EXCEPT ![p] = e] /\ workers'[p] = e
  BY Facts DEF Become
<1>2. runs' = runs /\ work' = work /\ now' = now /\ calls' = calls
  BY DEF storeVars
<1>3. Proceeds(p)
  BY <1>1, <1>2 DEF Proceeds
<1>4. work' \in [RunIds -> Items \cup {NoItem}]
  BY <1>2, Facts
<1> QED
  BY <1>1, <1>2, <1>3, <1>4, Stillness DEF Acts

LEMMA PollActs ==
    ASSUME ServiceInv, NEW p \in Processes, NEW r \in RunIds, NEW t \in Readings,
           Poll(p, r, t), UNCHANGED calls
    PROVE  UNCHANGED storeVars /\ Acts(p)
<1> DEFINE e == [Idle EXCEPT !.step = "received", !.run = r, !.gen = work[r].gen]
<1>1. /\ workers' = [workers EXCEPT ![p] = e] /\ workers'[p] = e
      /\ runs' = runs /\ now' = now
      /\ UNCHANGED storeVars
  BY Facts DEF Poll, Become, storeVars
<1>2. /\ work[r] \in Items /\ work[r] # NoItem
      /\ t + Visibility \in Time
      /\ work' = [work EXCEPT ![r].due = t + Visibility]
  BY Facts, BoundsAssumption, VisibilityAssumption
     DEF Poll, Receive, Due, Readings, Time
<1>3. /\ [work[r] EXCEPT !.due = t + Visibility] \in Items
      /\ [work[r] EXCEPT !.due = t + Visibility].gen = work[r].gen
      /\ work[r].gen \in Generations
  BY <1>2 DEF Items
<1>4. /\ work' \in [RunIds -> Items \cup {NoItem}]
      /\ work'[r] \in Items /\ work'[r].gen = work[r].gen
      /\ \A q \in RunIds \ {r} : work'[q] = work[q]
  BY <1>2, <1>3, Facts
<1>5. /\ e \in Deliveries /\ e.step = "received" /\ e.run = r /\ e.gen = work[r].gen
  BY <1>3, IdleIsSound DEF Idle, Deliveries, Steps
<1>6. Sound(e)
  BY <1>3, <1>5 DEF Sound, Engaged
<1>7. Proceeds(p)
  <2> HIDE DEF e
  <2> QED
    BY <1>1, <1>2, <1>4, <1>5, Facts DEF Proceeds
<1>8. \A q \in RunIds : ItemKept(q)
  BY <1>2, <1>4, Facts DEF ItemKept
<1> QED
  BY <1>1, <1>4, <1>6, <1>7, <1>8, Stillness DEF Acts, Poll

LEMMA AdmitActs ==
    ASSUME ServiceInv, NEW p \in Processes, NEW granted \in BOOLEAN,
           Admit(p, granted), UNCHANGED calls
    PROVE  UNCHANGED storeVars /\ Acts(p)
<1> DEFINE d == workers[p]
           e == [d EXCEPT !.step = "claiming", !.allowed = granted]
<1>1. /\ e \in Deliveries /\ e.step = "claiming" /\ e.run = d.run /\ e.gen = d.gen
      /\ d.step = "received"
  BY Facts DEF Admit, At, Deliveries, Steps
<1>2. Sound(e)
  BY <1>1, Facts DEF Sound, Engaged
<1>3. Become(p, e) /\ UNCHANGED <<storeVars, work, now, calls>>
  BY DEF Admit
<1> HIDE DEF e
<1> QED
  BY <1>1, <1>2, <1>3, QuietStep

LEMMA ExecutorReturnsActs ==
    ASSUME ServiceInv, NEW p \in Processes, NEW outcome \in Outcomes,
           ExecutorReturns(p, outcome), UNCHANGED calls
    PROVE  UNCHANGED storeVars /\ Acts(p)
<1> DEFINE d == workers[p]
           e == [d EXCEPT !.step = "inspecting", !.outcome = outcome]
<1>1. /\ e \in Deliveries /\ e.step = "inspecting" /\ e.run = d.run /\ e.gen = d.gen
      /\ e.lease = d.lease /\ e.seen = d.seen /\ d.step = "executing"
  BY Facts DEF ExecutorReturns, At, Deliveries, Steps
<1>2. Sound(e)
  BY <1>1, Facts DEF Sound, Engaged
<1>3. Become(p, e) /\ UNCHANGED <<storeVars, work, now, calls>>
  BY DEF ExecutorReturns
<1> HIDE DEF e
<1> QED
  BY <1>1, <1>2, <1>3, QuietStep

LEMMA ExecutorRaisesActs ==
    ASSUME ServiceInv, NEW p \in Processes, ExecutorRaises(p), UNCHANGED calls
    PROVE  UNCHANGED storeVars /\ Acts(p)
<1> DEFINE d == workers[p]
           e == [d EXCEPT !.step = "writing", !.outcome = NoOutcome]
<1>1. /\ e \in Deliveries /\ e.step = "writing" /\ e.run = d.run /\ e.gen = d.gen
      /\ e.lease = d.lease /\ e.seen = d.seen /\ d.step = "executing"
  BY Facts, NoOutcomeIsOutcome DEF ExecutorRaises, At, Deliveries, Steps
<1>2. Sound(e)
  BY <1>1, Facts DEF Sound, Engaged
<1>3. Become(p, e) /\ UNCHANGED <<storeVars, work, now, calls>>
  BY DEF ExecutorRaises
<1> HIDE DEF e
<1> QED
  BY <1>1, <1>2, <1>3, QuietStep

\* A row with a lease, or with a cancellation and no end, is owned.
LEMMA OwnedRow ==
    ASSUME ServiceInv, NEW r \in RunIds, runs[r] # NoRun,
           runs[r].state \notin TerminalStates,
           runs[r].lease # NoLease \/ runs[r].cancelled # NoTime
    PROVE  /\ runs[r] \in RunRecords
           /\ runs[r].state \in OwnedStates /\ runs[r].lease \in Leases
<1>1. runs[r] \in RunRecords /\ ValidState(runs[r])
  BY Facts DEF ServiceInv, StoreInv, ValidLifecycle
<1>2. runs[r].state \in States /\ runs[r].lease \in Leases \cup {NoLease}
  BY <1>1 DEF RunRecords
<1> QED
  BY <1>1, <1>2 DEF ValidState, States

LEMMA PhaseFacts ==
    ASSUME NEW run
    PROVE  /\ PhaseOf(run) \in TerminalStates \cup {"absent"} =>
                run = NoRun \/ run.state \in TerminalStates
           /\ PhaseOf(run) \in {"pending", "cancelling"} =>
                run # NoRun /\ run.state \notin TerminalStates
           /\ PhaseOf(run) = "cancelling" => run.cancelled # NoTime
  BY DEF PhaseOf, TerminalStates

\* What is left for a process that goes on to the queue, or to nothing.
LEMMA EndingActs ==
    ASSUME ServiceInv, NEW p \in Processes, ~At(p, "idle"),
           NEW step \in {"discarding", "clearing"}, Ending(p, step),
           UNCHANGED <<storeVars, work, now, calls>>,
           Over(runs[workers[p].run], workers[p].gen)
    PROVE  Acts(p)
<1> DEFINE d == workers[p]
<1>1. d.run \in RunIds /\ d.gen \in Generations /\ d.step # "idle"
  BY Facts DEF Sound, At
<1>2. Become(p, Last(step, d.run, d.gen))
  BY DEF Ending, Last
<1>3. /\ Sound(Last(step, d.run, d.gen)) /\ Last(step, d.run, d.gen).step = step
      /\ Last(step, d.run, d.gen).run = d.run /\ Last(step, d.run, d.gen).gen = d.gen
  BY <1>1, EndingIsSound
<1> QED
  BY <1>1, <1>2, <1>3, QuietStep

LEMMA GivingUpActs ==
    ASSUME ServiceInv, NEW p \in Processes, Become(p, Idle),
           UNCHANGED <<storeVars, work, now, calls>>
    PROVE  Acts(p)
  BY IdleIsSound, QuietStep

LEMMA InspectActs ==
    ASSUME ServiceInv, NEW p \in Processes, Inspect(p), UNCHANGED calls
    PROVE  UNCHANGED storeVars /\ Acts(p)
<1> DEFINE d == workers[p]
           current == runs[d.run]
           phase == PhaseOf(current)
           e(step) == [d EXCEPT !.step = step, !.seen = current]
<1>1. /\ d \in Deliveries /\ Sound(d) /\ d.step = "inspecting"
      /\ d.run \in RunIds /\ d.lease \in LeaseIds
      /\ UNCHANGED <<storeVars, work, now, calls>>
  BY Facts DEF Inspect, At, Sound, Engaged
<1>2. CASE phase \in TerminalStates \cup {"absent"}
  <2>1. Over(current, d.gen)
    BY <1>2, PhaseFacts DEF Over
  <2>2. Ending(p, "clearing")
    BY <1>2 DEF Inspect, TerminalStates
  <2> QED
    BY <1>1, <2>1, <2>2, EndingActs DEF At
<1>3. ASSUME NEW step \in {"writing", "cancelling"}, Become(p, e(step)),
             phase \in {"pending", "cancelling"},
             step = "cancelling" => phase = "cancelling",
             step = "writing" => Owns(current, d.lease)
      PROVE  Acts(p)
  <2>1. /\ current \in RunRecords /\ current.state \in OwnedStates
        /\ current.lease \in Leases
    BY <1>1, <1>3, PhaseFacts, OwnedRow DEF Owns, Holds
  <2>2. /\ e(step) \in Deliveries /\ e(step).step = step /\ e(step).seen = current
        /\ e(step).run = d.run /\ e(step).gen = d.gen /\ e(step).lease = d.lease
    BY <1>1, <2>1 DEF Deliveries, Steps
  <2>3. Sound(e(step))
    BY <1>1, <1>3, <2>1, <2>2 DEF Sound, Engaged, Owns, Holds
  <2> HIDE DEF e
  <2> QED
    BY <1>1, <1>3, <2>2, <2>3, QuietStep
<1>4. CASE phase = "cancelling"
  BY <1>3, <1>4 DEF Inspect, TerminalStates
<1>5. CASE phase = "pending"
  <2>1. CASE Owns(current, d.lease)
    BY <1>3, <1>5, <2>1 DEF Inspect, TerminalStates
  <2>2. CASE ~Owns(current, d.lease)
    BY <1>1, <1>5, <2>2, GivingUpActs DEF Inspect, TerminalStates
  <2> QED
    BY <2>1, <2>2
<1> QED
  BY <1>1, <1>2, <1>4, <1>5 DEF Inspect

LEMMA CrashActs ==
    ASSUME ServiceInv, NEW p \in Processes, Crash(p), UNCHANGED calls
    PROVE  UNCHANGED storeVars /\ Acts(p)
  BY GivingUpActs DEF Crash

LEMMA TakeOffActs ==
    ASSUME ServiceInv, NEW p \in Processes, TakeOff(p), UNCHANGED calls
    PROVE  UNCHANGED storeVars /\ Acts(p)
<1> DEFINE d == workers[p]
<1>1. /\ workers' = [workers EXCEPT ![p] = Idle] /\ workers'[p] = Idle
      /\ UNCHANGED storeVars /\ runs' = runs /\ now' = now
      /\ Over(runs[d.run], d.gen) /\ d.run \in RunIds
  BY Facts DEF TakeOff, Become, storeVars, At, ServiceInv, RemovalsAreJustified, Sound
<1>2. /\ work' \in [RunIds -> Items \cup {NoItem}]
      /\ \A q \in RunIds : ItemKept(q)
  BY <1>1, Facts DEF TakeOff, Unqueue, ItemKept
<1>3. Proceeds(p)
  BY <1>1, IdleIsSound DEF Proceeds
<1> QED
  BY <1>1, <1>2, <1>3, IdleIsSound, Stillness DEF Acts

-----------------------------------------------------------------------------
\* What each operation of the store does to its row, as seen from here.

LEMMA ClaimFate ==
    ASSUME StoreInv, NEW r \in RunIds, NEW g \in Generations, NEW w \in WorkerIds,
           NEW l \in LeaseIds, NEW at \in Time, NEW secs \in LeaseSeconds,
           Claim(r, g, w, l, at, secs)
    PROVE  /\ StoreNext
           /\ runs[r] # NoRun /\ runs'[r] # NoRun /\ runs'[r].gen = runs[r].gen
           /\ runs' = [runs EXCEPT ![r] = runs'[r]]
           /\ \/ /\ ClaimDisposition(runs[r], g, w, l, at, secs) = "claimed"
                 /\ ~Over(runs[r], g) /\ ~Live(runs[r].lease, at)
                 /\ runs'[r] \in RunRecords /\ runs'[r].state = "running"
                 /\ runs'[r].lease \in Leases /\ runs'[r].lease.id = l
              \/ /\ ClaimDisposition(runs[r], g, w, l, at, secs) = "cancellation_requested"
                 /\ runs'[r].state = "cancelled"
<1> DEFINE run == runs[r]
           disposition == ClaimDisposition(run, g, w, l, at, secs)
<1>1. StoreNext
  BY DEF StoreNext, Operate
<1>2. Rewrites(r)
  BY ClaimShape DEF StoreInv
<1>3. /\ run # NoRun /\ runs'[r] # NoRun /\ runs'[r].gen = run.gen
      /\ runs' = [runs EXCEPT ![r] = runs'[r]]
      /\ ValidRow(runs'[r]) /\ runs \in [RunIds -> RunRecords \cup {NoRun}]
  BY <1>2, SentinelAssumption DEF Rewrites, RowStep, ValidRow, StoreInv, StoreTypeOK
<1>4. CASE disposition = "claimed"
  <2>1. /\ run.state \notin TerminalStates /\ run.cancelled = NoTime
        /\ g \in {NoGeneration, run.gen} /\ ~Live(run.lease, at)
    BY <1>4 DEF ClaimDisposition
  <2>2. ~Over(run, g)
    BY <1>3, <2>1, BoundsAssumption DEF Over, Generations, NoGeneration
  <2>3. runs' = [runs EXCEPT ![r] = Bumped(ClaimedRow(run, w, l, at, secs))]
    BY <1>4 DEF Claim, Save, Bumped
  <2>4. runs'[r] = Bumped(ClaimedRow(run, w, l, at, secs))
    BY <1>3, <2>3
  <2>5. /\ runs'[r].state = "running" /\ runs'[r].lease.id = l
    BY <1>3, <2>4 DEF Bumped, ClaimedRow, RunRecords
  <2>6. runs'[r].lease \in Leases
    BY <1>3, <2>5 DEF ValidRow, ValidState, RunRecords, OwnedStates
  <2> QED
    BY <1>1, <1>3, <1>4, <2>1, <2>2, <2>5, <2>6 DEF ValidRow
<1>5. CASE disposition = "cancellation_requested"
  <2>1. runs' = [runs EXCEPT ![r] = Bumped(Cancelled(run, at))]
    BY <1>5 DEF Claim, Save, Bumped
  <2>2. runs'[r] = Bumped(Cancelled(run, at))
    BY <1>3, <2>1
  <2>3. runs'[r].state = "cancelled"
    BY <1>3, <2>2 DEF Bumped, Cancelled, RunRecords
  <2> QED
    BY <1>1, <1>3, <1>5, <2>3
<1> QED
  BY <1>4, <1>5 DEF Claim

LEMMA RenewFate ==
    ASSUME StoreInv, NEW r \in RunIds, NEW w \in WorkerIds, NEW l \in LeaseIds,
           NEW at \in Time, NEW secs \in LeaseSeconds, RenewLease(r, w, l, at, secs)
    PROVE  /\ StoreNext
           /\ runs' = [runs EXCEPT ![r] = runs'[r]]
           /\ runs[r] # NoRun /\ runs'[r] \in RunRecords
           /\ runs'[r].gen = runs[r].gen
           /\ runs[r].state \in OwnedStates /\ runs'[r].state = runs[r].state
           /\ runs[r].cancelled = NoTime /\ runs'[r].cancelled = NoTime
           /\ runs[r].lease # NoLease /\ runs[r].lease.id = l
           /\ runs'[r].lease \in Leases /\ runs'[r].lease.id = l
<1> DEFINE run == runs[r]
<1>1. StoreNext
  BY DEF StoreNext, Operate
<1>2. Rewrites(r)
  BY RenewShape DEF StoreInv
<1>3. /\ run # NoRun /\ runs'[r].gen = run.gen
      /\ runs' = [runs EXCEPT ![r] = runs'[r]]
      /\ ValidRow(runs'[r]) /\ ValidRow(run)
      /\ runs \in [RunIds -> RunRecords \cup {NoRun}]
  BY <1>2 DEF Rewrites, RowStep, StoreInv, StoreTypeOK, ValidLifecycle, ValidRow
<1>4. /\ run.cancelled = NoTime /\ Holds(run.lease, w, l)
      /\ run.state \notin TerminalStates
  BY DEF RenewLease, RenewDisposition
<1>5. run.lease # NoLease /\ run.lease.id = l /\ run.lease \in Leases
  BY <1>3, <1>4 DEF Holds, ValidRow, RunRecords
<1>6. run.state \in OwnedStates
  BY <1>3, <1>5 DEF ValidRow, ValidState
<1>7. runs'[r] = Bumped(RenewedRow(run, at, secs))
  BY <1>3 DEF RenewLease, Save, Bumped
<1>8. /\ runs'[r].state = run.state /\ runs'[r].cancelled = run.cancelled
      /\ runs'[r].lease.id = run.lease.id
  BY <1>3, <1>5, <1>7 DEF Bumped, RenewedRow, RunRecords, Leases, ValidRow
<1>9. runs'[r].lease \in Leases
  BY <1>3, <1>6, <1>8 DEF ValidRow, ValidState, RunRecords
<1> QED
  BY <1>1, <1>3, <1>4, <1>5, <1>6, <1>8, <1>9 DEF ValidRow

LEMMA UpdateFate ==
    ASSUME StoreInv, NEW r \in RunIds, NEW version \in Versions, NEW state \in States,
           NEW next \in TerminalStates, NEW payload, NEW w \in WorkerIds,
           NEW l \in LeaseIds, NEW at \in Time,
           CompareAndSet(r, version, state, next, payload, w, l, at)
    PROVE  /\ StoreNext
           /\ runs' = [runs EXCEPT ![r] = runs'[r]]
           /\ runs[r] # NoRun /\ runs'[r] # NoRun /\ runs'[r].gen = runs[r].gen
           /\ runs'[r].state = next
           /\ runs[r].state \in OwnedStates => runs[r].lease # NoLease /\ runs[r].lease.id = l
<1> DEFINE run == runs[r]
<1>1. StoreNext
  BY DEF StoreNext, Operate, CompareAndSet, States
<1>2. Rewrites(r)
  BY UpdateShape DEF StoreInv
<1>3. /\ run # NoRun /\ runs'[r] # NoRun /\ runs'[r].gen = run.gen
      /\ runs' = [runs EXCEPT ![r] = runs'[r]]
      /\ runs \in [RunIds -> RunRecords \cup {NoRun}] /\ run \in RunRecords
  BY <1>2, SentinelAssumption DEF Rewrites, RowStep, ValidRow, StoreInv, StoreTypeOK
<1>4. runs'[r] = Bumped(UpdatedRow(run, next, payload, at))
  BY <1>3 DEF CompareAndSet, Save, Bumped
<1>5. runs'[r].state = next
  BY <1>3, <1>4 DEF Bumped, UpdatedRow, Cancelled, RunRecords
<1>6. run.state \in OwnedStates => Holds(run.lease, w, l)
  BY DEF CompareAndSet, WriteDisposition
<1> QED
  BY <1>1, <1>3, <1>5, <1>6 DEF Holds

LEMMA RequestFate ==
    ASSUME StoreInv, NEW r \in RunIds, NEW at \in Time, RequestCancellation(r, at)
    PROVE  /\ StoreNext
           /\ runs' = [runs EXCEPT ![r] = runs'[r]]
           /\ runs[r] # NoRun /\ runs'[r] # NoRun /\ runs'[r].gen = runs[r].gen
           /\ \/ runs'[r].state = "cancelled"
              \/ /\ runs'[r].state = runs[r].state /\ runs'[r].lease = runs[r].lease
                 /\ runs'[r].cancelled # NoTime
<1> DEFINE run == runs[r]
           changed == IF CancelsAtOnce(run, at) THEN Cancelled(run, at)
                      ELSE FlaggedRow(run, at)
<1>1. StoreNext
  BY DEF StoreNext, Operate
<1>2. Rewrites(r)
  BY CancellationShape DEF StoreInv
<1>3. /\ run # NoRun /\ runs'[r] # NoRun /\ runs'[r].gen = run.gen
      /\ runs' = [runs EXCEPT ![r] = runs'[r]]
      /\ runs \in [RunIds -> RunRecords \cup {NoRun}] /\ run \in RunRecords
  BY <1>2, SentinelAssumption DEF Rewrites, RowStep, ValidRow, StoreInv, StoreTypeOK
<1>4. runs'[r] = Bumped(changed)
  BY <1>3 DEF RequestCancellation, Save, Bumped
<1>5. CASE CancelsAtOnce(run, at)
  <2>1. runs'[r].state = "cancelled"
    BY <1>3, <1>4, <1>5 DEF Bumped, Cancelled, RunRecords
  <2> QED
    BY <1>1, <1>3, <2>1
<1>6. CASE ~CancelsAtOnce(run, at)
  <2>1. /\ runs'[r].state = run.state /\ runs'[r].lease = run.lease
        /\ runs'[r].cancelled = at
    BY <1>3, <1>4, <1>6 DEF Bumped, FlaggedRow, RunRecords
  <2> QED
    BY <1>1, <1>3, <2>1, TimeFacts
<1> QED
  BY <1>5, <1>6

\* A delivery that goes on, or ends, with a write of its run's row.
LEMMA WritingStep ==
    ASSUME ServiceInv, NEW p \in Processes, ~At(p, "idle"),
           runs' = [runs EXCEPT ![workers[p].run] = runs'[workers[p].run]],
           \/ RowKept(workers[p].run)
           \/ RenewedBy(p, workers[p].run)
           \/ ClaimedBy(p, workers[p].run),
           UNCHANGED <<work, now, calls>>,
           workers' = [workers EXCEPT ![p] = workers'[p]], Sound(workers'[p]),
           Proceeds(p)
    PROVE  Acts(p)
<1> DEFINE r == workers[p].run
<1>1. r \in RunIds
  BY Facts DEF Sound, At
<1>2. \A q \in RunIds : RowKept(q) \/ RenewedBy(p, q) \/ ClaimedBy(p, q)
  <2>1. \A q \in RunIds \ {r} : runs'[q] = runs[q]
    BY <1>1, Facts DEF ServiceInv, TypeOK, StoreTypeOK
  <2> QED
    BY <2>1 DEF RowKept
<1>3. work' \in [RunIds -> Items \cup {NoItem}] /\ now' = now /\ calls' = calls
  BY Facts
<1> QED
  BY <1>2, <1>3, Stillness DEF Acts

\* How the row may have been written when the process goes on to the queue.
LEMMA LastWrite ==
    ASSUME ServiceInv, NEW p \in Processes, ~At(p, "idle"),
           NEW step \in {"discarding", "clearing"}, Ending(p, step),
           UNCHANGED <<work, now, calls>>,
           runs' = [runs EXCEPT ![workers[p].run] = runs'[workers[p].run]],
           RowKept(workers[p].run), Over(runs'[workers[p].run], workers[p].gen)
    PROVE  Acts(p)
<1> DEFINE d == workers[p]
           e == Last(step, d.run, d.gen)
<1>1. /\ d.run \in RunIds /\ d.gen \in Generations /\ d.step # "idle"
      /\ Sound(e) /\ e.step = step /\ e.run = d.run /\ e.gen = d.gen
  BY Facts, EndingIsSound DEF Sound, At
<1>2. workers' = [workers EXCEPT ![p] = e]
  BY DEF Ending, Last, Become
<1> HIDE DEF e
<1>3. workers' = [workers EXCEPT ![p] = workers'[p]] /\ workers'[p] = e
  BY <1>2, Facts
<1>4. Proceeds(p)
  BY <1>1, <1>3 DEF Proceeds
<1> QED
  BY <1>1, <1>3, <1>4, WritingStep

\* What a process knows of its delivery.
LEMMA DeliveryFacts ==
    ASSUME ServiceInv, NEW p \in Processes, ~At(p, "idle")
    PROVE  LET d == workers[p]
           IN /\ d \in Deliveries /\ d.step # "idle"
              /\ d.run \in RunIds /\ d.gen \in Generations
              /\ d.step \in Engaged =>
                    /\ d.seen \in RunRecords /\ d.seen.state \in OwnedStates
                    /\ d.seen.lease \in Leases /\ d.lease \in LeaseIds
              /\ d.step \in Engaged \ {"cancelling"} => d.seen.lease.id = d.lease
  BY Facts DEF Sound, At

LEMMA ReadingFacts ==
    ASSUME ServiceInv, NEW t \in Readings
    PROVE  /\ t \in Time /\ t <= now
           /\ \A r \in RunIds : runs[r] # NoRun /\ ~Live(runs[r].lease, t)
                               => ~Live(runs[r].lease, now)
<1>1. t \in Time /\ t <= now
  BY DEF Readings
<1>2. ASSUME NEW r \in RunIds, runs[r] # NoRun, ~Live(runs[r].lease, t)
      PROVE  ~Live(runs[r].lease, now)
  <2>1. runs[r].lease \in Leases \cup {NoLease}
    BY <1>2, Facts DEF RunRecords
  <2> QED
    BY <1>1, <1>2, <2>1, Facts, BoundsAssumption DEF Live, Leases, Time
<1> QED
  BY <1>1, <1>2

LEMMA TermFacts ==
    WorkerId \in WorkerIds /\ LeaseTerm \in LeaseSeconds /\ BlockedTerm \in LeaseSeconds
  BY WorkerAssumption

LEMMA ClaimRunActs ==
    ASSUME ServiceInv, NEW p \in Processes, NEW l \in LeaseIds, NEW t \in Readings,
           ClaimRun(p, l, t), UNCHANGED calls
    PROVE  [StoreNext]_storeVars /\ Acts(p)
<1> DEFINE d == workers[p]
           r == d.run
           secs == IF d.allowed THEN LeaseTerm ELSE BlockedTerm
           disposition == ClaimDisposition(runs[r], d.gen, WorkerId, l, t, secs)
           e == [d EXCEPT !.step = "executing", !.lease = l, !.seen = runs'[r]]
<1>1. /\ d \in Deliveries /\ r \in RunIds /\ d.gen \in Generations
      /\ t \in Time /\ t <= now /\ secs \in LeaseSeconds /\ WorkerId \in WorkerIds
      /\ At(p, "claiming") /\ ~At(p, "idle") /\ StoreInv
      /\ work' = work /\ now' = now
  BY DeliveryFacts, ReadingFacts, TermFacts DEF ClaimRun, At, ServiceInv
<1>2. ASSUME disposition = "claimed", Claim(r, d.gen, WorkerId, l, t, secs)
      PROVE  /\ StoreNext /\ runs' = [runs EXCEPT ![r] = runs'[r]]
             /\ runs'[r] # NoRun /\ runs'[r].gen = d.gen /\ ~Over(runs[r], d.gen)
             /\ runs'[r] \in RunRecords /\ runs'[r].state = "running"
             /\ runs'[r].lease \in Leases /\ runs'[r].lease.id = l
             /\ ClaimedBy(p, r)
  <2>1. /\ StoreNext /\ runs' = [runs EXCEPT ![r] = runs'[r]]
        /\ runs[r] # NoRun /\ runs'[r] # NoRun /\ runs'[r].gen = runs[r].gen
        /\ ~Over(runs[r], d.gen) /\ ~Live(runs[r].lease, t)
        /\ runs'[r] \in RunRecords /\ runs'[r].state = "running"
        /\ runs'[r].lease \in Leases /\ runs'[r].lease.id = l
    BY <1>1, <1>2, ClaimFate
  <2>2. ~Live(runs[r].lease, now)
    BY <1>1, <2>1, ReadingFacts
  <2>3. \A q \in Processes : l # workers[q].lease
    BY DEF ClaimRun, FreshLease
  <2> QED
    BY <1>1, <2>1, <2>2, <2>3 DEF ClaimedBy, Over
<1>3. CASE disposition = "claimed"
  <2>1. Claim(r, d.gen, WorkerId, l, t, secs)
    BY <1>3 DEF ClaimRun, Settled, Postponed
  <2>2. CASE d.allowed
    <3>1. Become(p, e)
      BY <1>3, <2>2 DEF ClaimRun, Settled, Postponed
    <3>2. /\ e \in Deliveries /\ e.step = "executing" /\ e.run = r /\ e.gen = d.gen
          /\ e.lease = l /\ e.seen = runs'[r]
      BY <1>1, <1>2, <1>3, <2>1 DEF Deliveries, Steps
    <3> HIDE DEF e
    <3>3. Sound(e)
      BY <1>1, <1>2, <1>3, <2>1, <3>2 DEF Sound, Engaged, OwnedStates
    <3>4. workers' = [workers EXCEPT ![p] = workers'[p]] /\ workers'[p] = e
      BY <3>1, Facts DEF Become
    <3> HIDE DEF secs, disposition
    <3>5. Proceeds(p)
      BY <1>1, <1>2, <1>3, <2>1, <3>2, <3>4 DEF Proceeds, At
    <3>6. Acts(p)
      BY <1>1, <1>2, <1>3, <2>1, <3>3, <3>4, <3>5, WritingStep
    <3> QED
      BY <1>2, <1>3, <2>1, <3>6
  <2>3. CASE ~d.allowed
    <3>1. workers' = [workers EXCEPT ![p] = workers'[p]] /\ workers'[p] = Idle
      BY <1>3, <2>3, Facts DEF ClaimRun, Settled, Postponed, Become
    <3> HIDE DEF secs, disposition
    <3>2. Proceeds(p) /\ Sound(workers'[p])
      BY <3>1, IdleIsSound DEF Proceeds
    <3>3. Acts(p)
      BY <1>1, <1>2, <1>3, <2>1, <3>1, <3>2, WritingStep
    <3> QED
      BY <1>2, <1>3, <2>1, <3>3
  <2> QED
    BY <2>2, <2>3
<1>4. CASE disposition = "cancellation_requested"
  <2>1. /\ Ending(p, "discarding")
        /\ \/ UNCHANGED storeVars
           \/ Claim(r, d.gen, WorkerId, l, t, secs)
    BY <1>4 DEF ClaimRun, Settled, Postponed
  <2>2. runs[r] # NoRun /\ runs[r].cancelled # NoTime
    BY <1>4 DEF ClaimDisposition
  <2>3. Over(runs[r], d.gen)
    BY <2>2 DEF Over
  <2>4. CASE UNCHANGED storeVars
    BY <1>1, <2>1, <2>3, <2>4, EndingActs
  <2>5. CASE Claim(r, d.gen, WorkerId, l, t, secs)
    <3>1. /\ StoreNext /\ runs' = [runs EXCEPT ![r] = runs'[r]]
          /\ runs'[r].gen = runs[r].gen /\ runs'[r].state = "cancelled"
          /\ runs'[r] # NoRun
      BY <1>1, <1>4, <2>5, ClaimFate
    <3>2. RowKept(r) /\ Over(runs'[r], d.gen)
      BY <2>2, <3>1 DEF RowKept, Over, TerminalStates
    <3> HIDE DEF secs, disposition
    <3> QED
      BY <1>1, <2>1, <3>1, <3>2, LastWrite
  <2> QED
    BY <2>1, <2>4, <2>5
<1>5. CASE disposition \in Settled
  <2>1. Ending(p, "discarding") /\ UNCHANGED storeVars
    BY <1>5 DEF ClaimRun, Settled, Postponed
  <2>2. \/ runs[r] = NoRun \/ d.gen \notin {NoGeneration, runs[r].gen}
        \/ runs[r].state \in TerminalStates
    BY <1>5 DEF ClaimDisposition, Settled
  <2>3. Over(runs[r], d.gen)
    BY <2>2 DEF Over
  <2> QED
    BY <1>1, <2>1, <2>3, EndingActs
<1>6. CASE disposition \in Postponed
  <2>1. Become(p, Idle) /\ UNCHANGED storeVars
    BY <1>6 DEF ClaimRun, Settled, Postponed
  <2> QED
    BY <1>1, <2>1, GivingUpActs
<1> QED
  BY <1>3, <1>4, <1>5, <1>6 DEF ClaimRun

\* A row with a lease has not ended.
LEMMA LeasedRow ==
    ASSUME ServiceInv, NEW r \in RunIds, runs[r] # NoRun, runs[r].lease # NoLease
    PROVE  runs[r].state \in OwnedStates /\ runs[r].state \notin TerminalStates
  BY DEF ServiceInv, StoreInv, ValidLifecycle, ValidState, OwnedStates, TerminalStates

\* A process goes on to write the cancellation of the row it has just read.
LEMMA CancellingActs ==
    ASSUME ServiceInv, NEW p \in Processes, ~At(p, "idle"),
           workers[p].step \in Engaged,
           runs[workers[p].run] # NoRun,
           runs[workers[p].run].state \notin TerminalStates,
           runs[workers[p].run].cancelled # NoTime,
           Become(p, [workers[p] EXCEPT !.step = "cancelling",
                                        !.seen = runs[workers[p].run]]),
           UNCHANGED <<storeVars, work, now, calls>>
    PROVE  Acts(p)
<1> DEFINE d == workers[p]
           e == [d EXCEPT !.step = "cancelling", !.seen = runs[d.run]]
<1>1. /\ d \in Deliveries /\ d.run \in RunIds /\ d.gen \in Generations
      /\ d.lease \in LeaseIds /\ d.step # "idle"
  BY DeliveryFacts
<1>2. /\ runs[d.run] \in RunRecords /\ runs[d.run].state \in OwnedStates
      /\ runs[d.run].lease \in Leases
  BY <1>1, OwnedRow
<1>3. /\ e \in Deliveries /\ e.step = "cancelling" /\ e.run = d.run /\ e.gen = d.gen
      /\ e.lease = d.lease /\ e.seen = runs[d.run]
  BY <1>1, <1>2 DEF Deliveries, Steps
<1> HIDE DEF e
<1>4. Sound(e)
  BY <1>1, <1>2, <1>3 DEF Sound, Engaged
<1>5. Become(p, e)
  BY DEF e
<1> QED
  BY <1>1, <1>3, <1>4, <1>5, QuietStep

LEMMA HeartbeatActs ==
    ASSUME ServiceInv, NEW p \in Processes, NEW t \in Readings,
           NEW permitted \in BOOLEAN, Heartbeat(p, t, permitted), UNCHANGED calls
    PROVE  [StoreNext]_storeVars /\ Acts(p)
<1> DEFINE d == workers[p]
           r == d.run
           disposition == RenewDisposition(runs[r], WorkerId, d.lease, t, LeaseTerm)
           e == [d EXCEPT !.seen = runs'[r]]
<1>1. /\ d \in Deliveries /\ r \in RunIds /\ d.gen \in Generations
      /\ d.lease \in LeaseIds /\ t \in Time /\ StoreInv
      /\ At(p, "executing") /\ ~At(p, "idle") /\ d.step \in Engaged
      /\ work' = work /\ now' = now
  BY DeliveryFacts, ReadingFacts DEF Heartbeat, At, ServiceInv, Engaged
<1>2. CASE disposition = "renewed"
  <2>1. RenewLease(r, WorkerId, d.lease, t, LeaseTerm)
    BY <1>2 DEF Heartbeat
  <2>2. /\ StoreNext /\ runs' = [runs EXCEPT ![r] = runs'[r]]
        /\ runs[r] # NoRun /\ runs'[r] \in RunRecords
        /\ runs'[r].gen = runs[r].gen
        /\ runs[r].state \in OwnedStates /\ runs'[r].state = runs[r].state
        /\ runs[r].cancelled = NoTime /\ runs'[r].cancelled = NoTime
        /\ runs[r].lease # NoLease /\ runs[r].lease.id = d.lease
        /\ runs'[r].lease \in Leases /\ runs'[r].lease.id = d.lease
    BY <1>1, <2>1, TermFacts, RenewFate
  <2>3. RenewedBy(p, r)
    BY <1>1, <2>2, SentinelAssumption DEF RenewedBy, OwnedStates, TerminalStates
  <2>4. runs[r].gen = d.gen /\ ~Over(runs[r], d.gen)
    BY <1>1, <2>2
       DEF ServiceInv, ExecutionsAreSound, LeaseOfItsRun, Over, OwnedStates, TerminalStates
  <2>5. CASE permitted
    <3>1. Become(p, e)
      BY <1>2, <2>5 DEF Heartbeat
    <3>2. /\ e \in Deliveries /\ e.step = "executing" /\ e.run = r /\ e.gen = d.gen
          /\ e.lease = d.lease /\ e.seen = runs'[r]
      BY <1>1, <2>2 DEF Deliveries, Steps, At
    <3> HIDE DEF e
    <3>3. Sound(e)
      BY <1>1, <2>2, <3>2 DEF Sound, Engaged
    <3>4. workers' = [workers EXCEPT ![p] = workers'[p]] /\ workers'[p] = e
      BY <3>1, Facts DEF Become
    <3>5. Proceeds(p)
      BY <1>1, <2>2, <2>3, <2>4, <3>2, <3>4 DEF Proceeds, At
    <3>6. Acts(p)
      BY <1>1, <2>2, <2>3, <3>3, <3>4, <3>5, WritingStep
    <3> QED
      BY <2>2, <3>6
  <2>6. CASE ~permitted
    <3>1. workers' = [workers EXCEPT ![p] = workers'[p]] /\ workers'[p] = Idle
      BY <1>2, <2>6, Facts DEF Heartbeat, Become
    <3>2. Proceeds(p) /\ Sound(workers'[p])
      BY <3>1, IdleIsSound DEF Proceeds
    <3>3. Acts(p)
      BY <1>1, <2>2, <2>3, <3>1, <3>2, WritingStep
    <3> QED
      BY <2>2, <3>3
  <2> QED
    BY <2>5, <2>6
<1>3. CASE disposition = "cancellation_requested"
  <2>1. /\ Become(p, [d EXCEPT !.step = "cancelling", !.seen = runs[r]])
        /\ UNCHANGED storeVars
    BY <1>3 DEF Heartbeat
  <2>2. /\ runs[r] # NoRun /\ runs[r].state \notin TerminalStates
        /\ runs[r].cancelled # NoTime
    BY <1>3 DEF RenewDisposition
  <2> QED
    BY <1>1, <2>1, <2>2, CancellingActs
<1>4. CASE disposition = "terminal"
  <2>1. Ending(p, "clearing") /\ UNCHANGED storeVars
    BY <1>4 DEF Heartbeat
  <2>2. Over(runs[r], d.gen)
    BY <1>4 DEF RenewDisposition, Over
  <2> QED
    BY <1>1, <2>1, <2>2, EndingActs
<1>5. CASE disposition \in {"lost", "not_found", "lease_unavailable"}
  <2>1. Become(p, Idle) /\ UNCHANGED storeVars
    BY <1>5 DEF Heartbeat
  <2> QED
    BY <1>1, <2>1, GivingUpActs
<1> QED
  BY <1>2, <1>3, <1>4, <1>5 DEF Heartbeat

\* An update that comes too late: either way of giving up.
LEMMA TooLateActs ==
    ASSUME ServiceInv, NEW p \in Processes, ~At(p, "idle"),
           TooLate(p, runs[workers[p].run]),
           UNCHANGED <<storeVars, work, now, calls>>
    PROVE  Acts(p)
<1>1. CASE /\ Ending(p, "clearing") /\ runs[workers[p].run].state \in TerminalStates
  BY <1>1, EndingActs DEF Over
<1>2. CASE Become(p, Idle)
  BY <1>2, GivingUpActs
<1> QED
  BY <1>1, <1>2 DEF TooLate

\* An update that was applied.
LEMMA UpdateActs ==
    ASSUME ServiceInv, NEW p \in Processes, workers[p].step \in Engaged,
           NEW next \in TerminalStates, NEW payload, NEW t \in Readings,
           Update(p, next, payload, t), Ending(p, "clearing"),
           UNCHANGED <<work, now, calls>>
    PROVE  StoreNext /\ Acts(p)
<1> DEFINE d == workers[p]
           at == LaterOf(t, d.seen.updated)
<1>1. /\ d.run \in RunIds /\ ~At(p, "idle") /\ WorkerId \in WorkerIds
      /\ d.seen.version \in Versions /\ d.seen.state \in States
      /\ d.seen.lease.id \in LeaseIds /\ at \in Time /\ StoreInv
  BY DeliveryFacts, ReadingFacts, TermFacts
     DEF Engaged, At, RunRecords, Leases, LaterOf, ServiceInv
<1>2. CompareAndSet(d.run, d.seen.version, d.seen.state, next, payload, WorkerId,
                    d.seen.lease.id, at)
  BY DEF Update
<1> HIDE DEF at
<1>3. /\ StoreNext /\ runs' = [runs EXCEPT ![d.run] = runs'[d.run]]
      /\ runs[d.run] # NoRun /\ runs'[d.run] # NoRun
      /\ runs'[d.run].gen = runs[d.run].gen /\ runs'[d.run].state = next
  <2> DEFINE r == d.run
             version == d.seen.version
             state == d.seen.state
             l == d.seen.lease.id
  <2>1. /\ r \in RunIds /\ version \in Versions /\ state \in States
        /\ l \in LeaseIds /\ at \in Time /\ WorkerId \in WorkerIds /\ StoreInv
        /\ CompareAndSet(r, version, state, next, payload, WorkerId, l, at)
    BY <1>1, <1>2
  <2> SUFFICES /\ StoreNext /\ runs' = [runs EXCEPT ![r] = runs'[r]]
               /\ runs[r] # NoRun /\ runs'[r] # NoRun /\ runs'[r].gen = runs[r].gen
               /\ runs'[r].state = next
    OBVIOUS
  <2> HIDE DEF r, version, state, l
  <2> QED
    BY <2>1, UpdateFate
<1>4. RowKept(d.run) /\ Over(runs'[d.run], d.gen)
  BY <1>3 DEF RowKept, Over
<1> QED
  BY <1>1, <1>3, <1>4, LastWrite

LEMMA WriteResultActs ==
    ASSUME ServiceInv, NEW p \in Processes, NEW t \in Readings,
           WriteResult(p, t), UNCHANGED calls
    PROVE  [StoreNext]_storeVars /\ Acts(p)
<1> DEFINE d == workers[p]
           run == runs[d.run]
           answer == Answer(p, d.outcome.state, t)
           overtaken == /\ run # NoRun
                        /\ run.cancelled # NoTime
                        /\ Owns(run, d.seen.lease.id)
<1>1. /\ d \in Deliveries /\ d.run \in RunIds /\ d.step \in Engaged
      /\ ~At(p, "idle") /\ UNCHANGED <<work, now, calls>>
      /\ d.outcome.state \in TerminalStates
  BY DeliveryFacts DEF WriteResult, At, Engaged, Deliveries, Outcomes, TerminalStates
<1>2. CASE answer = "applied"
  <2>1. Update(p, d.outcome.state, d.outcome.payload, t) /\ Ending(p, "clearing")
    BY <1>2 DEF WriteResult
  <2> QED
    BY <1>1, <2>1, UpdateActs
<1>3. CASE answer # "applied" /\ overtaken
  <2>1. /\ Become(p, [d EXCEPT !.step = "cancelling", !.seen = run])
        /\ UNCHANGED storeVars
    BY <1>3 DEF WriteResult
  <2>2. run # NoRun /\ run.cancelled # NoTime /\ run.state \notin TerminalStates
    BY <1>1, <1>3, LeasedRow DEF Owns, Holds
  <2> QED
    BY <1>1, <2>1, <2>2, CancellingActs
<1>4. CASE answer # "applied" /\ ~overtaken
  <2>1. TooLate(p, run) /\ UNCHANGED storeVars
    BY <1>4 DEF WriteResult
  <2> QED
    BY <1>1, <2>1, TooLateActs
<1> QED
  BY <1>2, <1>3, <1>4

LEMMA WriteCancellationActs ==
    ASSUME ServiceInv, NEW p \in Processes, NEW t \in Readings,
           WriteCancellation(p, t), UNCHANGED calls
    PROVE  [StoreNext]_storeVars /\ Acts(p)
<1> DEFINE d == workers[p]
           run == runs[d.run]
           answer == Answer(p, "cancelled", t)
<1>1. /\ d.run \in RunIds /\ d.step \in Engaged
      /\ ~At(p, "idle") /\ UNCHANGED <<work, now, calls>>
      /\ "cancelled" \in TerminalStates
  BY DeliveryFacts DEF WriteCancellation, At, Engaged, TerminalStates
<1>2. CASE answer = "applied"
  <2>1. Update(p, "cancelled", NoPayload, t) /\ Ending(p, "clearing")
    BY <1>2 DEF WriteCancellation
  <2> QED
    BY <1>1, <2>1, UpdateActs
<1>3. CASE answer # "applied"
  <2>1. TooLate(p, run) /\ UNCHANGED storeVars
    BY <1>3 DEF WriteCancellation
  <2> QED
    BY <1>1, <2>1, TooLateActs
<1> QED
  BY <1>2, <1>3

LEMMA ProcessActs ==
    ASSUME ServiceInv, NEW p \in Processes, Work(p) \/ Crash(p), UNCHANGED calls
    PROVE  [StoreNext]_storeVars /\ Acts(p)
  BY PollActs, ClaimRunActs, HeartbeatActs, WriteResultActs, WriteCancellationActs,
     AdmitActs, ExecutorReturnsActs, ExecutorRaisesActs, InspectActs, TakeOffActs,
     CrashActs DEF Work

-----------------------------------------------------------------------------
\* One lemma for each request: a step of the store with the shape of Asks.

\* Nothing but calls changes, or calls lose a member.
LEMMA QuietCalls ==
    ASSUME ServiceInv, UNCHANGED <<storeVars, work, now, workers>>,
           \A c \in calls' \ calls :
              c \in Calls /\ c.gen <= generation
              /\ (c.kind = "cancel" => Over(runs[c.run], c.gen))
    PROVE  [StoreNext]_storeVars /\ Asks
<1>1. /\ runs' = runs /\ generation' = generation /\ now' = now /\ workers' = workers
      /\ work' = work
  BY DEF storeVars
<1>2. now' \in Time /\ now' >= now /\ work' \in [RunIds -> Items \cup {NoItem}]
  BY <1>1, Facts DEF Time
<1> QED
  BY <1>1, <1>2, Stillness DEF Asks

LEMMA CallFacts ==
    ASSUME NEW kind \in {"enqueue", "cancel"}, NEW r \in RunIds, runs'[r].gen \in Generations
    PROVE  /\ Call(kind, r) \in Calls /\ Call(kind, r).kind = kind
           /\ Call(kind, r).run = r /\ Call(kind, r).gen = runs'[r].gen
  BY DEF Call, Calls

LEMMA OldGeneration ==
    ASSUME ServiceInv, NEW r \in RunIds, runs[r] # NoRun
    PROVE  /\ runs[r].gen \in Generations /\ runs[r].gen <= generation
           /\ runs[r].created \in Time
  BY Facts DEF ServiceInv, GenerationsAreOld, RunRecords

LEMMA SubmitAsks ==
    ASSUME ServiceInv, NEW r \in RunIds, NEW k \in Keys, NEW s \in Sessions,
           NEW t \in Readings, Submit(r, k, s, t)
    PROVE  [StoreNext]_storeVars /\ Asks
<1>1. t \in Time /\ StoreTypeOK
  BY ReadingFacts DEF ServiceInv, TypeOK
<1>2. Create(r, k, s, t) /\ StoreNext
  BY <1>1 DEF Submit, StoreNext, Operate
<1>3. /\ ValidRow(runs'[r]) /\ runs' = [runs EXCEPT ![r] = runs'[r]]
      /\ runs'[r].state = "queued"
      /\ runs'[r] # NoRun
  BY <1>1, <1>2, CreatedRow, SentinelAssumption DEF ValidRow
<1>4. /\ runs[r] = NoRun /\ generation < MaxGeneration /\ generation' = generation + 1
      /\ generation \in Nat
  BY <1>1, <1>2, BoundsAssumption DEF Create, StoreTypeOK
<1>5. runs'[r].gen = generation'
  BY <1>1, <1>2, <1>4 DEF Create, StoreTypeOK
<1>6. \A q \in RunIds : RowKept(q)
  <2>1. RowKept(r)
    BY <1>3, <1>4, <1>5 DEF RowKept
  <2>2. \A q \in RunIds \ {r} : runs'[q] = runs[q]
    BY <1>1, <1>3 DEF StoreTypeOK
  <2> QED
    BY <2>1, <2>2 DEF RowKept
<1>7. runs'[r].gen \in Generations /\ runs'[r].gen <= generation'
  BY <1>3, <1>4, <1>5 DEF ValidRow, RunRecords
<1>8. \A c \in calls' \ calls :
        c \in Calls /\ c.gen <= generation' /\ c.kind # "cancel"
  BY <1>7, CallFacts DEF Submit
<1>9. now' \in Time /\ now' >= now /\ work' \in [RunIds -> Items \cup {NoItem}]
  BY Facts DEF Submit, Time
<1> QED
  BY <1>2, <1>6, <1>8, <1>9, Stillness DEF Asks, Submit

LEMMA SubmitAgainAsks ==
    ASSUME ServiceInv, NEW k \in Keys, SubmitAgain(k)
    PROVE  [StoreNext]_storeVars /\ Asks
<1> DEFINE r == idempotency[k]
<1>1. r \in RunIds /\ runs[r] # NoRun
  BY DEF SubmitAgain, ServiceInv, StoreInv, StoreTypeOK, IdempotencyConsistent
<1>2. runs'[r].gen \in Generations /\ runs'[r].gen <= generation /\ runs'[r] = runs[r]
  BY <1>1, OldGeneration DEF SubmitAgain, storeVars
<1>3. \A c \in calls' \ calls : c = Call("enqueue", r)
  BY DEF SubmitAgain
<1>4. UNCHANGED <<storeVars, work, now, workers>>
  BY DEF SubmitAgain
<1> HIDE DEF r
<1>5. \A c \in calls' \ calls :
        c \in Calls /\ c.gen <= generation /\ c.kind # "cancel"
  BY <1>1, <1>2, <1>3, CallFacts
<1> QED
  BY <1>4, <1>5, QuietCalls

LEMMA CancelAsks ==
    ASSUME ServiceInv, NEW r \in RunIds, NEW t \in Readings, Cancel(r, t)
    PROVE  [StoreNext]_storeVars /\ Asks
<1>1. t \in Time /\ StoreInv
  BY ReadingFacts DEF ServiceInv
<1>2. /\ StoreNext /\ runs' = [runs EXCEPT ![r] = runs'[r]]
      /\ runs[r] # NoRun /\ runs'[r] # NoRun /\ runs'[r].gen = runs[r].gen
      /\ \/ runs'[r].state = "cancelled"
         \/ /\ runs'[r].state = runs[r].state /\ runs'[r].lease = runs[r].lease
            /\ runs'[r].cancelled # NoTime
  BY <1>1, RequestFate DEF Cancel
<1>3. generation' = generation
  BY DEF Cancel, RequestCancellation
<1>4. \A q \in RunIds : RowKept(q)
  <2>1. RowKept(r)
    BY <1>2 DEF RowKept, TerminalStates
  <2>2. \A q \in RunIds \ {r} : runs'[q] = runs[q]
    BY <1>2, Facts DEF ServiceInv, TypeOK, StoreTypeOK
  <2> QED
    BY <2>1, <2>2 DEF RowKept
<1>5. \A c \in calls' \ calls :
        /\ c \in Calls /\ c.gen <= generation'
        /\ c.kind = "cancel" => Over(runs'[c.run], c.gen)
  <2> SUFFICES ASSUME NEW c \in calls' \ calls
               PROVE  c \in Calls /\ c.gen <= generation' /\ Over(runs'[c.run], c.gen)
    OBVIOUS
  <2>1. c = Call("cancel", r) /\ runs'[r].state = "cancelled"
    BY DEF Cancel
  <2>2. c \in Calls /\ c.run = r /\ c.gen = runs[r].gen
    BY <1>2, <2>1, CallFacts, OldGeneration
  <2> QED
    BY <1>2, <1>3, <2>1, <2>2, OldGeneration DEF Over, TerminalStates
<1>6. now' \in Time /\ now' >= now /\ work' \in [RunIds -> Items \cup {NoItem}]
  BY Facts DEF Cancel, Time
<1> QED
  BY <1>2, <1>4, <1>5, <1>6, Stillness DEF Asks, Cancel

LEMMA CancelAgainAsks ==
    ASSUME ServiceInv, NEW r \in RunIds, CancelAgain(r)
    PROVE  [StoreNext]_storeVars /\ Asks
<1>1. runs'[r] = runs[r] /\ runs[r] # NoRun /\ runs[r].state = "cancelled"
  BY DEF CancelAgain, storeVars
<1>2. \A c \in calls' \ calls :
        c \in Calls /\ c.gen <= generation /\ Over(runs[c.run], c.gen)
  BY <1>1, CallFacts, OldGeneration DEF CancelAgain, Over, TerminalStates
<1> QED
  BY <1>2, QuietCalls DEF CancelAgain

LEMMA AbandonAsks ==
    ASSUME ServiceInv, NEW c \in calls, Abandon(c)
    PROVE  [StoreNext]_storeVars /\ Asks
  BY QuietCalls DEF Abandon

LEMMA FinishAsks ==
    ASSUME ServiceInv, NEW c \in calls, Finish(c)
    PROVE  [StoreNext]_storeVars /\ Asks
<1>1. c.run \in RunIds /\ c.gen \in Generations
  BY Facts DEF Calls
<1>2. /\ runs' = runs /\ now' = now /\ workers' = workers /\ UNCHANGED storeVars
      /\ calls' \ calls = {}
  BY DEF Finish, storeVars
<1>3. CASE UNCHANGED work
  BY <1>2, <1>3, QuietCalls
<1>4. CASE Enqueue(c.run, c.gen) /\ work[c.run] = NoItem
  <2> DEFINE item == [gen |-> c.gen, due |-> runs[c.run].created]
  <2>1. item \in Items /\ item.gen = c.gen /\ item # NoItem /\ Present(c.run, c.gen)
    BY <1>1, <1>4, OldGeneration, Facts DEF Enqueue, Present, Items
  <2>2. work' = [work EXCEPT ![c.run] = item]
    BY <1>4 DEF Enqueue
  <2> HIDE DEF item
  <2>3. /\ work' \in [RunIds -> Items \cup {NoItem}] /\ work'[c.run] = item
        /\ \A r \in RunIds \ {c.run} : work'[r] = work[r]
    BY <1>1, <2>1, <2>2, Facts
  <2>4. \A r \in RunIds : ItemKept(r)
    BY <1>2, <1>4, <2>1, <2>3 DEF ItemKept
  <2> QED
    BY <1>2, <2>3, <2>4, Stillness, Facts DEF Asks, Time
<1>5. CASE Enqueue(c.run, c.gen) /\ work[c.run] # NoItem
  BY <1>3, <1>5 DEF Enqueue
<1>6. CASE Unqueue(c.run, c.gen) /\ c.kind = "cancel"
  <2>1. Over(runs[c.run], c.gen)
    BY <1>6 DEF ServiceInv, RemovalsAreJustified
  <2>2. /\ work' \in [RunIds -> Items \cup {NoItem}]
        /\ \A r \in RunIds : ItemKept(r)
    BY <1>1, <1>2, <1>6, <2>1, Facts DEF Unqueue, ItemKept
  <2> QED
    BY <1>2, <2>2, Stillness, Facts DEF Asks, Time
<1> QED
  BY <1>3, <1>4, <1>5, <1>6 DEF Finish

LEMMA EndSessionAsks ==
    ASSUME ServiceInv, NEW s \in Sessions, EndSession(s)
    PROVE  [StoreNext]_storeVars /\ Asks
<1>1. StoreNext
  BY DEF EndSession, StoreNext
<1>2. /\ runs' = [r \in RunIds |-> IF r \in RunsOf(s) THEN NoRun ELSE runs[r]]
      /\ work' = [r \in RunIds |-> IF r \in RunsOf(s) THEN NoItem ELSE work[r]]
      /\ UNCHANGED <<now, workers, calls>>
  BY DEF EndSession, DeleteSession, Remove, Orphaned
<1>3. \A r \in RunIds : ItemKept(r) /\ RowKept(r)
  BY <1>2 DEF ItemKept, RowKept
<1>4. /\ now' \in Time /\ now' >= now /\ calls' \ calls = {}
      /\ work' \in [RunIds -> Items \cup {NoItem}]
  BY <1>2, Facts DEF Time
<1> QED
  BY <1>1, <1>2, <1>3, <1>4 DEF Asks

LEMMA TickAsks ==
    ASSUME ServiceInv, Tick
    PROVE  [StoreNext]_storeVars /\ Asks
<1>1. now' \in Time /\ now' >= now /\ runs' = runs /\ calls' \ calls = {}
  BY Facts, BoundsAssumption DEF Tick, Time, storeVars
<1> QED
  BY <1>1, Stillness, Facts DEF Tick, Asks

\* Every step has one of the two shapes.
LEMMA ServiceShape ==
    ASSUME ServiceInv, Next
    PROVE  [StoreNext]_storeVars /\ (Asks \/ \E p \in Processes : Acts(p))
<1>1. CASE Requests
  BY <1>1, SubmitAsks, SubmitAgainAsks, CancelAsks, CancelAgainAsks, FinishAsks,
     AbandonAsks, EndSessionAsks DEF Requests
<1>2. CASE \E p \in Processes : (Work(p) \/ Crash(p)) /\ UNCHANGED calls
  BY <1>2, ProcessActs
<1> QED
  BY <1>1, <1>2, TickAsks DEF Next

-----------------------------------------------------------------------------
\* The invariant, part by part, from the two shapes.

StepShaped == [StoreNext]_storeVars /\ (Asks \/ \E p \in Processes : Acts(p))

\* Both shapes, seen from one row.
LEMMA RowShapes ==
    ASSUME StepShaped, NEW r \in RunIds
    PROVE  /\ ItemKept(r)
           /\ \/ RowKept(r)
              \/ \E p \in Processes : Acts(p) /\ (RenewedBy(p, r) \/ ClaimedBy(p, r))
  BY DEF StepShaped, Asks, Acts

\* Both shapes, seen from one process.
LEMMA WorkerShapes ==
    ASSUME ServiceInv, StepShaped, NEW q \in Processes
    PROVE  /\ now' \in Time /\ now' >= now
           /\ \/ workers'[q] = workers[q]
              \/ Acts(q) /\ Sound(workers'[q]) /\ Proceeds(q)
<1>1. CASE Asks
  BY <1>1 DEF Asks
<1>2. ASSUME NEW p \in Processes, Acts(p)
      PROVE  /\ now' \in Time /\ now' >= now
             /\ workers'[q] = workers[q]
                \/ (Acts(q) /\ Sound(workers'[q]) /\ Proceeds(q))
  BY <1>2, Facts DEF Acts, Time
<1> QED
  BY <1>1, <1>2 DEF StepShaped

LEMMA StoreStays ==
    ASSUME ServiceInv, StepShaped
    PROVE  StoreInv' /\ generation' \in Nat /\ generation' >= generation
<1>1. StoreInv /\ [StoreNext]_storeVars /\ generation \in Nat
  BY DEF ServiceInv, StepShaped, StoreInv, StoreTypeOK
<1>2. StoreInv'
  BY <1>1, StepInv
<1>3. generation' \in Nat
  BY <1>2, BoundsAssumption DEF StoreInv, StoreTypeOK
<1>4. CASE StoreNext
  <2>1. \/ \E r \in RunIds : Creates(r) \/ Rewrites(r)
        \/ \E gone \in SUBSET RunIds : Removes(gone)
    BY <1>1, <1>4, StepShape DEF StoreInv
  <2>2. generation' = generation + 1 \/ generation' = generation
    BY <2>1 DEF Creates, Create, Rewrites, Removes
  <2> QED
    BY <1>1, <1>2, <1>3, <2>2
<1> QED
  BY <1>1, <1>2, <1>3, <1>4 DEF storeVars

\* A run that is over for a generation stays so.
LEMMA OverStays ==
    ASSUME ServiceInv, StepShaped, NEW r \in RunIds, NEW g \in Int, g <= generation,
           Over(runs[r], g)
    PROVE  Over(runs'[r], g)
<1>1. generation \in Int /\ generation' \in Int
  BY StoreStays DEF ServiceInv, StoreInv, StoreTypeOK
<1>2. CASE RowKept(r)
  BY <1>1, <1>2 DEF RowKept, Over
<1>3. ASSUME NEW p \in Processes, RenewedBy(p, r) \/ ClaimedBy(p, r)
      PROVE  Over(runs'[r], g)
  BY <1>3 DEF RenewedBy, ClaimedBy, Over
<1> QED
  BY <1>2, <1>3, RowShapes

LEMMA TypesStay ==
    ASSUME ServiceInv, StepShaped
    PROVE  TypeOK' /\ WorkersSound'
<1>1. StoreTypeOK'
  BY StoreStays DEF StoreInv
<1>2. CASE Asks
  BY <1>1, <1>2, Facts DEF Asks, TypeOK, WorkersTypeOK, WorkersSound
<1>3. ASSUME NEW p \in Processes, Acts(p)
      PROVE  TypeOK' /\ WorkersSound'
  <2>1. /\ workers' = [workers EXCEPT ![p] = workers'[p]]
        /\ Sound(workers'[p]) /\ workers'[p] \in Deliveries
        /\ now' = now /\ calls' = calls /\ work' \in [RunIds -> Items \cup {NoItem}]
    BY <1>3 DEF Acts, Sound
  <2>2. workers' \in [Processes -> Deliveries]
    BY <2>1, Facts
  <2>3. \A q \in Processes : Sound(workers'[q])
    BY <2>1, Facts
  <2> QED
    BY <1>1, <2>1, <2>2, <2>3, Facts DEF TypeOK, WorkersTypeOK, WorkersSound
<1> QED
  BY <1>2, <1>3 DEF StepShaped

\* What a started delivery or a call refers to.
LEMMA Remembered ==
    ASSUME ServiceInv
    PROVE  /\ \A q \in Processes : ~At(q, "idle") =>
                /\ workers[q].run \in RunIds /\ workers[q].gen \in Int
                /\ workers[q].gen <= generation
           /\ \A c \in calls : c.run \in RunIds /\ c.gen \in Int /\ c.gen <= generation
           /\ \A r \in RunIds : work[r] # NoItem =>
                /\ runs[r] # NoRun /\ work[r].gen = runs[r].gen
                /\ work[r].gen \in Generations /\ work[r].gen <= generation
<1>1. \A q \in Processes : ~At(q, "idle") =>
        /\ workers[q].run \in RunIds /\ workers[q].gen \in Int
        /\ workers[q].gen <= generation
  BY Facts DEF Sound, At, Generations, ServiceInv, GenerationsAreOld
<1>2. \A c \in calls : c.run \in RunIds /\ c.gen \in Int /\ c.gen <= generation
  BY Facts DEF Calls, Generations, ServiceInv, GenerationsAreOld
<1>3. ASSUME NEW r \in RunIds, work[r] # NoItem
      PROVE  /\ runs[r] # NoRun /\ work[r].gen = runs[r].gen
             /\ work[r].gen \in Generations /\ work[r].gen <= generation
  BY <1>3, OldGeneration DEF ServiceInv, QueueHasItsRuns
<1> QED
  BY <1>1, <1>2, <1>3

LEMMA GenerationsStay ==
    ASSUME ServiceInv, StepShaped
    PROVE  GenerationsAreOld'
<1>1. generation \in Int /\ generation' \in Int /\ generation' >= generation
  BY StoreStays DEF ServiceInv, StoreInv, StoreTypeOK
<1>2. ASSUME NEW q \in Processes, workers'[q].step # "idle"
      PROVE  workers'[q].gen <= generation'
  <2>1. CASE workers'[q] = workers[q]
    BY <1>1, <1>2, <2>1, Remembered DEF At
  <2>2. CASE Sound(workers'[q]) /\ Proceeds(q)
    <3>1. /\ workers'[q].run \in RunIds /\ workers'[q].gen \in Int
          /\ \/ /\ work[workers'[q].run] # NoItem
                /\ workers'[q].gen = work[workers'[q].run].gen
             \/ workers[q].step # "idle" /\ workers'[q].gen = workers[q].gen
      BY <1>2, <2>2 DEF Sound, Proceeds, Generations
    <3>2. workers'[q].gen <= generation
      BY <3>1, Remembered DEF At
    <3> QED
      BY <1>1, <3>1, <3>2
  <2> QED
    BY <2>1, <2>2, WorkerShapes
<1>3. ASSUME NEW c \in calls'
      PROVE  c.gen <= generation'
  <2>1. CASE c \in calls
    BY <1>1, <2>1, Remembered
  <2>2. CASE c \notin calls
    BY <1>3, <2>2 DEF StepShaped, Asks, Acts
  <2> QED
    BY <2>1, <2>2
<1>4. ASSUME NEW r \in RunIds, runs'[r] # NoRun
      PROVE  runs'[r].gen <= generation'
  <2>1. CASE runs[r] # NoRun /\ runs'[r].gen = runs[r].gen
    BY <1>1, <2>1, OldGeneration DEF Generations
  <2>2. CASE runs'[r].gen = generation'
    BY <1>1, <2>2
  <2>3. CASE RowKept(r)
    BY <1>4, <2>1, <2>2, <2>3 DEF RowKept
  <2>4. ASSUME NEW p \in Processes, RenewedBy(p, r) \/ ClaimedBy(p, r)
        PROVE  runs[r] # NoRun /\ runs'[r].gen = runs[r].gen
    BY <2>4 DEF RenewedBy, ClaimedBy, Over
  <2> QED
    BY <2>1, <2>3, <2>4, RowShapes
<1> QED
  BY <1>2, <1>3, <1>4 DEF GenerationsAreOld, At

LEMMA QueueStays ==
    ASSUME ServiceInv, StepShaped
    PROVE  QueueHasItsRuns'
<1> SUFFICES ASSUME NEW r \in RunIds, work'[r] # NoItem
             PROVE  runs'[r] # NoRun /\ work'[r].gen = runs'[r].gen
  BY DEF QueueHasItsRuns
<1>1. CASE runs'[r] = runs[r] /\ Present(r, work'[r].gen)
  BY <1>1 DEF Present
<1>2. CASE work[r] # NoItem /\ work'[r].gen = work[r].gen
  <2>1. runs[r] # NoRun /\ work[r].gen = runs[r].gen
    BY <1>2, Remembered
  <2> QED
    BY <1>2, <2>1, RowShapes DEF RowKept, RenewedBy, ClaimedBy
<1> QED
  BY <1>1, <1>2, RowShapes DEF ItemKept

LEMMA RemovalsStay ==
    ASSUME ServiceInv, StepShaped
    PROVE  RemovalsAreJustified'
<1>1. ASSUME NEW q \in Processes, workers'[q].step \in {"discarding", "clearing"}
      PROVE  Over(runs'[workers'[q].run], workers'[q].gen)
  <2>1. CASE workers'[q] = workers[q]
    BY <1>1, <2>1, Remembered, OverStays DEF ServiceInv, RemovalsAreJustified, At
  <2> QED
    BY <1>1, <2>1, WorkerShapes DEF Proceeds
<1>2. ASSUME NEW c \in calls', c.kind = "cancel"
      PROVE  Over(runs'[c.run], c.gen)
  <2>1. CASE c \in calls
    BY <1>2, <2>1, Remembered, OverStays DEF ServiceInv, RemovalsAreJustified
  <2>2. CASE c \notin calls
    BY <1>2, <2>2 DEF StepShaped, Asks, Acts
  <2> QED
    BY <2>1, <2>2
<1> QED
  BY <1>1, <1>2 DEF RemovalsAreJustified

\* The item of a run that is not over is not taken off.
LEMMA ItemStays ==
    ASSUME ServiceInv, StepShaped, NEW r \in RunIds, work[r] # NoItem,
           runs'[r] # NoRun, ~Over(runs[r], runs[r].gen)
    PROVE  work'[r] # NoItem
  BY RowShapes, Remembered DEF ItemKept

LEMMA DeliveriesStay ==
    ASSUME ServiceInv, StepShaped
    PROVE  DeliveriesAreQueued'
<1> SUFFICES ASSUME NEW q \in Processes, workers'[q].step # "idle",
                    ~Over(runs'[workers'[q].run], workers'[q].gen)
             PROVE  work'[workers'[q].run] # NoItem
  BY DEF DeliveriesAreQueued
<1>1. ASSUME workers[q].step # "idle", workers'[q].run = workers[q].run,
             workers'[q].gen = workers[q].gen
      PROVE  work'[workers'[q].run] # NoItem
  <2> DEFINE r == workers[q].run
             g == workers[q].gen
  <2>1. r \in RunIds /\ g \in Int /\ g <= generation
    BY <1>1, Remembered DEF At
  <2>2. ~Over(runs[r], g)
    BY <1>1, <2>1, OverStays
  <2>3. work[r] # NoItem
    BY <1>1, <2>2 DEF ServiceInv, DeliveriesAreQueued
  <2>4. runs'[r] # NoRun /\ ~Over(runs[r], runs[r].gen)
    BY <1>1, <2>2 DEF Over
  <2> QED
    BY <1>1, <2>1, <2>3, <2>4, ItemStays
<1> QED
  BY <1>1, WorkerShapes DEF Proceeds

LEMMA RecoveryStays ==
    ASSUME ServiceInv, StepShaped
    PROVE  ExecutionsAreRecoverable'
<1> SUFFICES ASSUME NEW r \in RunIds, runs'[r] # NoRun,
                    runs'[r].state \in OwnedStates, runs'[r].cancelled = NoTime
             PROVE  work'[r] # NoItem
  BY DEF ExecutionsAreRecoverable
<1>1. runs'[r].state \notin TerminalStates /\ runs'[r].state # "queued"
  BY DEF OwnedStates, TerminalStates
<1>2. ASSUME runs[r] # NoRun, runs[r].state \in OwnedStates, runs[r].cancelled = NoTime
      PROVE  work'[r] # NoItem
  <2>1. work[r] # NoItem
    BY <1>2 DEF ServiceInv, ExecutionsAreRecoverable
  <2>2. ~Over(runs[r], runs[r].gen)
    BY <1>2 DEF Over, OwnedStates, TerminalStates
  <2> QED
    BY <2>1, <2>2, ItemStays
<1>3. ASSUME NEW p \in Processes, ClaimedBy(p, r)
      PROVE  work'[r] # NoItem
  <2>1. work[r] # NoItem
    BY <1>3 DEF ClaimedBy, At, ServiceInv, DeliveriesAreQueued
  <2>2. ~Over(runs[r], runs[r].gen)
    BY <1>3 DEF ClaimedBy, Over
  <2> QED
    BY <2>1, <2>2, ItemStays
<1>4. CASE RowKept(r)
  BY <1>1, <1>2, <1>4 DEF RowKept
<1>5. ASSUME NEW p \in Processes, RenewedBy(p, r)
      PROVE  work'[r] # NoItem
  BY <1>2, <1>5 DEF RenewedBy
<1> QED
  BY <1>3, <1>4, <1>5, RowShapes

-----------------------------------------------------------------------------
\* The executions.

\* The row of an executing process q that has not acted.
LEMMA TenureStays ==
    ASSUME ServiceInv, StepShaped, NEW q \in Processes, At(q, "executing"),
           workers'[q] = workers[q], ~Acts(q)
    PROVE  Tenure(q)' /\ LeaseOfItsRun(q)'
<1> DEFINE d == workers[q]
           r == d.run
<1>1. /\ r \in RunIds /\ d.gen \in Int /\ d.gen <= generation
      /\ d.seen.lease \in Leases /\ d \in Deliveries
  BY Remembered, DeliveryFacts DEF At, Engaged
<1>2. /\ generation \in Int /\ generation' \in Int
      /\ now \in Time /\ now' \in Time /\ now' >= now
      /\ runs[r] \in RunRecords \cup {NoRun}
  BY <1>1, Facts, StoreStays, WorkerShapes DEF ServiceInv, StoreInv, StoreTypeOK
<1>3. Tenure(q) /\ LeaseOfItsRun(q)
  BY DEF ServiceInv, ExecutionsAreSound
<1>4. /\ runs'[r] # NoRun /\ runs'[r].lease # NoLease
           => runs'[r].state \in OwnedStates /\ runs'[r].state \notin TerminalStates
      /\ "queued" \notin OwnedStates
  BY <1>1, StoreStays
     DEF StoreInv, ValidLifecycle, ValidState, OwnedStates, TerminalStates
<1>5. CASE RowKept(r)
  <2>1. LeaseOfItsRun(q)'
    BY <1>3, <1>4, <1>5 DEF RowKept, LeaseOfItsRun
  <2>2. CASE d.seen.lease.expires <= now
    <3>1. d.seen.lease.expires <= now'
      BY <1>1, <1>2, <2>2, BoundsAssumption DEF Leases, Time
    <3> QED
      BY <2>1, <3>1 DEF Tenure
  <2>3. CASE ~(d.seen.lease.expires <= now)
    BY <1>1, <1>2, <1>3, <1>5, <2>1, <2>3 DEF RowKept, Tenure
  <2> QED
    BY <2>2, <2>3
<1>6. ASSUME NEW p \in Processes, Acts(p), RenewedBy(p, r)
      PROVE  Tenure(q)' /\ LeaseOfItsRun(q)'
  <2>1. p # q /\ workers[p].lease # workers[q].lease
    BY <1>6 DEF RenewedBy, ServiceInv, ExecutionsAreSound, LeasesDiffer
  <2>2. LeaseOfItsRun(q)'
    BY <1>6, <2>1 DEF RenewedBy, LeaseOfItsRun
  <2>3. \/ runs[r].gen # d.gen
        \/ d.seen.lease.expires <= now
    BY <1>3, <1>6, <2>1 DEF RenewedBy, Tenure
  <2>4. runs'[r].gen # d.gen \/ d.seen.lease.expires <= now'
    BY <1>1, <1>2, <1>6, <2>3, BoundsAssumption DEF RenewedBy, Leases, Time
  <2> QED
    BY <2>2, <2>4 DEF Tenure
<1>7. ASSUME NEW p \in Processes, ClaimedBy(p, r)
      PROVE  Tenure(q)' /\ LeaseOfItsRun(q)'
  <2>1. LeaseOfItsRun(q)'
    BY <1>7 DEF ClaimedBy, LeaseOfItsRun
  <2>2. \/ runs[r].gen # d.gen
        \/ d.seen.lease.expires <= now
    <3>1. runs[r] # NoRun /\ runs[r].state \notin TerminalStates
      BY <1>7 DEF ClaimedBy, Over
    <3>2. runs[r].lease # NoLease => ~(runs[r].lease.expires > now)
      BY <1>7 DEF ClaimedBy, Live
    <3> QED
      BY <1>1, <1>2, <1>3, <3>1, <3>2, BoundsAssumption DEF Tenure, Leases, Time
  <2>3. runs'[r].gen # d.gen \/ d.seen.lease.expires <= now'
    BY <1>1, <1>2, <1>7, <2>2, BoundsAssumption DEF ClaimedBy, Leases, Time
  <2> QED
    BY <2>1, <2>3 DEF Tenure
<1> QED
  BY <1>1, <1>5, <1>6, <1>7, RowShapes

\* The row of a process that has just claimed or renewed.
LEMMA TenureBegins ==
    ASSUME ServiceInv, StepShaped, NEW p \in Processes, Acts(p),
           workers'[p].step = "executing"
    PROVE  /\ Tenure(p)' /\ LeaseOfItsRun(p)'
           /\ \/ \A q \in Processes : workers'[p].lease # workers[q].lease
              \/ At(p, "executing") /\ workers'[p].lease = workers[p].lease
<1> DEFINE e == workers'[p]
<1>1. /\ Sound(e) /\ Proceeds(p)
  BY DEF Acts
<1>2. /\ e.seen = runs'[e.run] /\ e.seen.gen = e.gen
      /\ \/ ClaimedBy(p, e.run)
         \/ RenewedBy(p, e.run) /\ e.lease = workers[p].lease
  BY <1>1 DEF Proceeds
<1>3. e.seen.lease \in Leases /\ e.seen.lease.id = e.lease
  BY <1>1 DEF Sound, Engaged
<1>4. runs'[e.run].lease # NoLease /\ runs'[e.run].lease.id = e.lease
  BY <1>2, <1>3, SentinelAssumption
<1> QED
  BY <1>2, <1>4 DEF Tenure, LeaseOfItsRun, ClaimedBy, RenewedBy

\* One of two processes that would execute the same run has lost its lease.
LEMMA SoleExecution ==
    ASSUME ServiceInv, StepShaped, NEW p \in Processes, NEW q \in Processes, p # q,
           Acts(p), workers'[p].step = "executing", At(q, "executing"),
           workers[q].run = workers'[p].run, workers[q].gen = workers'[p].gen
    PROVE  ~Live(workers[q].seen.lease, now)
<1> DEFINE r == workers[q].run
           d == workers[q]
<1>1. /\ ~Over(runs[r], d.gen)
      /\ ClaimedBy(p, r) \/ RenewedBy(p, r)
  BY DEF Acts, Proceeds
<1>2. Tenure(q) /\ d.seen.lease \in Leases /\ now \in Time
  BY DeliveryFacts, Facts DEF ServiceInv, ExecutionsAreSound, At, Engaged
<1>3. \/ /\ runs[r].lease # NoLease /\ runs[r].lease.id = d.lease
         /\ runs[r].lease.expires = d.seen.lease.expires
      \/ d.seen.lease.expires <= now
  BY <1>1, <1>2 DEF Over, Tenure
<1>4. CASE d.seen.lease.expires <= now
  BY <1>2, <1>4, BoundsAssumption DEF Live, Leases, Time
<1>5. CASE /\ runs[r].lease # NoLease /\ runs[r].lease.id = d.lease
           /\ runs[r].lease.expires = d.seen.lease.expires
  <2>1. CASE ClaimedBy(p, r)
    BY <1>5, <2>1 DEF ClaimedBy, Live
  <2>2. CASE RenewedBy(p, r)
    BY <1>5, <2>2 DEF RenewedBy, ServiceInv, ExecutionsAreSound, LeasesDiffer
  <2> QED
    BY <1>1, <2>1, <2>2
<1> QED
  BY <1>3, <1>4, <1>5

LEMMA ExecutionsStay ==
    ASSUME ServiceInv, StepShaped
    PROVE  ExecutionsAreSound'
<1>1. ASSUME NEW q \in Processes, workers'[q].step = "executing"
      PROVE  Tenure(q)' /\ LeaseOfItsRun(q)'
  <2>1. CASE Acts(q)
    BY <1>1, <2>1, TenureBegins
  <2>2. CASE ~Acts(q)
    BY <1>1, <2>2, WorkerShapes, TenureStays DEF At
  <2> QED
    BY <2>1, <2>2
<1>2. CASE Asks
  <2>1. workers' = workers /\ now \in Time /\ now' \in Time /\ now' >= now
    BY <1>2, Facts DEF Asks
  <2>2. LeasesDiffer'
    BY <2>1 DEF LeasesDiffer, At, ServiceInv, ExecutionsAreSound
  <2>3. \A q \in Processes : At(q, "executing") /\ Live(workers[q].seen.lease, now')
           => Live(workers[q].seen.lease, now)
    <3> SUFFICES ASSUME NEW q \in Processes, At(q, "executing"),
                        Live(workers[q].seen.lease, now')
                 PROVE  Live(workers[q].seen.lease, now)
      OBVIOUS
    <3>1. workers[q].seen.lease \in Leases
      BY DeliveryFacts DEF At, Engaged
    <3> QED
      BY <2>1, <3>1, BoundsAssumption DEF Live, Leases, Time
  <2>4. OneExecution'
    BY <2>1, <2>3 DEF OneExecution, At, ServiceInv, ExecutionsAreSound
  <2> QED
    BY <1>1, <2>2, <2>4 DEF ExecutionsAreSound, At
<1>3. ASSUME NEW p \in Processes, Acts(p)
      PROVE  ExecutionsAreSound'
  <2>1. now' = now /\ \A q \in Processes \ {p} : workers'[q] = workers[q]
    BY <1>3, Facts DEF Acts
  <2>2. ASSUME NEW q \in Processes, q # p, workers'[p].step = "executing",
               workers'[q].step = "executing"
        PROVE  workers'[p].lease # workers'[q].lease
    BY <1>3, <2>1, <2>2, TenureBegins DEF ServiceInv, ExecutionsAreSound, LeasesDiffer, At
  <2>3. LeasesDiffer'
    BY <2>1, <2>2 DEF ServiceInv, ExecutionsAreSound, LeasesDiffer, At
  <2>4. ASSUME NEW q \in Processes, q # p, workers'[p].step = "executing",
               workers'[q].step = "executing",
               workers'[p].run = workers'[q].run, workers'[p].gen = workers'[q].gen
        PROVE  ~Live(workers'[q].seen.lease, now')
    BY <1>3, <2>1, <2>4, SoleExecution DEF At
  <2>5. OneExecution'
    BY <2>1, <2>4 DEF ServiceInv, ExecutionsAreSound, OneExecution, At
  <2> QED
    BY <1>1, <2>3, <2>5 DEF ExecutionsAreSound, At
<1> QED
  BY <1>2, <1>3 DEF StepShaped

-----------------------------------------------------------------------------
\* The invariant is inductive.

LEMMA ServiceInit == Init => ServiceInv
<1> SUFFICES ASSUME Init PROVE ServiceInv
  OBVIOUS
<1>1. StoreInv
  BY InitInv DEF Init
<1>2. /\ runs = [r \in RunIds |-> NoRun] /\ work = [r \in RunIds |-> NoItem]
      /\ now \in Time /\ calls = {} /\ workers = [p \in Processes |-> Idle]
  BY BoundsAssumption DEF Init, StoreInit, Time
<1>3. TypeOK /\ WorkersSound
  BY <1>1, <1>2, IdleIsSound DEF StoreInv, TypeOK, WorkersTypeOK, WorkersSound
<1>4. /\ GenerationsAreOld /\ QueueHasItsRuns /\ RemovalsAreJustified
      /\ DeliveriesAreQueued /\ ExecutionsAreRecoverable
  BY <1>2, IdleIsSound
     DEF GenerationsAreOld, QueueHasItsRuns, RemovalsAreJustified, DeliveriesAreQueued,
         ExecutionsAreRecoverable, At
<1>5. ExecutionsAreSound
  BY <1>2, IdleIsSound DEF ExecutionsAreSound, LeasesDiffer, OneExecution, At
<1> QED
  BY <1>1, <1>3, <1>4, <1>5 DEF ServiceInv

LEMMA NextShape == ServiceInv /\ [Next]_vars => StepShaped
<1> SUFFICES ASSUME ServiceInv, [Next]_vars PROVE StepShaped
  OBVIOUS
<1>1. CASE UNCHANGED vars
  BY <1>1, QuietCalls DEF vars, StepShaped
<1> QED
  BY <1>1, ServiceShape DEF StepShaped

LEMMA ServiceStep == ServiceInv /\ [Next]_vars => ServiceInv'
<1> SUFFICES ASSUME ServiceInv, StepShaped PROVE ServiceInv'
  BY NextShape
<1>1. StoreInv'
  BY StoreStays
<1> QED
  BY <1>1, TypesStay, GenerationsStay, QueueStays, RemovalsStay, DeliveriesStay,
     RecoveryStays, ExecutionsStay DEF ServiceInv

\* The invariant of the deployment is inductive: requests, workers, crashes and
\* the clock preserve it.
THEOREM ServiceInvariance == Spec => []ServiceInv
  BY ServiceInit, ServiceStep, PTL DEF Spec

\* Every variable keeps its type.
THEOREM ServiceTypes == Spec => []TypeOK
  BY ServiceInvariance, PTL DEF ServiceInv

\* An item in the queue has its run (enqueue's check and the cascade), however
\* submissions, retries and deletions of sessions interleave.
THEOREM QueueIsBacked == Spec => []QueueHasItsRuns
  BY ServiceInvariance, PTL DEF ServiceInv

\* A run in execution that nobody wants to cancel has its item in the queue
\* (process discards and cancels items only of runs that are over), whichever
\* processes crash.
THEOREM NoExecutionIsStranded == Spec => []ExecutionsAreRecoverable
  BY ServiceInvariance, PTL DEF ServiceInv

\* At most one process executes a run under a live lease (claim, renew_lease),
\* although all of them bear the same worker id.
THEOREM ExecutionIsExclusive == Spec => []OneExecution
  BY ServiceInvariance, PTL DEF ServiceInv, ExecutionsAreSound

\* An item leaves the queue only when its run is over (discard, cancel).
THEOREM WorkStays == Spec => WorkIsKept
<1>1. ServiceInv /\ [Next]_vars =>
        [\A r \in RunIds :
           work[r] # NoItem /\ work'[r] = NoItem =>
             \/ runs'[r] = NoRun
             \/ runs'[r].state \in TerminalStates
             \/ runs'[r].cancelled # NoTime]_vars
  <2> SUFFICES ASSUME ServiceInv, StepShaped, NEW r \in RunIds,
                      work[r] # NoItem, work'[r] = NoItem
               PROVE  \/ runs'[r] = NoRun
                      \/ runs'[r].state \in TerminalStates
                      \/ runs'[r].cancelled # NoTime
    BY NextShape
  <2> QED
    BY RowShapes, Remembered DEF ItemKept, Over
<1> QED
  BY <1>1, ServiceInvariance, PTL DEF Spec, WorkIsKept

\* The action that stores a result is a WriteResult, by the holder.
LEMMA ResultWriter ==
    ASSUME ServiceInv, NEW p \in Processes, Work(p) \/ Crash(p),
           workers[p].run \in RunIds, runs[workers[p].run] # NoRun,
           runs[workers[p].run].state \in OwnedStates,
           runs'[workers[p].run].state \in {"completed", "failed"}
    PROVE  runs[workers[p].run].lease.id = workers[p].lease
<1> DEFINE d == workers[p]
           r == d.run
<1>1. StoreInv /\ runs' # runs /\ ~UNCHANGED storeVars
  BY DEF ServiceInv, storeVars, OwnedStates
<1>2. ASSUME NEW t \in Readings, NEW l \in LeaseIds, ClaimRun(p, l, t)
      PROVE  FALSE
  <2>1. PICK secs \in LeaseSeconds : Claim(r, d.gen, WorkerId, l, t, secs)
    BY <1>1, <1>2, TermFacts DEF ClaimRun
  <2>2. d.gen \in Generations /\ t \in Time
    BY <1>2, DeliveryFacts, ReadingFacts DEF ClaimRun, At
  <2> QED
    BY <1>1, <2>1, <2>2, TermFacts, ClaimFate
<1>3. ASSUME NEW t \in Readings, NEW permitted \in BOOLEAN, Heartbeat(p, t, permitted)
      PROVE  FALSE
  <2>1. RenewLease(r, WorkerId, d.lease, t, LeaseTerm)
    BY <1>1, <1>3 DEF Heartbeat
  <2>2. d.lease \in LeaseIds /\ t \in Time
    BY <1>3, DeliveryFacts, ReadingFacts DEF Heartbeat, At, Engaged
  <2> QED
    BY <1>1, <2>1, <2>2, TermFacts, RenewFate DEF OwnedStates
<1>4. ASSUME NEW t \in Readings, NEW next \in TerminalStates, NEW payload,
             Update(p, next, payload, t), d.step \in Engaged
      PROVE  /\ runs'[r].state = next
             /\ runs[r].lease.id = d.seen.lease.id
  <2> DEFINE version == d.seen.version
             state == d.seen.state
             l == d.seen.lease.id
             at == LaterOf(t, d.seen.updated)
  <2>1. /\ version \in Versions /\ state \in States /\ l \in LeaseIds /\ at \in Time
        /\ WorkerId \in WorkerIds
    BY <1>4, DeliveryFacts, ReadingFacts, TermFacts
       DEF Engaged, At, RunRecords, Leases, LaterOf
  <2>2. /\ CompareAndSet(r, version, state, next, payload, WorkerId, l, at)
        /\ r \in RunIds /\ runs[r].state \in OwnedStates
    BY <1>4 DEF Update
  <2> HIDE DEF version, state, at
  <2> SUFFICES runs'[r].state = next /\ runs[r].lease.id = l
    OBVIOUS
  <2> HIDE DEF l, r
  <2>3. /\ runs'[r].state = next
        /\ runs[r].state \in OwnedStates => runs[r].lease.id = l
    BY <1>1, <2>1, <2>2, UpdateFate
  <2> QED
    BY <2>2, <2>3
<1>5. ASSUME NEW t \in Readings, WriteResult(p, t)
      PROVE  runs[r].lease.id = d.lease
  <2>1. d.step \in Engaged \ {"cancelling"} /\ d.outcome.state \in TerminalStates
    BY <1>5, DeliveryFacts
       DEF WriteResult, At, Engaged, Deliveries, Outcomes, TerminalStates
  <2>2. Update(p, d.outcome.state, d.outcome.payload, t)
    BY <1>1, <1>5 DEF WriteResult
  <2>3. d.seen.lease.id = d.lease
    BY <2>1, DeliveryFacts DEF At, Engaged
  <2> QED
    BY <1>4, <2>1, <2>2, <2>3
<1>6. ASSUME NEW t \in Readings, WriteCancellation(p, t)
      PROVE  FALSE
  <2>1. Update(p, "cancelled", NoPayload, t) /\ d.step \in Engaged
    BY <1>1, <1>6 DEF WriteCancellation, At, Engaged
  <2> QED
    BY <1>4, <2>1 DEF TerminalStates
<1>7. /\ \A t \in Readings, q \in RunIds : ~Poll(p, q, t)
      /\ \A granted \in BOOLEAN : ~Admit(p, granted)
      /\ \A outcome \in Outcomes : ~ExecutorReturns(p, outcome)
      /\ ~ExecutorRaises(p) /\ ~Inspect(p) /\ ~TakeOff(p) /\ ~Crash(p)
  BY <1>1 DEF Poll, Admit, ExecutorReturns, ExecutorRaises, Inspect, TakeOff, Crash,
              storeVars
<1> QED
  BY <1>2, <1>3, <1>5, <1>6, <1>7 DEF Work

\* A stored result comes from the process that claimed the run (_finish_result,
\* _finish_terminal, compare_and_set).
THEOREM ResultsComeFromTheHolder == Spec => ResultsAreTheHolders
<1>1. ServiceInv /\ [Next]_vars =>
        [\A p \in Processes, r \in RunIds :
           (/\ workers'[p] # workers[p] /\ workers[p].run = r
            /\ Continues(r) /\ runs[r].state \in OwnedStates
            /\ runs'[r].state \in {"completed", "failed"})
           => runs[r].lease.id = workers[p].lease]_vars
  <2> SUFFICES ASSUME ServiceInv, Next, NEW p \in Processes, NEW r \in RunIds,
                      workers'[p] # workers[p], workers[p].run = r,
                      runs[r] # NoRun, runs[r].state \in OwnedStates,
                      runs'[r].state \in {"completed", "failed"}
               PROVE  runs[r].lease.id = workers[p].lease
    BY DEF Continues
  <2>1. PICK q \in Processes : (Work(q) \/ Crash(q)) /\ UNCHANGED calls
    BY DEF Next, Requests, Submit, SubmitAgain, Cancel, CancelAgain, Finish, Abandon,
           EndSession, Tick
  <2>2. Acts(q)
    BY <2>1, ProcessActs
  <2>3. q = p
    BY <2>2, Facts DEF Acts
  <2> QED
    BY <2>1, <2>3, ResultWriter
<1> QED
  BY <1>1, ServiceInvariance, PTL DEF Spec, ResultsAreTheHolders

-----------------------------------------------------------------------------
\* Refinement.

\* Requests and workers use the store only by its operations (ports.py), with
\* arguments it knows: the deployment is an implementation of the run store, so
\* every theorem of RunStoreProofs holds of it.
THEOREM ServiceUsesTheStore == Spec => StoreSpec
<1>1. Init => StoreInit
  BY DEF Init
<1>2. ServiceInv /\ [Next]_vars => [StoreNext]_storeVars
  BY NextShape DEF StepShaped
<1> QED
  BY <1>1, <1>2, ServiceInvariance, PTL DEF Spec, StoreSpec

\* Whatever workers, crashes and retries do, a client sees what RunPromise says.
THEOREM ServiceKeepsThePromise == Spec => PromiseKept
  BY ServiceUsesTheStore, ImplementsPromise, PTL
-----------------------------------------------------------------------------
\* The listing of sessions.

SessionPairs == Nat \X Nat

\* Where a row stands in its set; InOrder counts the rows before it.
Below(S, r) == {s \in S : Precedes(s, r)}

LEMMA PrecedesIsTotal ==
    ASSUME NEW r \in SessionPairs, NEW s \in SessionPairs
    PROVE  /\ ~Precedes(r, r)
           /\ Precedes(r, s) \/ Precedes(s, r) \/ r = s
           /\ \A q \in SessionPairs : Precedes(r, s) /\ Precedes(s, q) => Precedes(r, q)
<1>1. /\ r = <<r[1], r[2]>> /\ s = <<s[1], s[2]>>
      /\ r[1] \in Nat /\ r[2] \in Nat /\ s[1] \in Nat /\ s[2] \in Nat
      BY DEF SessionPairs
<1>2. /\ ~Precedes(r, r)
      /\ Precedes(r, s) \/ Precedes(s, r) \/ r = s
      BY <1>1 DEF Precedes
<1>3. ASSUME NEW q \in SessionPairs, Precedes(r, s), Precedes(s, q) PROVE Precedes(r, q)
    <2>1. q[1] \in Nat /\ q[2] \in Nat BY DEF SessionPairs
    <2> QED BY <1>1, <1>3, <2>1 DEF Precedes
<1> QED BY <1>2, <1>3

LEMMA RanksAreInOrder ==
    ASSUME NEW S \in SUBSET SessionPairs, IsFiniteSet(S), NEW r \in S
    PROVE  /\ Cardinality(Below(S, r)) \in 0..Cardinality(S) - 1
           /\ \A s \in S : Precedes(r, s) => Cardinality(Below(S, r)) < Cardinality(Below(S, s))
<1>1. \A s \in S : /\ Below(S, s) \in SUBSET S /\ IsFiniteSet(Below(S, s))
                   /\ Cardinality(Below(S, s)) \in Nat
    <2> TAKE s \in S
    <2>1. Below(S, s) \in SUBSET S BY DEF Below
    <2> QED BY <2>1, FS_Subset, FS_CardinalityType
<1>2. r \notin Below(S, r) BY PrecedesIsTotal DEF Below
<1>3. Cardinality(S) \in Nat BY FS_CardinalityType
<1>4. Cardinality(Below(S, r)) <= Cardinality(S) /\ Cardinality(Below(S, r)) # Cardinality(S)
      BY <1>1, <1>2, FS_Subset
<1>5. ASSUME NEW s \in S, Precedes(r, s)
      PROVE  Cardinality(Below(S, r)) < Cardinality(Below(S, s))
    <2>1. Below(S, r) \in SUBSET Below(S, s) BY <1>5, PrecedesIsTotal DEF Below
    <2>2. r \in Below(S, s) BY <1>5 DEF Below
    <2>3. /\ Cardinality(Below(S, r)) <= Cardinality(Below(S, s))
          /\ Cardinality(Below(S, r)) # Cardinality(Below(S, s))
          BY <1>1, <1>2, <2>1, <2>2, FS_Subset
    <2> QED BY <1>1, <2>3
<1> QED BY <1>1, <1>3, <1>4, <1>5

\* InOrder enumerates a finite set in its order: ranks are different numbers below the size
\* of the set, so all of those are taken.
LEMMA InOrderSorts ==
    ASSUME NEW S \in SUBSET SessionPairs, IsFiniteSet(S)
    PROVE  /\ Cardinality(S) \in Nat
           /\ InOrder(S) \in [1..Cardinality(S) -> S]
           /\ \A i, j \in 1..Cardinality(S) : i < j => Precedes(InOrder(S)[i], InOrder(S)[j])
           /\ \A r \in S : \E i \in 1..Cardinality(S) : InOrder(S)[i] = r
<1> DEFINE N == Cardinality(S)
           R(r) == Cardinality(Below(S, r))
           f == [r \in S |-> R(r)]
<1>1. N \in Nat BY FS_CardinalityType
<1>2. \A r \in S : R(r) \in 0..N - 1 BY RanksAreInOrder
<1>3. \A r, s \in S : R(r) = R(s) => r = s
    <2> TAKE r, s \in S
    <2> HAVE R(r) = R(s)
    <2>1. ~Precedes(r, s) /\ ~Precedes(s, r) BY RanksAreInOrder, <1>2
    <2> QED BY <2>1, PrecedesIsTotal
<1>4. f \in Surjection(S, 0..N - 1)
    <2>1. f \in Injection(S, 0..N - 1)
        <3> HIDE DEF R
        <3> QED BY <1>2, <1>3 DEF Injection, IsInjective
    <2>2. IsFiniteSet(0..N - 1) /\ Cardinality(0..N - 1) = N
        <3>1. 0 \in Int /\ N - 1 \in Int BY <1>1
        <3>2. /\ IsFiniteSet(0..N - 1)
              /\ Cardinality(0..N - 1) = IF 0 > N - 1 THEN 0 ELSE N - 1 - 0 + 1
              BY <3>1, FS_Interval
        <3> QED BY <3>2, <1>1
    <2> HIDE DEF f
    <2> QED BY <2>1, <2>2, FS_Injection
<1>5. \A n \in 1..N : \E r \in S : R(r) = n - 1
    <2> TAKE n \in 1..N
    <2>1. n - 1 \in 0..N - 1 BY <1>1
    <2> HIDE DEF R
    <2> QED BY <2>1, <1>4 DEF Surjection
<1>6. \A n \in 1..N : InOrder(S)[n] \in S /\ R(InOrder(S)[n]) = n - 1
      BY <1>5 DEF InOrder, Below
<1>7. InOrder(S) \in [1..N -> S]
    <2> DEFINE pick(n) == CHOOSE r \in S : Cardinality({s \in S : Precedes(s, r)}) = n - 1
    <2>1. InOrder(S) = [n \in 1..N |-> pick(n)] BY Zenon DEF InOrder
    <2>2. \A n \in 1..N : InOrder(S)[n] = pick(n) BY <2>1
    <2> HIDE DEF pick
    <2> QED BY <2>1, <2>2, <1>6
<1>8. ASSUME NEW i \in 1..N, NEW j \in 1..N, i < j
      PROVE  Precedes(InOrder(S)[i], InOrder(S)[j])
    <2> DEFINE a == InOrder(S)[i]
               b == InOrder(S)[j]
    <2>1. a \in S /\ b \in S /\ R(a) < R(b) BY <1>6, <1>8, <1>1
    <2> HIDE DEF a, b
    <2>2. a # b /\ ~Precedes(b, a)
        <3>1. R(a) \in Int /\ R(b) \in Int BY <2>1, <1>2
        <3>2. Precedes(b, a) => R(b) < R(a) BY <2>1, RanksAreInOrder
        <3> QED BY <3>1, <3>2, <2>1
    <2>3. Precedes(a, b) BY <2>1, <2>2, PrecedesIsTotal
    <2> QED BY <2>3 DEF a, b
<1>9. \A r \in S : \E i \in 1..N : InOrder(S)[i] = r
    <2> TAKE r \in S
    <2>1. R(r) + 1 \in 1..N BY <1>1, <1>2
    <2>2. InOrder(S)[R(r) + 1] \in S /\ R(InOrder(S)[R(r) + 1]) = R(r)
        <3>1. R(r) \in Int BY <1>2
        <3> HIDE DEF R
        <3> QED BY <3>1, <2>1, <1>6
    <2>3. InOrder(S)[R(r) + 1] = r BY <2>2, <1>3
    <2> QED BY <2>1, <2>3
<1> QED BY <1>1, <1>7, <1>8, <1>9

\* The rows that the client was given.
Given == {listing.given[i] : i \in DOMAIN listing.given}

SessionTypeOK ==
    /\ sessionRows \subseteq SessionPairs /\ IsFiniteSet(sessionRows)
    /\ handler \in [Creators -> [does : {"nothing", "create", "delete"}, at : Nat, left : Nat]]
    /\ listing \in [open : BOOLEAN, cursor : {FromTheStart} \cup SessionPairs,
                    given : Seq(SessionPairs)]
    /\ throughout \subseteq sessionRows

GivenInOrder ==
    \A i, j \in DOMAIN listing.given : i < j => Precedes(listing.given[i], listing.given[j])

\* Where the client stands: what has been there throughout was given to it or comes behind
\* its cursor, which is the row that it was given last, there or not.
CursorIsSound ==
    /\ listing.open =>
        /\ listing.given # <<>>
        /\ listing.cursor = listing.given[Len(listing.given)]
        /\ \A r \in throughout : r \in Given \/ After(listing.cursor, r)
    /\ ~listing.open /\ listing.given = <<>> => listing.cursor = FromTheStart
    /\ ~listing.open /\ listing.given # <<>> => throughout \subseteq Given

SessionInv == SessionTypeOK /\ GivenInOrder /\ CursorIsSound

LEMMA PairIsNoStart == FromTheStart \notin SessionPairs
<1>1. ASSUME FromTheStart \in SessionPairs PROVE FALSE
    <2>1. PICK a, b \in Nat : FromTheStart = <<a, b>> BY <1>1 DEF SessionPairs
    <2>2. Len(FromTheStart) = 0 /\ Len(<<a, b>>) = 2 BY DEF FromTheStart
    <2> QED BY <2>1, <2>2
<1> QED BY <1>1

\* The first elements of a sequence.
LEMMA PrefixIs ==
    ASSUME NEW S, NEW s, NEW k \in Nat, \A i \in 1..k : s[i] \in S
    PROVE  /\ SubSeq(s, 1, k) \in Seq(S)
           /\ Len(SubSeq(s, 1, k)) = k
           /\ \A i \in 1..k : SubSeq(s, 1, k)[i] = s[i]
<1>1. /\ SubSeq(s, 1, k) \in Seq(S)
      /\ Len(SubSeq(s, 1, k)) = IF 1 <= k THEN k - 1 + 1 ELSE 0
      /\ \A i \in 1..k - 1 + 1 : SubSeq(s, 1, k)[i] = s[1 + i - 1]
      BY SubSeqProperties
<1>2. k - 1 + 1 = k /\ \A i \in 1..k : 1 + i - 1 = i OBVIOUS
<1>3. ASSUME NEW i \in 1..k PROVE SubSeq(s, 1, k)[i] = s[i]
    <2>1. SubSeq(s, 1, k)[i] = s[1 + i - 1] BY <1>1, <1>2
    <2>2. 1 + i - 1 = i OBVIOUS
    <2> QED BY <2>1, <2>2
<1> QED BY <1>1, <1>2, <1>3

\* What a page is taken from, and what it shows.
Remaining == {s \in sessionRows : After(listing.cursor, s)}
PageRows(limit) == Rows(listing.cursor, limit + 1)
PageItems(limit) == SubSeq(PageRows(limit), 1, Min({limit, Len(PageRows(limit))}))

\* A page, and whether there is another one.
LEMMA PageIsNext ==
    ASSUME SessionTypeOK, NEW limit \in Nat \ {0}
    PROVE  /\ Remaining \in SUBSET SessionPairs /\ IsFiniteSet(Remaining)
           /\ PageItems(limit) \in Seq(SessionPairs)
           /\ Len(PageItems(limit)) <= Cardinality(Remaining)
           /\ Len(PageItems(limit)) <= limit
           /\ Len(PageRows(limit)) > limit => Len(PageItems(limit)) = limit
           /\ ~(Len(PageRows(limit)) > limit) => Len(PageItems(limit)) = Cardinality(Remaining)
           /\ \A i \in 1..Len(PageItems(limit)) : PageItems(limit)[i] = InOrder(Remaining)[i]
<1> DEFINE S == Remaining
           rows == PageRows(limit)
           items == PageItems(limit)
           N == Cardinality(S)
           all == InOrder(S)
<1>1. S \in SUBSET SessionPairs /\ IsFiniteSet(S)
    <2>1. S \in SUBSET sessionRows BY DEF Remaining
    <2> QED BY <2>1, FS_Subset DEF SessionTypeOK
<1>2. N \in Nat /\ all \in [1..N -> S] BY <1>1, InOrderSorts
<1>3. all \in Seq(SessionPairs) /\ Len(all) = N
    <2> HIDE DEF all, N
    <2> QED BY <1>1, <1>2
<1>4. \A a, b \in Int : Min({a, b}) = IF a <= b THEN a ELSE b BY DEF Min
<1>5. rows = SubSeq(all, 1, Min({limit + 1, Len(all)})) BY DEF Rows, PageRows, Remaining
<1>12. items = SubSeq(rows, 1, Min({limit, Len(rows)})) BY DEF PageItems
<1> HIDE DEF all, N, rows, items
<1> DEFINE m == Min({limit + 1, Len(all)})
           k == Min({limit, Len(rows)})
<1>6. m \in 0..N /\ m = (IF limit + 1 <= N THEN limit + 1 ELSE N) BY <1>2, <1>3, <1>4
<1> HIDE DEF m
<1>7. /\ rows \in Seq(SessionPairs) /\ Len(rows) = m
      /\ \A i \in 1..m : rows[i] = all[i]
    <2>1. \A i \in 1..m : all[i] \in SessionPairs BY <1>1, <1>2, <1>6
    <2>2. m \in Nat BY <1>6
    <2>3. /\ SubSeq(all, 1, m) \in Seq(SessionPairs)
          /\ Len(SubSeq(all, 1, m)) = m
          /\ \A i \in 1..m : SubSeq(all, 1, m)[i] = all[i]
          BY <2>1, <2>2, PrefixIs
    <2>4. rows = SubSeq(all, 1, m) BY <1>5 DEF m
    <2> QED BY <2>3, <2>4, Zenon
<1>8. k \in 0..m /\ k = (IF limit <= m THEN limit ELSE m) BY <1>4, <1>6, <1>7
<1> HIDE DEF k
<1>9. /\ items \in Seq(SessionPairs) /\ Len(items) = k
      /\ \A i \in 1..k : items[i] = rows[i]
    <2>1. \A i \in 1..k : rows[i] \in SessionPairs BY <1>6, <1>7, <1>8
    <2>2. k \in Nat BY <1>6, <1>8
    <2>3. /\ SubSeq(rows, 1, k) \in Seq(SessionPairs)
          /\ Len(SubSeq(rows, 1, k)) = k
          /\ \A i \in 1..k : SubSeq(rows, 1, k)[i] = rows[i]
          BY <2>1, <2>2, PrefixIs
    <2>4. items = SubSeq(rows, 1, k) BY <1>12 DEF k
    <2> QED BY <2>3, <2>4, Zenon
<1>10. ASSUME NEW i \in 1..Len(items) PROVE items[i] = all[i]
    <2>1. i \in 1..k /\ i \in 1..m
        <3>1. i \in 1..k BY <1>9, Zenon
        <3> QED BY <3>1, <1>6, <1>8
    <2>2. items[i] = rows[i] /\ rows[i] = all[i] BY <2>1, <1>7, <1>9, Zenon
    <2> QED BY <2>2
<1>11. /\ Len(items) <= N /\ Len(items) <= limit
       /\ Len(rows) > limit => Len(items) = limit
       /\ ~(Len(rows) > limit) => Len(items) = N
       BY <1>2, <1>6, <1>7, <1>8, <1>9
<1> QED BY <1>1, <1>9, <1>10, <1>11 DEF all, N, rows, items

\* What a page adds to what the client was given.
LEMMA PageKeepsInv ==
    ASSUME SessionInv, NEW limit \in PageSizes, ReadPage(limit)
    PROVE  SessionInv'
<1> DEFINE S == Remaining
           all == InOrder(S)
           rows == PageRows(limit)
           items == PageItems(limit)
           more == Len(rows) > limit
           g == listing.given
           N == Cardinality(S)
<1> USE DEF SessionInv
<1> DEFINE all2 == g \o items
<1>0. more \in BOOLEAN /\ S = {s \in sessionRows : After(listing.cursor, s)} BY DEF Remaining
<1>4. /\ listing.open \/ g = <<>>
      /\ listing' = [open |-> more,
                     cursor |-> IF more THEN items[Len(items)] ELSE listing.cursor,
                     given |-> all2]
      /\ throughout' = IF listing.open THEN throughout ELSE sessionRows
      /\ UNCHANGED <<sessionRows, handler>>
      BY DEF ReadPage, PageRows, PageItems
<1>1. limit \in Nat \ {0} BY SessionAssumption
<1>2. /\ S \in SUBSET SessionPairs /\ IsFiniteSet(S)
      /\ items \in Seq(SessionPairs)
      /\ Len(items) <= N /\ Len(items) <= limit
      /\ more => Len(items) = limit
      /\ ~more => Len(items) = N
      /\ \A i \in 1..Len(items) : items[i] = all[i]
      BY <1>1, PageIsNext
<1>3. /\ N \in Nat /\ all \in [1..N -> S]
      /\ \A i, j \in 1..N : i < j => Precedes(all[i], all[j])
      /\ \A r \in S : \E i \in 1..N : all[i] = r
      BY <1>2, InOrderSorts
<1> HIDE DEF all2, items, rows, all, S, N, more
<1>5. /\ g \in Seq(SessionPairs) /\ listing.open \in BOOLEAN
      /\ listing.cursor \in {FromTheStart} \cup SessionPairs
      BY DEF SessionTypeOK
<1>6. \A i \in 1..Len(items) : After(listing.cursor, items[i]) /\ items[i] \in SessionPairs
    <2> TAKE i \in 1..Len(items)
    <2>1. i \in 1..N BY <1>2, <1>3
    <2>2. items[i] \in S BY <2>1, <1>2, <1>3
    <2> QED BY <2>2, <1>0, <1>2
<1>7. /\ Len(g) \in Nat /\ DOMAIN g = 1..Len(g) /\ \A i \in 1..Len(g) : g[i] \in SessionPairs
      /\ Len(items) \in Nat
      /\ (g = <<>>) <=> (Len(g) = 0)
    <2>1. /\ Len(g) \in Nat /\ DOMAIN g = 1..Len(g) /\ Len(items) \in Nat
          /\ (g = <<>>) <=> (Len(g) = 0)
          BY <1>2, <1>5, LenProperties, EmptySeq
    <2>2. \A i \in 1..Len(g) : g[i] \in SessionPairs BY <1>5, ElementOfSeq
    <2> QED BY <2>1, <2>2
<1>8. \A i, j \in 1..Len(items) : i < j => Precedes(items[i], items[j])
    <2> TAKE i, j \in 1..Len(items)
    <2> HAVE i < j
    <2>1. i \in 1..N /\ j \in 1..N BY <1>2, <1>3
    <2>2. Precedes(all[i], all[j]) BY <2>1, <1>3
    <2> QED BY <2>2, <1>2
<1>9. /\ all2 \in Seq(SessionPairs) /\ Len(all2) = Len(g) + Len(items)
      /\ \A i \in 1..Len(g) + Len(items) :
            all2[i] = IF i <= Len(g) THEN g[i] ELSE items[i - Len(g)]
      BY <1>2, <1>5, ConcatProperties DEF all2
<1>10. DOMAIN all2 = 1..Len(g) + Len(items) BY <1>9, LenProperties
<1>11. listing'.given = all2 /\ listing'.open = more BY <1>4
<1>12. listing'.cursor = IF more THEN items[Len(items)] ELSE listing.cursor BY <1>4
<1>13. more => /\ Len(items) > 0 /\ items[Len(items)] = all2[Len(all2)]
               /\ items[Len(items)] \in SessionPairs
    <2> HAVE more
    <2>1. Len(items) > 0 BY <1>1, <1>2
    <2>2. items[Len(items)] = all2[Len(all2)]
        <3>1. Len(g) + Len(items) \in 1..Len(g) + Len(items) BY <2>1, <1>7
        <3>2. ~(Len(g) + Len(items) <= Len(g)) /\ Len(g) + Len(items) - Len(g) = Len(items)
              BY <2>1, <1>7
        <3> QED BY <3>1, <3>2, <1>9
    <2>3. Len(items) \in 1..Len(items) BY <2>1, <1>7
    <2>4. items[Len(items)] \in SessionPairs BY <2>3, <1>6
    <2> QED BY <2>1, <2>2, <2>4
<1>14. SessionTypeOK'
    <2>1. listing' \in [open : BOOLEAN, cursor : {FromTheStart} \cup SessionPairs,
                        given : Seq(SessionPairs)]
        <3>1. listing'.cursor \in {FromTheStart} \cup SessionPairs BY <1>5, <1>12, <1>13
        <3>2. more \in BOOLEAN BY <1>0
        <3>3. (IF more THEN items[Len(items)] ELSE listing.cursor)
                 \in {FromTheStart} \cup SessionPairs
              BY <1>5, <1>13
        <3> QED BY <1>4, <1>9, <3>2, <3>3
    <2> QED BY <2>1, <1>4 DEF SessionTypeOK
<1>15. \A i \in 1..Len(g), j \in 1..Len(items) : Precedes(g[i], items[j])
    <2> TAKE i \in 1..Len(g), j \in 1..Len(items)
    <2>1. g # <<>> BY <1>7
    <2>2. listing.cursor = g[Len(g)] BY <2>1, <1>4 DEF CursorIsSound
    <2>3. Len(g) \in 1..Len(g) BY <1>7
    <2>4. listing.cursor \in SessionPairs BY <2>2, <2>3, <1>7
    <2>5. Precedes(g[Len(g)], items[j]) BY <2>2, <2>4, <1>6, PairIsNoStart DEF After
    <2>6. i = Len(g) \/ Precedes(g[i], g[Len(g)])
        <3>1. i = Len(g) \/ i < Len(g) BY <1>7
        <3> QED BY <3>1, <2>3, <1>7 DEF GivenInOrder
    <2>7. g[i] \in SessionPairs /\ g[Len(g)] \in SessionPairs /\ items[j] \in SessionPairs
          BY <2>3, <1>6, <1>7
    <2> QED BY <2>5, <2>6, <2>7, PrecedesIsTotal
<1>16. GivenInOrder'
    <2> SUFFICES ASSUME NEW i \in 1..Len(g) + Len(items), NEW j \in 1..Len(g) + Len(items), i < j
                 PROVE  Precedes(all2[i], all2[j])
        BY <1>10, <1>11 DEF GivenInOrder
    <2>1. CASE j <= Len(g)
        <3>1. i \in 1..Len(g) /\ j \in 1..Len(g) BY <2>1, <1>7
        <3>2. Precedes(g[i], g[j]) BY <3>1, <1>7 DEF GivenInOrder
        <3> QED BY <3>1, <3>2, <1>9
    <2>2. CASE ~(j <= Len(g)) /\ i <= Len(g)
        <3>1. i \in 1..Len(g) /\ j - Len(g) \in 1..Len(items) BY <2>2, <1>7
        <3>2. Precedes(g[i], items[j - Len(g)]) BY <3>1, <1>15
        <3> QED BY <3>2, <2>2, <1>9
    <2>3. CASE ~(j <= Len(g)) /\ ~(i <= Len(g))
        <3>1. /\ i - Len(g) \in 1..Len(items) /\ j - Len(g) \in 1..Len(items)
              /\ i - Len(g) < j - Len(g)
              BY <2>3, <1>7
        <3>2. Precedes(items[i - Len(g)], items[j - Len(g)]) BY <3>1, <1>8
        <3> QED BY <3>2, <2>3, <1>9
    <2> QED BY <2>1, <2>2, <2>3
<1>17. Given' = {all2[i] : i \in 1..Len(g) + Len(items)} BY <1>10, <1>11 DEF Given
<1>18. /\ \A r \in Given : r \in Given'
       /\ \A i \in 1..Len(items) : items[i] \in Given'
    <2>1. ASSUME NEW r \in Given PROVE r \in Given'
        <3>1. PICK i \in 1..Len(g) : r = g[i] BY <2>1, <1>7 DEF Given
        <3>2. i \in 1..Len(g) + Len(items) /\ i <= Len(g) BY <1>7
        <3>3. all2[i] = r BY <3>1, <3>2, <1>9
        <3> QED BY <3>2, <3>3, <1>17
    <2>2. ASSUME NEW i \in 1..Len(items) PROVE items[i] \in Given'
        <3>1. /\ i + Len(g) \in 1..Len(g) + Len(items) /\ ~(i + Len(g) <= Len(g))
              /\ i + Len(g) - Len(g) = i
              BY <1>7
        <3>2. all2[i + Len(g)] = items[i] BY <3>1, <1>9
        <3> QED BY <3>1, <3>2, <1>17
    <2> QED BY <2>1, <2>2
<1>19. ASSUME NEW r \in throughout'
       PROVE  /\ more => r \in Given' \/ After(listing'.cursor, r)
              /\ ~more => r \in Given'
    <2>1. r \in Given \/ r \in S
        <3>1. CASE listing.open
              BY <3>1, <1>0, <1>4, <1>19 DEF CursorIsSound, SessionTypeOK
        <3>2. CASE ~listing.open
            <4>1. listing.cursor = FromTheStart BY <3>2, <1>4 DEF CursorIsSound
            <4> QED BY <4>1, <3>2, <1>0, <1>4, <1>19 DEF After
        <3> QED BY <3>1, <3>2
    <2>2. CASE r \in Given BY <2>2, <1>18
    <2>3. CASE r \in S
        <3>1. PICK i \in 1..N : all[i] = r BY <2>3, <1>3
        <3>2. CASE i <= Len(items)
            <4>1. i \in 1..Len(items) BY <3>2, <1>3, <1>7
            <4> QED BY <4>1, <3>1, <1>2, <1>18
        <3>3. CASE ~(i <= Len(items))
            <4>1. more BY <3>3, <1>2, <1>3
            <4>2. Len(items) \in 1..N /\ Len(items) \in 1..Len(items) /\ Len(items) < i
                  BY <4>1, <3>3, <1>2, <1>3, <1>7, <1>13
            <4>3. Precedes(all[Len(items)], all[i]) BY <4>2, <1>3
            <4>4. Precedes(items[Len(items)], r) BY <4>2, <4>3, <3>1, <1>2
            <4> QED BY <4>1, <4>4, <1>12 DEF After
        <3> QED BY <3>2, <3>3
    <2> QED BY <2>1, <2>2, <2>3
<1>20. CursorIsSound'
    <2>1. more => all2 # <<>>
        <3>1. more => Len(all2) > 0 BY <1>7, <1>9, <1>13
        <3> QED BY <3>1, EmptySeq
    <2>2. more => listing'.cursor = all2[Len(all2)] BY <1>12, <1>13
    <2>3. ~more /\ all2 = <<>> => listing'.cursor = FromTheStart
        <3> HAVE ~more /\ all2 = <<>>
        <3>1. Len(all2) = 0 BY EmptySeq
        <3>2. g = <<>> BY <3>1, <1>7, <1>9
        <3>3. ~listing.open BY <3>2 DEF CursorIsSound
        <3> QED BY <3>2, <3>3, <1>12 DEF CursorIsSound
    <2> QED BY <2>1, <2>2, <2>3, <1>0, <1>11, <1>19 DEF CursorIsSound
<1> QED BY <1>14, <1>16, <1>20

\* Creations come anywhere in the order, but what is there throughout only shrinks.
LEMMA SessionStepKeepsInv == SessionInv /\ [SessionNext]_sessionVars => SessionInv'
<1> SUFFICES ASSUME SessionInv, [SessionNext]_sessionVars PROVE SessionInv' OBVIOUS
<1> USE DEF SessionInv
<1>1. ASSUME UNCHANGED listing, throughout' \subseteq throughout,
             SessionTypeOK'
      PROVE  SessionInv'
      BY <1>1 DEF GivenInOrder, CursorIsSound, Given
<1>2. ASSUME NEW h \in Creators, BeginCreation(h) PROVE SessionInv'
    <2>1. PICK t \in 0..LastCreation :
              handler' = [handler EXCEPT ![h] = [does |-> "create", at |-> t,
                                                 left |-> CreateAttempts]]
          BY <1>2 DEF BeginCreation
    <2>2. t \in Nat /\ CreateAttempts \in Nat BY SessionAssumption
    <2>3. SessionTypeOK' BY <1>2, <2>1, <2>2 DEF SessionTypeOK, BeginCreation
    <2> QED BY <2>3, <1>1, <1>2 DEF BeginCreation
<1>3. ASSUME NEW h \in Creators, NEW id \in SessionNames, PutSession(h, id) PROVE SessionInv'
    <2>1. id \in Nat BY SessionAssumption
    <2>2. handler[h] \in [does : {"nothing", "create", "delete"}, at : Nat, left : Nat]
          BY DEF SessionTypeOK
    <2>3. handler' \in [Creators -> [does : {"nothing", "create", "delete"}, at : Nat, left : Nat]]
        <3>1. Resting \in [does : {"nothing", "create", "delete"}, at : Nat, left : Nat]
              BY DEF Resting
        <3>2. \/ handler' = [handler EXCEPT ![h] = Resting]
              \/ handler[h].left > 1 /\ handler' = [handler EXCEPT ![h].left = @ - 1]
              BY <1>3 DEF PutSession
        <3>3. CASE handler' = [handler EXCEPT ![h] = Resting] BY <3>1, <3>3 DEF SessionTypeOK
        <3>4. CASE /\ handler[h].left > 1
                   /\ handler' = [handler EXCEPT ![h].left = @ - 1]
            <4>1. handler[h].left - 1 \in Nat BY <3>4, <2>2
            <4> QED BY <4>1, <3>4 DEF SessionTypeOK
        <3> QED BY <3>2, <3>3, <3>4
    <2>4. sessionRows \subseteq sessionRows'
          /\ sessionRows' \subseteq SessionPairs /\ IsFiniteSet(sessionRows')
        <3>1. <<handler[h].at, id>> \in SessionPairs BY <2>1, <2>2 DEF SessionPairs
        <3>2. IsFiniteSet(sessionRows \cup {<<handler[h].at, id>>})
              BY FS_AddElement DEF SessionTypeOK
        <3> QED BY <3>1, <3>2, <1>3 DEF PutSession, SessionTypeOK
    <2>5. SessionTypeOK' BY <2>3, <2>4, <1>3 DEF SessionTypeOK, PutSession
    <2> QED BY <2>5, <1>1, <1>3 DEF PutSession
<1>4. ASSUME NEW h \in Creators, NEW id \in SessionNames, BeginDeletion(h, id) PROVE SessionInv'
    <2>1. id \in Nat BY SessionAssumption
    <2>2. SessionTypeOK' BY <1>4, <2>1 DEF SessionTypeOK, BeginDeletion
    <2> QED BY <2>2, <1>1, <1>4 DEF BeginDeletion
<1>5. ASSUME NEW h \in Creators, EndDeletion(h) PROVE SessionInv'
    <2>1. Resting \in [does : {"nothing", "create", "delete"}, at : Nat, left : Nat]
          BY DEF Resting
    <2>2. IsFiniteSet(sessionRows')
        <3>1. sessionRows' \in SUBSET sessionRows BY <1>5 DEF EndDeletion
        <3> QED BY <3>1, FS_Subset DEF SessionTypeOK
    <2>3. SessionTypeOK' BY <1>5, <2>1, <2>2 DEF SessionTypeOK, EndDeletion
    <2> QED BY <2>3, <1>1, <1>5 DEF EndDeletion
<1>6. ASSUME UNCHANGED sessionVars PROVE SessionInv'
      BY <1>6 DEF sessionVars, SessionTypeOK, GivenInOrder, CursorIsSound, Given
<1> QED BY <1>2, <1>3, <1>4, <1>5, <1>6, PageKeepsInv DEF SessionNext

\* The inductive invariant of the listing: where the client stands (SessionService.list).
THEOREM SessionInvariance == SessionSpec => []SessionInv
<1>1. SessionInit => SessionInv
    <2> HAVE SessionInit
    <2>1. SessionTypeOK
        <3>1. Resting \in [does : {"nothing", "create", "delete"}, at : Nat, left : Nat]
              BY DEF Resting
        <3>2. <<>> \in Seq(SessionPairs) BY EmptySeq
        <3> QED BY <3>1, <3>2, FS_EmptySet DEF SessionInit, SessionTypeOK
    <2>2. listing.given = <<>> /\ listing.cursor = FromTheStart /\ ~listing.open
          BY DEF SessionInit
    <2>3. DOMAIN listing.given = {}
        <3>1. DOMAIN listing.given = 1..0 BY <2>1, <2>2, EmptySeq, LenProperties DEF SessionTypeOK
        <3> QED BY <3>1
    <2> QED BY <2>1, <2>2, <2>3 DEF SessionInv, GivenInOrder, CursorIsSound
<1> QED BY <1>1, SessionStepKeepsInv, PTL DEF SessionSpec

\* A client that reads to the end was given every session that had been there since it began,
\* in order and none twice, for any number of sessions, handlers and page sizes.
THEOREM ListingsAreComplete == SessionSpec => []ListingIsComplete
<1>1. SessionInv => ListingIsComplete
      BY DEF SessionInv, GivenInOrder, CursorIsSound, ListingIsComplete, Given
<1> QED BY <1>1, SessionInvariance, PTL
-----------------------------------------------------------------------------
\* The schema of the file.

LEMMA LeastNumber ==
    ASSUME NEW S, S \subseteq Nat, S # {}
    PROVE  \E n \in S : \A m \in S : n <= m
<1> DEFINE R == {ss \in Nat \X Nat : ss[1] < ss[2]}
<1>1. IsWellFoundedOn(R, Nat)
    BY NatLessThanWellFounded DEF OpToRel
<1> HIDE DEF R
<1>2. PICK n \in S : \A m \in S : ~(<<m, n>> \in R)
    BY <1>1, WFMin, Zenon
<1>3. \A m \in S : m \in Nat /\ n \in Nat /\ ~(m < n)
    BY <1>2 DEF R
<1> QED BY <1>3

LEMMA MaxIs ==
    ASSUME NEW S, S \subseteq Nat, S # {}, NEW n \in Nat, \A m \in S : m <= n
    PROVE  Max(S) \in S /\ \A m \in S : m <= Max(S)
<1> DEFINE Bounds == {u \in Nat : \A m \in S : m <= u}
<1>1. PICK u \in Bounds : \A v \in Bounds : u <= v
    <2>1. Bounds \subseteq Nat /\ n \in Bounds OBVIOUS
    <2> HIDE DEF Bounds
    <2> QED BY <2>1, LeastNumber
<1>2. u \in S
    <2> SUFFICES ASSUME u \notin S PROVE FALSE OBVIOUS
    <2>1. PICK m \in S : m <= u OBVIOUS
    <2>2. u - 1 \in Nat BY <2>1
    <2>3. \A k \in S : k <= u - 1 OBVIOUS
    <2> QED BY <1>1, <2>2, <2>3
<1>3. u >= u /\ \A m \in S : u >= m OBVIOUS
<1>4. \E x \in S : \A y \in S : x >= y BY <1>2, <1>3
<1>5. Max(S) \in S /\ \A y \in S : Max(S) >= y BY <1>4 DEF Max
<1> QED BY <1>5

LEMMA MaxOfTwo ==
    ASSUME NEW a \in Nat, NEW b \in Nat
    PROVE  Max({a, b}) = IF a <= b THEN b ELSE a
BY DEF Max

-----------------------------------------------------------------------------
\* The shape of a table changes with the migrations that make it, and with no other.
LEMMA ShapesOfMigrations ==
    ASSUME NEW table, NEW n \in Nat
    PROVE  /\ ShapeAfter(table, n) \in 0..n
           /\ n > 0 /\ table \in Migrations[n] => ShapeAfter(table, n) = n
           /\ n > 0 /\ table \notin Migrations[n] => ShapeAfter(table, n) = ShapeAfter(table, n - 1)
<1> DEFINE S(k) == {0} \cup {m \in 1..k : table \in Migrations[m]}
<1>1. /\ S(n) \subseteq Nat /\ S(n) # {} /\ \A m \in S(n) : m <= n OBVIOUS
<1>2. ShapeAfter(table, n) = Max(S(n)) BY DEF ShapeAfter, Absent
<1>3. Max(S(n)) \in S(n) /\ \A m \in S(n) : m <= Max(S(n))
    <2> HIDE DEF S
    <2> QED BY <1>1, MaxIs
<1>4. n > 0 /\ table \in Migrations[n] => n \in S(n) OBVIOUS
<1>5. ASSUME n > 0, table \notin Migrations[n]
      PROVE  ShapeAfter(table, n) = ShapeAfter(table, n - 1)
    <2>1. S(n) = S(n - 1)
        <3>1. \A m \in 1..n : m # n => m \in 1..n - 1 OBVIOUS
        <3>2. \A m \in 1..n - 1 : m \in 1..n OBVIOUS
        <3> QED BY <3>1, <3>2, <1>5
    <2>2. ShapeAfter(table, n - 1) = Max(S(n - 1)) BY DEF ShapeAfter, Absent
    <2> HIDE DEF S
    <2> QED BY <2>1, <2>2, <1>2
<1>6. S(n) \subseteq 0..n OBVIOUS
<1> HIDE DEF S
<1> QED BY <1>1, <1>2, <1>3, <1>4, <1>5, <1>6

LEMMA LaterTables ==
    /\ "procedure_version_heads" \in Tables /\ "procedure_versions" \in Tables
    /\ "semantic_facts" \in Tables /\ "run_reflections" \in Tables
    /\ "active_procedures" \in Tables
    /\ ShapeAfter("procedure_versions", 7) = 7
    /\ ShapeAfter("procedure_version_heads", 8) = 8
    /\ Len(Migrations) = 8
<1>1. /\ DOMAIN Migrations = 1..8 /\ Len(Migrations) = 8
      /\ Migrations[1] = {"core", "api_key_hashes", "run_reflections"}
      /\ Migrations[6] = {"semantic_facts"}
      /\ Migrations[7] = {"procedure_versions", "active_procedures"}
      /\ Migrations[8] = {"procedure_version_heads"}
      BY DEF Migrations
<1>2. ShapeAfter("procedure_versions", 7) = 7 BY <1>1, ShapesOfMigrations
<1>3. ShapeAfter("procedure_version_heads", 8) = 8 BY <1>1, ShapesOfMigrations
<1>4. \A m \in 1..8 : Migrations[m] \subseteq Tables BY <1>1 DEF Tables
<1> QED BY <1>1, <1>2, <1>3, <1>4

LEMMA NewestIs ==
    ASSUME NEW f \in Files, NEW t \in Tenants
    PROVE  /\ Newest(f, t) \in 0..LastNumber
           /\ \A n \in 1..LastNumber : f.versions[t][n] # NoSession => n <= Newest(f, t)
<1> DEFINE S == {0} \cup {n \in 1..LastNumber : f.versions[t][n] # NoSession}
<1>1. LastNumber \in Nat BY MigrationAssumption
<1>2. S \subseteq Nat /\ S # {} /\ \A m \in S : m <= LastNumber BY <1>1
<1>3. Newest(f, t) = Max(S) BY DEF Newest
<1>4. S \subseteq 0..LastNumber BY <1>1
<1>5. \A n \in 1..LastNumber : f.versions[t][n] # NoSession => n \in S OBVIOUS
<1> HIDE DEF S
<1> QED BY <1>1, <1>2, <1>3, <1>4, <1>5, MaxIs
-----------------------------------------------------------------------------
\* The tables of a file are as the last of its migrations left them.
ShapesFollow(f) ==
    \A t \in Tables : ShapeAfter(t, f.ledger) # Absent => f.shape[t] = ShapeAfter(t, f.ledger)

SessionsHaveTenants(f) == \A r \in f.sessions : r[1] \in f.tenants

PointersHold(f) == \A t \in Tenants : f.active[t] # 0 => f.versions[t][f.active[t]] # NoSession

\* What the removal of versions leaves as it is.
LEMMA VersionsGo ==
    ASSUME NEW f \in Files, NEW rows
    PROVE  LET g == WithoutVersions(f, rows) IN
           /\ g \in Files
           /\ g.ledger = f.ledger /\ g.shape = f.shape /\ g.tenants = f.tenants
           /\ g.sessions = f.sessions /\ g.reflections = f.reflections /\ g.facts = f.facts
           /\ g.heads = f.heads
           /\ VersionRows(g) \subseteq VersionRows(f) \ rows
           /\ PointersHold(f) => PointersHold(g)
<1> DEFINE g == WithoutVersions(f, rows)
<1>1. f.versions \in [Tenants -> [1..LastNumber -> TenantSessions \cup {NoSession}]]
      BY DEF Files
<1>2. f.active \in [Tenants -> 0..LastNumber] BY DEF Files
<1>3. /\ g.versions = [t \in Tenants |-> [n \in 1..LastNumber |->
                          IF <<t, f.versions[t][n]>> \in rows THEN NoSession ELSE f.versions[t][n]]]
      /\ g.active = [t \in Tenants |->
                        IF f.active[t] # 0 /\ <<t, f.versions[t][f.active[t]]>> \in rows
                        THEN 0 ELSE f.active[t]]
      BY DEF WithoutVersions, Files
<1>4. /\ g.ledger = f.ledger /\ g.shape = f.shape /\ g.tenants = f.tenants
      /\ g.sessions = f.sessions /\ g.reflections = f.reflections /\ g.facts = f.facts
      /\ g.heads = f.heads
      /\ g = [f EXCEPT !.versions = g.versions, !.active = g.active]
      BY DEF WithoutVersions, Files
<1> HIDE DEF g
<1>5. g.versions \in [Tenants -> [1..LastNumber -> TenantSessions \cup {NoSession}]]
    <2> DEFINE row(t) == [n \in 1..LastNumber |->
                  IF <<t, f.versions[t][n]>> \in rows THEN NoSession ELSE f.versions[t][n]]
    <2>1. \A t \in Tenants : row(t) \in [1..LastNumber -> TenantSessions \cup {NoSession}]
          BY <1>1
    <2>2. g.versions = [t \in Tenants |-> row(t)] BY <1>3
    <2> HIDE DEF row
    <2> QED BY <2>1, <2>2
<1>6. g.active \in [Tenants -> 0..LastNumber] BY <1>2, <1>3, MigrationAssumption
<1>7. g \in Files BY <1>4, <1>5, <1>6 DEF Files
<1>8. VersionRows(g) \subseteq VersionRows(f) \ rows
    <2> SUFFICES ASSUME NEW r \in VersionRows(g) PROVE r \in VersionRows(f) /\ r \notin rows
        OBVIOUS
    <2>1. r \in Tenants \X TenantSessions BY DEF VersionRows
    <2>2. PICK n \in 1..LastNumber : g.versions[r[1]][n] = r[2] BY DEF VersionRows
    <2>3. r[1] \in Tenants /\ r[2] \in TenantSessions /\ r = <<r[1], r[2]>> BY <2>1
    <2>4. r[2] # NoSession BY <2>3, MigrationAssumption
    <2>5. g.versions[r[1]][n] = IF <<r[1], f.versions[r[1]][n]>> \in rows
                                THEN NoSession ELSE f.versions[r[1]][n]
          BY <1>3, <2>3
    <2>6. f.versions[r[1]][n] = r[2] /\ r \notin rows BY <2>2, <2>3, <2>4, <2>5
    <2> QED BY <2>1, <2>6 DEF VersionRows
<1>9. PointersHold(f) => PointersHold(g)
    <2> SUFFICES ASSUME PointersHold(f), NEW t \in Tenants, g.active[t] # 0
                 PROVE  g.versions[t][g.active[t]] # NoSession
        BY DEF PointersHold
    <2>1. /\ g.active[t] = f.active[t] /\ f.active[t] # 0
          /\ <<t, f.versions[t][f.active[t]]>> \notin rows
          BY <1>3
    <2>2. f.versions[t][f.active[t]] # NoSession BY <2>1 DEF PointersHold
    <2>3. f.active[t] \in 1..LastNumber BY <1>2, <2>1, MigrationAssumption
    <2> QED BY <2>1, <2>2, <2>3, <1>3
<1> QED BY <1>4, <1>7, <1>8, <1>9 DEF g

\* The table that the eighth migration makes.
Heads8 == "procedure_version_heads"

MigrationTypeOK ==
    /\ file \in Files
    /\ migrating \in [release : 0..8, file : Files, from : 0..8]
    /\ opening \in 0..Opened
    /\ issued \in [Tenants -> 0..LastNumber]

\* What is committed.
FileIsSound ==
    /\ ShapesFollow(file) /\ SessionsHaveTenants(file) /\ PointersHold(file) /\ KeysHold(file)
    /\ \A t \in Tenants : issued[t] <= file.heads[t]

\* No number was given out before the table of heads was made; and a file at the seventh
\* migration, which the eighth takes the heads of tenants that are gone from, has given none
\* out to them.
NumbersNeedTheirTable ==
    /\ file.shape[Heads8] = Absent => opening < 3 /\ \A t \in Tenants : issued[t] = 0
    /\ file.ledger = 7 => \A t \in Tenants : issued[t] = 0 \/ t \in file.tenants

\* What a migration has made of the file so far.
MigrationIsSound ==
    LET f == migrating.file IN
    /\ ShapesFollow(f) /\ SessionsHaveTenants(f) /\ PointersHold(f)
    /\ \A t \in Tenants : issued[t] <= f.heads[t]
    /\ Free => f = file
    /\ ~Free => /\ migrating.from = file.ledger
                /\ migrating.from <= f.ledger
                /\ f.ledger = migrating.from => f = file
                /\ migrating.release < 8 => file.shape[Heads8] = Absent

FileInv == MigrationTypeOK /\ FileIsSound /\ NumbersNeedTheirTable /\ MigrationIsSound

\* A write outside of a migration.
LEMMA WriteKeepsInv ==
    ASSUME FileInv, NEW f \in Files, Write(f),
           ShapesFollow(f), SessionsHaveTenants(f), PointersHold(f), KeysHold(f),
           opening' \in 0..Opened, issued' \in [Tenants -> 0..LastNumber],
           \A t \in Tenants : issued'[t] <= f.heads[t],
           f.shape[Heads8] = Absent => opening' < 3 /\ \A t \in Tenants : issued'[t] = 0,
           f.ledger = 7 => \A t \in Tenants : issued'[t] = 0 \/ t \in f.tenants
    PROVE  FileInv'
<1>1. /\ Free /\ file' = f /\ migrating' = [migrating EXCEPT !.file = f] BY DEF Write
<1>2. migrating' \in [release : 0..8, file : Files, from : 0..8]
      /\ migrating'.file = f /\ migrating'.release = migrating.release
      BY <1>1 DEF FileInv, MigrationTypeOK
<1>3. MigrationTypeOK' BY <1>1, <1>2 DEF MigrationTypeOK
<1>4. FileIsSound'
      BY <1>1 DEF FileIsSound, ShapesFollow, SessionsHaveTenants, PointersHold, KeysHold, Owned,
                  VersionRows
<1>5. NumbersNeedTheirTable' BY <1>1 DEF NumbersNeedTheirTable
<1>6. MigrationIsSound'
      BY <1>1, <1>2 DEF MigrationIsSound, ShapesFollow, SessionsHaveTenants, PointersHold, Free
<1> QED BY <1>3, <1>4, <1>5, <1>6 DEF FileInv

\* What a write needs of the tables it makes.
WithShape(table, made) == [file EXCEPT !.shape[table] = made]

LEMMA OnlyAbsentAreMade ==
    ASSUME FileInv, NEW table \in Tables, file.shape[table] = Absent,
           NEW made \in {Standalone, Foreign}
    PROVE  LET f == WithShape(table, made) IN
           /\ f \in Files /\ ShapesFollow(f) /\ SessionsHaveTenants(f) /\ PointersHold(f)
           /\ KeysHold(f)
           /\ f.heads = file.heads /\ f.tenants = file.tenants /\ f.ledger = file.ledger
           /\ f.shape[table] = made /\ f.shape[table] # Absent
           /\ \A t \in Tables \ {table} : f.shape[t] = file.shape[t]
<1> DEFINE f == WithShape(table, made)
<1>1. file \in Files BY DEF FileInv, MigrationTypeOK
<1>2. /\ f.shape = [file.shape EXCEPT ![table] = made]
      /\ f.ledger = file.ledger /\ f.tenants = file.tenants /\ f.sessions = file.sessions
      /\ f.reflections = file.reflections /\ f.facts = file.facts
      /\ f.versions = file.versions /\ f.active = file.active /\ f.heads = file.heads
      /\ f = [file EXCEPT !.shape = f.shape]
      BY <1>1 DEF Files, WithShape
<1> HIDE DEF f
<1>3. file.shape \in [Tables -> {Standalone, Foreign} \cup 0..Len(Migrations)] BY <1>1 DEF Files
<1>4. f.shape[table] = made /\ \A t \in Tables \ {table} : f.shape[t] = file.shape[t]
      BY <1>2, <1>3
<1>5. f \in Files
    <2>1. f.shape \in [Tables -> {Standalone, Foreign} \cup 0..Len(Migrations)] BY <1>2, <1>3
    <2> QED BY <1>1, <1>2, <2>1 DEF Files
<1>6. made # Absent /\ ~(made > 0) /\ ~(file.shape[table] > 0) BY DEF Standalone, Foreign, Absent
<1>7. ShapesFollow(f)
    <2>1. ShapesFollow(file) BY DEF FileInv, FileIsSound
    <2> QED BY <2>1, <1>2, <1>4, <1>6 DEF ShapesFollow
<1>8. \A t \in Tables : Owned(f, t) => Owned(file, t) BY <1>4, <1>6 DEF Owned
<1>9. KeysHold(f)
    <2>1. KeysHold(file) BY DEF FileInv, FileIsSound
    <2>2. VersionRows(f) = VersionRows(file) BY <1>2 DEF VersionRows
    <2> QED BY <2>1, <2>2, <1>2, <1>8, LaterTables DEF KeysHold
<1>10. SessionsHaveTenants(f) /\ PointersHold(f)
       BY <1>2 DEF FileInv, FileIsSound, SessionsHaveTenants, PointersHold
<1> QED BY <1>2, <1>4, <1>5, <1>6, <1>7, <1>9, <1>10 DEF f

\* A write that makes no table and leaves the numbers alone.
LEMMA RowsKeepInv ==
    ASSUME FileInv, NEW f \in Files, Write(f), UNCHANGED <<opening, issued>>,
           f.shape = file.shape, f.ledger = file.ledger, f.heads = file.heads,
           file.tenants \subseteq f.tenants,
           SessionsHaveTenants(f), PointersHold(f), KeysHold(f)
    PROVE  FileInv'
<1>1. ShapesFollow(f) BY DEF FileInv, FileIsSound, ShapesFollow
<1>2. opening' \in 0..Opened /\ issued' \in [Tenants -> 0..LastNumber]
      BY DEF FileInv, MigrationTypeOK
<1>3. /\ \A t \in Tenants : issued'[t] <= f.heads[t]
      /\ f.shape[Heads8] = Absent => opening' < 3 /\ \A t \in Tenants : issued'[t] = 0
      /\ f.ledger = 7 => \A t \in Tenants : issued'[t] = 0 \/ t \in f.tenants
      BY DEF FileInv, FileIsSound, NumbersNeedTheirTable
<1> QED BY <1>1, <1>2, <1>3, WriteKeepsInv

LEMMA MadeKeepsInv ==
    ASSUME FileInv, NEW table \in Tables, Write(Made(table)), issued' = issued,
           opening' \in 0..Opened,
           opening' # opening => opening' < 3 \/ table = Heads8
    PROVE  FileInv'
<1>1. CASE file.shape[table] = Absent
    <2> DEFINE f == WithShape(table, Standalone)
    <2>1. Made(table) = f BY <1>1 DEF Made, WithShape
    <2>3. /\ f \in Files /\ ShapesFollow(f) /\ SessionsHaveTenants(f) /\ PointersHold(f)
          /\ KeysHold(f)
          /\ f.heads = file.heads /\ f.tenants = file.tenants /\ f.ledger = file.ledger
          /\ f.shape[table] # Absent
          /\ \A t \in Tables \ {table} : f.shape[t] = file.shape[t]
          BY <1>1, OnlyAbsentAreMade
    <2> HIDE DEF f
    <2>4. f.shape[Heads8] = Absent => file.shape[Heads8] = Absent /\ table # Heads8
          BY <2>3, LaterTables DEF Heads8
    <2>5. issued' \in [Tenants -> 0..LastNumber] BY DEF FileInv, MigrationTypeOK
    <2>6. f.shape[Heads8] = Absent => opening' < 3 /\ \A t \in Tenants : issued'[t] = 0
          BY <2>4 DEF FileInv, NumbersNeedTheirTable
    <2>7. f.ledger = 7 => \A t \in Tenants : issued'[t] = 0 \/ t \in f.tenants
          BY <2>3 DEF FileInv, NumbersNeedTheirTable
    <2>8. \A t \in Tenants : issued'[t] <= f.heads[t] BY <2>3 DEF FileInv, FileIsSound
    <2> QED BY <2>1, <2>3, <2>5, <2>6, <2>7, <2>8, WriteKeepsInv
<1>2. CASE file.shape[table] # Absent
    <2>1. Made(table) = file BY <1>2 DEF Made
    <2>2. file.shape[Heads8] = Absent => opening' < 3 /\ \A t \in Tenants : issued'[t] = 0
          BY <1>2 DEF FileInv, NumbersNeedTheirTable
    <2>3. issued' \in [Tenants -> 0..LastNumber] /\ file \in Files BY DEF FileInv, MigrationTypeOK
    <2> QED BY <2>1, <2>2, <2>3, WriteKeepsInv DEF FileInv, FileIsSound, NumbersNeedTheirTable
<1> QED BY <1>1, <1>2

LEMMA OpenMemoryKeepsInv == FileInv /\ OpenMemory => FileInv'
<1> SUFFICES ASSUME FileInv, OpenMemory PROVE FileInv' OBVIOUS
<1>1. PICK table \in {"run_reflections", "semantic_facts"} : Write(Made(table)) BY DEF OpenMemory
<1>2. table \in Tables BY LaterTables
<1>3. UNCHANGED <<opening, issued>> BY DEF OpenMemory
<1>4. opening' \in 0..Opened BY <1>3 DEF FileInv, MigrationTypeOK
<1> QED BY <1>1, <1>2, <1>3, <1>4, MadeKeepsInv

LEMMA RememberKeepsInv == FileInv /\ Remember => FileInv'
<1> SUFFICES ASSUME FileInv, Remember PROVE FileInv' OBVIOUS
<1>1. PICK r \in Tenants \X TenantSessions :
         \/ Write([file EXCEPT !.reflections = @ \cup {r}])
         \/ Write([file EXCEPT !.facts = @ \cup {r}])
      BY DEF Remember
<1>2. UNCHANGED <<opening, issued>> /\ KeysHold(file') BY DEF Remember
<1>3. file \in Files BY DEF FileInv, MigrationTypeOK
<1>4. ASSUME NEW f, f = [file EXCEPT !.reflections = @ \cup {r}]
                     \/ f = [file EXCEPT !.facts = @ \cup {r}], Write(f)
      PROVE  FileInv'
    <2>1. f \in Files
        <3>1. CASE f = [file EXCEPT !.reflections = @ \cup {r}]
            <4>1. file.reflections \cup {r} \in SUBSET (Tenants \X TenantSessions)
                  BY <1>3 DEF Files
            <4> QED BY <4>1, <3>1, <1>3 DEF Files
        <3>2. CASE f = [file EXCEPT !.facts = @ \cup {r}]
            <4>1. file.facts \cup {r} \in SUBSET (Tenants \X TenantSessions)
                  BY <1>3 DEF Files
            <4> QED BY <4>1, <3>2, <1>3 DEF Files
        <3> QED BY <3>1, <3>2, <1>4
    <2>2. /\ f.shape = file.shape /\ f.ledger = file.ledger /\ f.heads = file.heads
          /\ f.tenants = file.tenants /\ f.sessions = file.sessions
          /\ f.versions = file.versions /\ f.active = file.active
          BY <1>3, <1>4 DEF Files
    <2>3. KeysHold(f) BY <1>2, <1>4 DEF Write, KeysHold, Owned, VersionRows
    <2>4. SessionsHaveTenants(f) /\ PointersHold(f)
          BY <2>2 DEF FileInv, FileIsSound, SessionsHaveTenants, PointersHold
    <2> QED BY <2>1, <2>2, <2>3, <2>4, <1>2, <1>4, RowsKeepInv
<1> QED BY <1>1, <1>4

LEMMA MakeForeignKeepsInv == FileInv /\ MakeForeign => FileInv'
<1> SUFFICES ASSUME FileInv, MakeForeign PROVE FileInv' OBVIOUS
<1>1. PICK t \in {"run_reflections", "semantic_facts", "procedure_version_heads"} :
         file.shape[t] = Absent /\ Write(WithShape(t, Foreign))
      BY DEF MakeForeign, WithShape
<1>2. t \in Tables BY LaterTables
<1>3. UNCHANGED <<opening, issued>> BY DEF MakeForeign
<1> DEFINE f == WithShape(t, Foreign)
<1>4. /\ f \in Files /\ ShapesFollow(f) /\ SessionsHaveTenants(f) /\ PointersHold(f)
      /\ KeysHold(f)
      /\ f.heads = file.heads /\ f.tenants = file.tenants /\ f.ledger = file.ledger
      /\ f.shape[t] # Absent
      /\ \A u \in Tables \ {t} : f.shape[u] = file.shape[u]
      BY <1>1, <1>2, OnlyAbsentAreMade
<1> HIDE DEF f
<1>5. Write(f) BY <1>1 DEF f
<1>6. opening' \in 0..Opened /\ issued' \in [Tenants -> 0..LastNumber]
      BY <1>3 DEF FileInv, MigrationTypeOK
<1>7. f.shape[Heads8] = Absent => file.shape[Heads8] = Absent
      BY <1>4, LaterTables DEF Heads8
<1>8. /\ \A u \in Tenants : issued'[u] <= f.heads[u]
      /\ f.shape[Heads8] = Absent => opening' < 3 /\ \A u \in Tenants : issued'[u] = 0
      /\ f.ledger = 7 => \A u \in Tenants : issued'[u] = 0 \/ u \in f.tenants
      BY <1>3, <1>4, <1>7 DEF FileInv, FileIsSound, NumbersNeedTheirTable
<1> QED BY <1>4, <1>5, <1>6, <1>8, WriteKeepsInv

LEMMA OpenProceduresKeepsInv == FileInv /\ OpenProcedures => FileInv'
<1> SUFFICES ASSUME FileInv, OpenProcedures PROVE FileInv' OBVIOUS
<1> DEFINE table == <<"procedure_versions", "active_procedures", "procedure_version_heads">>
<1>1. /\ opening < Opened /\ opening' = opening + 1 /\ issued' = issued /\ opening \in 0..Opened
      /\ opening' \in 0..Opened
      BY DEF OpenProcedures, FileInv, MigrationTypeOK, Opened
<1>2. CASE opening < Len(table)
    <2>1. Write(Made(table[opening + 1])) BY <1>2 DEF OpenProcedures
    <2>2. opening \in 0..2 BY <1>1, <1>2
    <2>3. table[opening + 1] \in Tables
        <3>1. opening = 0 \/ opening = 1 \/ opening = 2 BY <2>2
        <3> QED BY <3>1, LaterTables
    <2>4. opening' < 3 \/ table[opening + 1] = Heads8 BY <1>1, <2>2 DEF Heads8
    <2> HIDE DEF table
    <2> QED BY <1>1, <2>1, <2>3, <2>4, MadeKeepsInv
<1>3. CASE ~(opening < Len(table))
    <2> DEFINE heads == [t \in Tenants |-> Max({file.heads[t], Newest(file, t)})]
               f == [file EXCEPT !.heads = heads]
    <2>1. Write(f) /\ Usable(file, Heads8) /\ KeysHold(file')
          BY <1>3 DEF OpenProcedures, Heads8
    <2>2. file \in Files BY DEF FileInv, MigrationTypeOK
    <2>3. \A t \in Tenants : /\ heads[t] \in 0..LastNumber /\ file.heads[t] <= heads[t]
        <3> TAKE t \in Tenants
        <3>1. file.heads[t] \in 0..LastNumber BY <2>2 DEF Files
        <3>2. Newest(file, t) \in 0..LastNumber BY <2>2, NewestIs
        <3>3. heads[t] = IF file.heads[t] <= Newest(file, t) THEN Newest(file, t) ELSE file.heads[t]
              BY <3>1, <3>2, MaxOfTwo
        <3> QED BY <3>1, <3>2, <3>3
    <2>4. heads \in [Tenants -> 0..LastNumber] BY <2>3
    <2> HIDE DEF heads
    <2>5. f \in Files BY <2>2, <2>4 DEF Files
    <2>6. /\ f.shape = file.shape /\ f.ledger = file.ledger /\ f.heads = heads
          /\ f.tenants = file.tenants /\ f.sessions = file.sessions
          /\ f.versions = file.versions /\ f.active = file.active
          BY <2>2 DEF Files
    <2> HIDE DEF f
    <2>7. KeysHold(f) BY <2>1 DEF Write, KeysHold, Owned, VersionRows
    <2>8. ShapesFollow(f) /\ SessionsHaveTenants(f) /\ PointersHold(f)
          BY <2>6 DEF FileInv, FileIsSound, SessionsHaveTenants, PointersHold, ShapesFollow
    <2>9. issued' \in [Tenants -> 0..LastNumber] BY <1>1 DEF FileInv, MigrationTypeOK
    <2>10. \A t \in Tenants : issued'[t] <= f.heads[t]
        <3> TAKE t \in Tenants
        <3>1. issued[t] \in Nat /\ file.heads[t] \in Nat /\ heads[t] \in Nat
              BY <2>2, <2>3, <2>9, <1>1 DEF Files
        <3>2. issued[t] <= file.heads[t] BY DEF FileInv, FileIsSound
        <3> QED BY <3>1, <3>2, <2>3, <2>6, <1>1
    <2>11. f.shape[Heads8] # Absent BY <2>1, <2>6 DEF Usable
    <2>12. f.ledger = 7 => \A t \in Tenants : issued'[t] = 0 \/ t \in f.tenants
           BY <1>1, <2>6 DEF FileInv, NumbersNeedTheirTable
    <2> QED BY <1>1, <2>1, <2>5, <2>7, <2>8, <2>9, <2>10, <2>11, <2>12, WriteKeepsInv
<1> QED BY <1>2, <1>3

LEMMA ProposeKeepsInv ==
    ASSUME FileInv, NEW t \in Tenants, NEW s \in TenantSessions, ProposeVersion(t, s)
    PROVE  FileInv'
<1> DEFINE n == file.heads[t] + 1
           f == [file EXCEPT !.versions[t][n] = s, !.heads[t] = n]
<1>1. file \in Files BY DEF FileInv, MigrationTypeOK
<1>2. /\ opening = Opened /\ opening' = opening /\ n <= LastNumber
      /\ Write(f) /\ KeysHold(file') /\ issued' = [issued EXCEPT ![t] = Max({@, n})]
      BY DEF ProposeVersion
<1>3. file.heads \in [Tenants -> 0..LastNumber] /\ n \in 1..LastNumber
      BY <1>1, <1>2, MigrationAssumption DEF Files
<1>4. file.versions \in [Tenants -> [1..LastNumber -> TenantSessions \cup {NoSession}]]
      BY <1>1 DEF Files
<1> HIDE DEF n
<1>5. /\ f.shape = file.shape /\ f.ledger = file.ledger
      /\ f.heads = [file.heads EXCEPT ![t] = n]
      /\ f.tenants = file.tenants /\ f.sessions = file.sessions
      /\ f.versions = [file.versions EXCEPT ![t][n] = s] /\ f.active = file.active
      /\ f = [file EXCEPT !.versions = f.versions, !.heads = f.heads]
      BY <1>1 DEF Files
<1> HIDE DEF f
<1>6. f.versions \in [Tenants -> [1..LastNumber -> TenantSessions \cup {NoSession}]]
      BY <1>3, <1>4, <1>5
<1>7. f.heads \in [Tenants -> 0..LastNumber] BY <1>3, <1>5
<1>8. f \in Files BY <1>1, <1>5, <1>6, <1>7 DEF Files
<1>9. KeysHold(f) BY <1>2 DEF Write, KeysHold, Owned, VersionRows
<1>10. ShapesFollow(f) /\ SessionsHaveTenants(f)
       BY <1>5 DEF FileInv, FileIsSound, SessionsHaveTenants, ShapesFollow
<1>11. PointersHold(f)
    <2> SUFFICES ASSUME NEW u \in Tenants, f.active[u] # 0
                 PROVE  f.versions[u][f.active[u]] # NoSession
        BY DEF PointersHold
    <2>1. file.active[u] \in 1..LastNumber BY <1>1, <1>5, MigrationAssumption DEF Files
    <2>2. file.versions[u][file.active[u]] # NoSession
          BY <2>1, <1>5 DEF FileInv, FileIsSound, PointersHold
    <2>3. f.versions[u][file.active[u]] \in {file.versions[u][file.active[u]], s}
          BY <2>1, <1>3, <1>4, <1>5
    <2> QED BY <2>2, <2>3, <1>5, MigrationAssumption
<1>12. /\ issued \in [Tenants -> 0..LastNumber] /\ issued[t] <= file.heads[t]
       BY DEF FileInv, MigrationTypeOK, FileIsSound
<1>13. Max({issued[t], n}) = n
    <2>1. issued[t] \in Nat /\ n \in Nat /\ issued[t] <= n
          BY <1>3, <1>12 DEF n
    <2> QED BY <2>1, MaxOfTwo
<1>14. issued' = [issued EXCEPT ![t] = n] BY <1>2, <1>13
<1>15. issued' \in [Tenants -> 0..LastNumber] BY <1>3, <1>12, <1>14
<1>16. \A u \in Tenants : issued'[u] <= f.heads[u]
       BY <1>3, <1>5, <1>12, <1>14 DEF FileInv, FileIsSound
<1>17. f.shape[Heads8] # Absent BY <1>2, <1>5 DEF FileInv, NumbersNeedTheirTable, Opened
<1>18. f.ledger = 7 => \A u \in Tenants : issued'[u] = 0 \/ u \in f.tenants
    <2> SUFFICES ASSUME file.ledger = 7, NEW u \in Tenants PROVE issued'[u] = 0 \/ u \in f.tenants
        BY <1>5
    <2>1. CASE u # t BY <2>1, <1>5, <1>12, <1>14 DEF FileInv, NumbersNeedTheirTable
    <2>2. CASE u = t
        <3>1. Owned(f, "procedure_versions")
            <4>1. f.shape["procedure_versions"] = 7
                  BY <1>5, <1>10, LaterTables DEF ShapesFollow, Absent
            <4> QED BY <4>1 DEF Owned
        <3>2. <<t, s>> \in VersionRows(f)
            <4>1. f.versions[t][n] = s
                <5>1. f.versions[t] = [file.versions[t] EXCEPT ![n] = s] BY <1>4, <1>5
                <5>2. file.versions[t] \in [1..LastNumber -> TenantSessions \cup {NoSession}]
                      BY <1>4
                <5> QED BY <5>1, <5>2, <1>3
            <4>2. <<t, s>> \in Tenants \X TenantSessions /\ <<t, s>>[1] = t /\ <<t, s>>[2] = s
                  OBVIOUS
            <4> QED BY <4>1, <4>2, <1>3 DEF VersionRows
        <3>3. <<t, s>> \in f.sessions BY <3>1, <3>2, <1>9 DEF KeysHold
        <3> QED BY <2>2, <3>3, <1>10 DEF SessionsHaveTenants
    <2> QED BY <2>1, <2>2
<1>19. Write(f) BY <1>2
<1>20. opening' \in 0..Opened BY <1>2 DEF Opened
<1> QED BY <1>8, <1>9, <1>10, <1>11, <1>15, <1>16, <1>17, <1>18, <1>19, <1>20, WriteKeepsInv

LEMMA ActivateKeepsInv ==
    ASSUME FileInv, NEW t \in Tenants, NEW n \in 1..LastNumber, ActivateVersion(t, n)
    PROVE  FileInv'
<1> DEFINE f == [file EXCEPT !.active[t] = n]
<1>1. file \in Files /\ file.active \in [Tenants -> 0..LastNumber]
      BY DEF FileInv, MigrationTypeOK, Files
<1>2. /\ file.versions[t][n] # NoSession /\ Write(f) /\ UNCHANGED <<opening, issued>>
      BY DEF ActivateVersion
<1>3. /\ f.shape = file.shape /\ f.ledger = file.ledger /\ f.heads = file.heads
      /\ f.tenants = file.tenants /\ f.sessions = file.sessions
      /\ f.reflections = file.reflections /\ f.facts = file.facts
      /\ f.versions = file.versions /\ f.active = [file.active EXCEPT ![t] = n]
      /\ f = [file EXCEPT !.active = f.active]
      BY <1>1 DEF Files
<1> HIDE DEF f
<1>4. f \in Files
    <2>1. f.active \in [Tenants -> 0..LastNumber] BY <1>1, <1>3, MigrationAssumption
    <2> QED BY <2>1, <1>1, <1>3 DEF Files
<1>5. PointersHold(f) BY <1>1, <1>2, <1>3 DEF FileInv, FileIsSound, PointersHold
<1>6. KeysHold(f) BY <1>3, <1>5 DEF FileInv, FileIsSound, KeysHold, PointersHold, Owned, VersionRows
<1>7. SessionsHaveTenants(f) BY <1>3 DEF FileInv, FileIsSound, SessionsHaveTenants
<1> QED BY <1>2, <1>3, <1>4, <1>5, <1>6, <1>7, RowsKeepInv

\* A file without some versions keeps the invariant, as long as the rows that it keeps do.
LEMMA FewerVersionsKeepKeys ==
    ASSUME NEW f \in Files, NEW rows, KeysHold(f), PointersHold(f)
    PROVE  KeysHold(WithoutVersions(f, rows))
<1> DEFINE g == WithoutVersions(f, rows)
<1>1. /\ g \in Files
      /\ g.shape = f.shape /\ g.tenants = f.tenants
      /\ g.sessions = f.sessions /\ g.reflections = f.reflections /\ g.facts = f.facts
      /\ g.heads = f.heads
      /\ VersionRows(g) \subseteq VersionRows(f)
      /\ PointersHold(g)
      BY VersionsGo
<1> HIDE DEF g
<1>2. KeysHold(g) BY <1>1 DEF KeysHold, Owned, PointersHold
<1> QED BY <1>2 DEF g

LEMMA ForgetKeepsInv ==
    ASSUME FileInv, NEW t \in Tenants, ForgetProcedures(t)
    PROVE  FileInv'
<1>1. /\ file \in Files /\ KeysHold(file) /\ PointersHold(file) /\ SessionsHaveTenants(file)
      /\ ShapesFollow(file) /\ file.heads \in [Tenants -> 0..LastNumber]
      /\ issued \in [Tenants -> 0..LastNumber] /\ opening \in 0..Opened
      BY DEF FileInv, MigrationTypeOK, FileIsSound, Files
<1>2. opening = Opened /\ opening' = opening BY DEF ForgetProcedures
<1>3. ASSUME NEW rows, Write(WithoutVersions(file, rows)), issued' = issued PROVE FileInv'
    <2> DEFINE f == WithoutVersions(file, rows)
    <2>1. /\ f \in Files /\ f.ledger = file.ledger /\ f.shape = file.shape
          /\ f.tenants = file.tenants /\ f.sessions = file.sessions /\ f.heads = file.heads
          /\ PointersHold(f) /\ KeysHold(f)
          BY <1>1, VersionsGo, FewerVersionsKeepKeys
    <2>2. Write(f) BY <1>3
    <2> HIDE DEF f
    <2>3. SessionsHaveTenants(f) BY <2>1, <1>1 DEF SessionsHaveTenants
    <2> QED BY <2>1, <2>2, <2>3, <1>2, <1>3, RowsKeepInv
<1>4. ASSUME Write([WithoutVersions(file, {t} \X TenantSessions) EXCEPT !.heads[t] = 0]),
             issued' = [issued EXCEPT ![t] = 0]
      PROVE  FileInv'
    <2> DEFINE g == WithoutVersions(file, {t} \X TenantSessions)
               f == [g EXCEPT !.heads[t] = 0]
    <2>1. /\ g \in Files /\ g.ledger = file.ledger /\ g.shape = file.shape
          /\ g.tenants = file.tenants /\ g.sessions = file.sessions /\ g.heads = file.heads
          /\ PointersHold(g) /\ KeysHold(g)
          BY <1>1, VersionsGo, FewerVersionsKeepKeys
    <2>2. Write(f) BY <1>4
    <2> HIDE DEF g
    <2>3. /\ f.ledger = g.ledger /\ f.shape = g.shape /\ f.tenants = g.tenants
          /\ f.sessions = g.sessions /\ f.reflections = g.reflections /\ f.facts = g.facts
          /\ f.versions = g.versions /\ f.active = g.active
          /\ f.heads = [g.heads EXCEPT ![t] = 0]
          /\ f = [g EXCEPT !.heads = f.heads]
          BY <2>1 DEF Files
    <2> HIDE DEF f
    <2>4. f.heads \in [Tenants -> 0..LastNumber] BY <2>1, <2>3, <1>1, MigrationAssumption
    <2>5. f \in Files BY <2>1, <2>3, <2>4 DEF Files
    <2>6. \A u \in Tenants : f.heads[u] # 0 => g.heads[u] # 0 BY <2>1, <2>3, <1>1
    <2>7. KeysHold(f) BY <2>1, <2>3, <2>6 DEF KeysHold, Owned, VersionRows
    <2>8. SessionsHaveTenants(f) /\ PointersHold(f) /\ ShapesFollow(f)
          BY <2>1, <2>3, <1>1 DEF SessionsHaveTenants, PointersHold, ShapesFollow
    <2>9. /\ issued' \in [Tenants -> 0..LastNumber]
          /\ \A u \in Tenants : issued'[u] = 0 \/ issued'[u] = issued[u]
          /\ \A u \in Tenants : issued'[u] <= f.heads[u]
        <3>1. \A u \in Tenants : issued[u] <= file.heads[u] BY DEF FileInv, FileIsSound
        <3> QED BY <3>1, <1>1, <1>4, <2>1, <2>3, MigrationAssumption
    <2>10. f.shape[Heads8] # Absent
           BY <1>2, <2>1, <2>3 DEF FileInv, NumbersNeedTheirTable, Opened
    <2>11. f.ledger = 7 => \A u \in Tenants : issued'[u] = 0 \/ u \in f.tenants
           BY <2>1, <2>3, <2>9 DEF FileInv, NumbersNeedTheirTable
    <2> QED BY <1>1, <1>2, <2>2, <2>5, <2>7, <2>8, <2>9, <2>10, <2>11, WriteKeepsInv
<1> QED BY <1>3, <1>4 DEF ForgetProcedures

LEMMA AddTenantKeepsInv ==
    ASSUME FileInv, NEW t \in Tenants, AddTenant(t)
    PROVE  FileInv'
<1> DEFINE f == [file EXCEPT !.tenants = @ \cup {t}]
<1>1. file \in Files BY DEF FileInv, MigrationTypeOK
<1>2. Write(f) /\ UNCHANGED <<opening, issued>> BY DEF AddTenant
<1>3. /\ f.shape = file.shape /\ f.ledger = file.ledger /\ f.heads = file.heads
      /\ f.tenants = file.tenants \cup {t} /\ f.sessions = file.sessions
      /\ f.reflections = file.reflections /\ f.facts = file.facts
      /\ f.versions = file.versions /\ f.active = file.active
      /\ f = [file EXCEPT !.tenants = f.tenants]
      BY <1>1 DEF Files
<1> HIDE DEF f
<1>4. f \in Files
    <2>1. f.tenants \in SUBSET Tenants BY <1>1, <1>3 DEF Files
    <2> QED BY <2>1, <1>1, <1>3 DEF Files
<1>5. SessionsHaveTenants(f) /\ PointersHold(f)
      BY <1>3 DEF FileInv, FileIsSound, SessionsHaveTenants, PointersHold
<1>6. KeysHold(f) BY <1>3 DEF FileInv, FileIsSound, KeysHold, Owned, VersionRows
<1> QED BY <1>2, <1>3, <1>4, <1>5, <1>6, RowsKeepInv

LEMMA AddSessionKeepsInv ==
    ASSUME FileInv, NEW t \in Tenants, NEW s \in TenantSessions, AddSession(t, s)
    PROVE  FileInv'
<1> DEFINE f == [file EXCEPT !.sessions = @ \cup {<<t, s>>}]
<1>1. file \in Files BY DEF FileInv, MigrationTypeOK
<1>2. Write(f) /\ UNCHANGED <<opening, issued>> /\ t \in file.tenants BY DEF AddSession
<1>3. /\ f.shape = file.shape /\ f.ledger = file.ledger /\ f.heads = file.heads
      /\ f.tenants = file.tenants /\ f.sessions = file.sessions \cup {<<t, s>>}
      /\ f.reflections = file.reflections /\ f.facts = file.facts
      /\ f.versions = file.versions /\ f.active = file.active
      /\ f = [file EXCEPT !.sessions = f.sessions]
      BY <1>1 DEF Files
<1> HIDE DEF f
<1>4. f \in Files
    <2>1. f.sessions \in SUBSET (Tenants \X TenantSessions) BY <1>1, <1>3 DEF Files
    <2> QED BY <2>1, <1>1, <1>3 DEF Files
<1>5. SessionsHaveTenants(f) /\ PointersHold(f)
      BY <1>2, <1>3 DEF FileInv, FileIsSound, SessionsHaveTenants, PointersHold
<1>6. KeysHold(f) BY <1>3 DEF FileInv, FileIsSound, KeysHold, Owned, VersionRows
<1> QED BY <1>2, <1>3, <1>4, <1>5, <1>6, RowsKeepInv

\* What the tables that the API owns lose with some sessions.
MemoryHasSessions(f) ==
    /\ Owned(f, "semantic_facts") => f.facts \subseteq f.sessions
    /\ Owned(f, "procedure_versions") => VersionRows(f) \subseteq f.sessions

LEMMA SessionsGo ==
    ASSUME NEW f \in Files, NEW rows, PointersHold(f), MemoryHasSessions(f)
    PROVE  LET g == WithoutSessions(f, rows) IN
           /\ g \in Files
           /\ g.ledger = f.ledger /\ g.shape = f.shape /\ g.tenants = f.tenants
           /\ g.sessions = f.sessions \ rows
           /\ g.reflections = f.reflections /\ g.heads = f.heads
           /\ PointersHold(g) /\ MemoryHasSessions(g)
<1> DEFINE e == [f EXCEPT !.sessions = @ \ rows,
                          !.facts = IF Owned(f, "semantic_facts") THEN @ \ rows ELSE @]
           g == WithoutSessions(f, rows)
<1>1. /\ e.ledger = f.ledger /\ e.shape = f.shape /\ e.tenants = f.tenants
      /\ e.sessions = f.sessions \ rows
      /\ e.facts = IF Owned(f, "semantic_facts") THEN f.facts \ rows ELSE f.facts
      /\ e.reflections = f.reflections /\ e.heads = f.heads
      /\ e.versions = f.versions /\ e.active = f.active
      /\ e = [f EXCEPT !.sessions = e.sessions, !.facts = e.facts]
      BY DEF Files
<1>2. g = IF Owned(f, "procedure_versions") THEN WithoutVersions(e, rows) ELSE e
      BY DEF WithoutSessions
<1> HIDE DEF e, g
<1>3. e \in Files
    <2>1. e.sessions \in SUBSET (Tenants \X TenantSessions)
          /\ e.facts \in SUBSET (Tenants \X TenantSessions)
          BY <1>1 DEF Files
    <2> QED BY <2>1, <1>1 DEF Files
<1>4. /\ VersionRows(e) = VersionRows(f) /\ PointersHold(e)
      /\ \A table : Owned(e, table) = Owned(f, table)
      BY <1>1 DEF VersionRows, PointersHold, Owned
<1>5. Owned(e, "semantic_facts") => e.facts \subseteq e.sessions
      BY <1>1, <1>4 DEF MemoryHasSessions
<1>6. CASE Owned(f, "procedure_versions")
    <2>1. /\ g \in Files
          /\ g.ledger = e.ledger /\ g.shape = e.shape /\ g.tenants = e.tenants
          /\ g.sessions = e.sessions /\ g.reflections = e.reflections /\ g.facts = e.facts
          /\ g.heads = e.heads
          /\ VersionRows(g) \subseteq VersionRows(e) \ rows
          /\ PointersHold(g)
          BY <1>2, <1>3, <1>4, <1>6, VersionsGo
    <2>2. MemoryHasSessions(g)
          BY <2>1, <1>1, <1>4, <1>5, <1>6 DEF MemoryHasSessions, Owned
    <2> QED BY <2>1, <2>2, <1>1 DEF g
<1>7. CASE ~Owned(f, "procedure_versions")
    <2>1. g = e BY <1>2, <1>7
    <2>2. MemoryHasSessions(e) BY <1>4, <1>5, <1>7 DEF MemoryHasSessions
    <2> QED BY <2>1, <2>2, <1>1, <1>3, <1>4 DEF g
<1> QED BY <1>6, <1>7

LEMMA EndSessionKeepsInv ==
    ASSUME FileInv, NEW t \in Tenants, NEW s \in TenantSessions, EndApiSession(t, s)
    PROVE  FileInv'
<1> DEFINE e == [file EXCEPT !.reflections = @ \ {<<t, s>>}]
           f == WithoutSessions(e, {<<t, s>>})
<1>1. file \in Files BY DEF FileInv, MigrationTypeOK
<1>2. Write(f) /\ UNCHANGED <<opening, issued>> BY DEF EndApiSession
<1>3. /\ e.shape = file.shape /\ e.ledger = file.ledger /\ e.heads = file.heads
      /\ e.tenants = file.tenants /\ e.sessions = file.sessions
      /\ e.reflections \subseteq file.reflections /\ e.facts = file.facts
      /\ e.versions = file.versions /\ e.active = file.active
      /\ e = [file EXCEPT !.reflections = e.reflections]
      BY <1>1 DEF Files
<1> HIDE DEF e
<1>4. e \in Files
    <2>1. e.reflections \in SUBSET (Tenants \X TenantSessions) BY <1>1, <1>3 DEF Files
    <2> QED BY <2>1, <1>1, <1>3 DEF Files
<1>5. PointersHold(e) /\ MemoryHasSessions(e)
      BY <1>3 DEF FileInv, FileIsSound, PointersHold, MemoryHasSessions, KeysHold, Owned,
                  VersionRows
<1>6. /\ f \in Files
      /\ f.ledger = e.ledger /\ f.shape = e.shape /\ f.tenants = e.tenants
      /\ f.sessions = e.sessions \ {<<t, s>>}
      /\ f.reflections = e.reflections /\ f.heads = e.heads
      /\ PointersHold(f) /\ MemoryHasSessions(f)
      BY <1>4, <1>5, SessionsGo
<1> HIDE DEF f
<1>7. KeysHold(f)
    <2>1. KeysHold(file) BY DEF FileInv, FileIsSound
    <2> QED BY <2>1, <1>3, <1>6 DEF KeysHold, Owned, MemoryHasSessions, PointersHold
<1>8. SessionsHaveTenants(f) BY <1>3, <1>6 DEF FileInv, FileIsSound, SessionsHaveTenants
<1> QED BY <1>2, <1>3, <1>6, <1>7, <1>8, RowsKeepInv

LEMMA ForgetSessionKeepsInv ==
    ASSUME FileInv, NEW t \in Tenants, NEW s \in TenantSessions, ForgetSession(t, s)
    PROVE  FileInv'
<1> DEFINE e == [file EXCEPT !.reflections = @ \ {<<t, s>>}, !.facts = @ \ {<<t, s>>}]
           f == WithoutVersions(e, {<<t, s>>})
<1>1. file \in Files BY DEF FileInv, MigrationTypeOK
<1>2. Write(f) /\ UNCHANGED <<opening, issued>> BY DEF ForgetSession
<1>3. /\ e.shape = file.shape /\ e.ledger = file.ledger /\ e.heads = file.heads
      /\ e.tenants = file.tenants /\ e.sessions = file.sessions
      /\ e.reflections \subseteq file.reflections /\ e.facts \subseteq file.facts
      /\ e.versions = file.versions /\ e.active = file.active
      /\ e = [file EXCEPT !.reflections = e.reflections, !.facts = e.facts]
      BY <1>1 DEF Files
<1> HIDE DEF e
<1>4. e \in Files
    <2>1. e.reflections \in SUBSET (Tenants \X TenantSessions)
          /\ e.facts \in SUBSET (Tenants \X TenantSessions)
          BY <1>1, <1>3 DEF Files
    <2> QED BY <2>1, <1>1, <1>3 DEF Files
<1>5. PointersHold(e) /\ KeysHold(e)
    <2>1. PointersHold(e) BY <1>3 DEF FileInv, FileIsSound, PointersHold
    <2>2. KeysHold(file) BY DEF FileInv, FileIsSound
    <2>3. VersionRows(e) = VersionRows(file) BY <1>3 DEF VersionRows
    <2> QED BY <2>1, <2>2, <2>3, <1>3 DEF KeysHold, Owned
<1>6. /\ f \in Files
      /\ f.ledger = e.ledger /\ f.shape = e.shape /\ f.tenants = e.tenants
      /\ f.sessions = e.sessions /\ f.heads = e.heads
      /\ PointersHold(f) /\ KeysHold(f)
      BY <1>4, <1>5, VersionsGo, FewerVersionsKeepKeys
<1> HIDE DEF f
<1>7. SessionsHaveTenants(f) BY <1>3, <1>6 DEF FileInv, FileIsSound, SessionsHaveTenants
<1> QED BY <1>2, <1>3, <1>6, <1>7, RowsKeepInv

LEMMA DeleteTenantKeepsInv ==
    ASSUME FileInv, NEW t \in Tenants, DeleteTenant(t)
    PROVE  FileInv'
<1> DEFINE rows == {t} \X TenantSessions
           e == [file EXCEPT !.reflections = @ \ rows, !.tenants = @ \ {t}]
           g == WithoutSessions(e, rows)
           f == IF Owned(file, Heads8) THEN [g EXCEPT !.heads[t] = 0] ELSE g
<1>1. /\ file \in Files /\ file.heads \in [Tenants -> 0..LastNumber]
      /\ issued \in [Tenants -> 0..LastNumber] /\ opening \in 0..Opened
      BY DEF FileInv, MigrationTypeOK, Files
<1>2. Write(f) /\ issued' = [issued EXCEPT ![t] = 0] /\ opening' = opening
      BY DEF DeleteTenant, Heads8
<1>3. /\ e.shape = file.shape /\ e.ledger = file.ledger /\ e.heads = file.heads
      /\ e.tenants = file.tenants \ {t} /\ e.sessions = file.sessions
      /\ e.reflections = file.reflections \ rows /\ e.facts = file.facts
      /\ e.versions = file.versions /\ e.active = file.active
      /\ e = [file EXCEPT !.reflections = e.reflections, !.tenants = e.tenants]
      BY <1>1 DEF Files
<1> HIDE DEF e
<1>4. e \in Files
    <2>1. e.reflections \in SUBSET (Tenants \X TenantSessions) /\ e.tenants \in SUBSET Tenants
          BY <1>1, <1>3 DEF Files
    <2> QED BY <2>1, <1>1, <1>3 DEF Files
<1>5. PointersHold(e) /\ MemoryHasSessions(e)
      BY <1>3 DEF FileInv, FileIsSound, PointersHold, MemoryHasSessions, KeysHold, Owned,
                  VersionRows
<1>6. /\ g \in Files
      /\ g.ledger = e.ledger /\ g.shape = e.shape /\ g.tenants = e.tenants
      /\ g.sessions = e.sessions \ rows
      /\ g.reflections = e.reflections /\ g.heads = e.heads
      /\ PointersHold(g) /\ MemoryHasSessions(g)
      BY <1>4, <1>5, SessionsGo
<1> HIDE DEF g
<1>7. /\ f.ledger = g.ledger /\ f.shape = g.shape /\ f.tenants = g.tenants
      /\ f.sessions = g.sessions /\ f.reflections = g.reflections /\ f.facts = g.facts
      /\ f.versions = g.versions /\ f.active = g.active
      /\ f.heads \in {g.heads, [g.heads EXCEPT ![t] = 0]}
      /\ Owned(file, Heads8) => f.heads = [g.heads EXCEPT ![t] = 0]
      /\ f = [g EXCEPT !.heads = f.heads]
      BY <1>6 DEF Files
<1> HIDE DEF f
<1>8. /\ f.heads \in [Tenants -> 0..LastNumber]
      /\ \A u \in Tenants : u # t => f.heads[u] = file.heads[u]
      /\ Owned(file, Heads8) => f.heads[t] = 0
      BY <1>1, <1>3, <1>6, <1>7, MigrationAssumption
<1>9. f \in Files BY <1>6, <1>7, <1>8 DEF Files
<1>10. PointersHold(f) /\ MemoryHasSessions(f)
       BY <1>6, <1>7 DEF PointersHold, MemoryHasSessions, Owned, VersionRows
<1>11. \A r \in Tenants \X TenantSessions : r \notin rows => r[1] # t OBVIOUS
<1>12. SessionsHaveTenants(f)
    <2>1. SessionsHaveTenants(file) /\ file.sessions \subseteq Tenants \X TenantSessions
          BY <1>1 DEF FileInv, FileIsSound, Files
    <2> HIDE DEF rows
    <2> QED BY <2>1, <1>3, <1>6, <1>7, <1>11 DEF SessionsHaveTenants
<1>13. KeysHold(f)
    <2>1. KeysHold(file) BY DEF FileInv, FileIsSound
    <2>2. file.reflections \subseteq Tenants \X TenantSessions BY <1>1 DEF Files
    <2>3. Owned(f, "run_reflections") => \A r \in f.reflections : r[1] \in f.tenants
        <3> HIDE DEF rows
        <3> QED BY <2>1, <2>2, <1>3, <1>6, <1>7, <1>11 DEF KeysHold, Owned
    <2>4. Owned(f, Heads8) => \A u \in Tenants : f.heads[u] # 0 => u \in f.tenants
          BY <2>1, <1>3, <1>6, <1>7, <1>8 DEF KeysHold, Owned, Heads8
    <2> QED BY <2>3, <2>4, <1>10 DEF KeysHold, MemoryHasSessions, PointersHold, Heads8
<1>14. ShapesFollow(f) BY <1>3, <1>6, <1>7 DEF FileInv, FileIsSound, ShapesFollow
<1>15. /\ issued' \in [Tenants -> 0..LastNumber]
       /\ issued'[t] = 0 /\ \A u \in Tenants : u # t => issued'[u] = issued[u]
       BY <1>1, <1>2, MigrationAssumption
<1>16. \A u \in Tenants : issued'[u] <= f.heads[u]
    <2> TAKE u \in Tenants
    <2>1. issued[u] <= file.heads[u] BY DEF FileInv, FileIsSound
    <2>2. f.heads[u] \in Nat BY <1>8
    <2> QED BY <2>1, <2>2, <1>8, <1>15
<1>17. f.shape[Heads8] = Absent => opening' < 3 /\ \A u \in Tenants : issued'[u] = 0
       BY <1>2, <1>3, <1>6, <1>7, <1>15 DEF FileInv, NumbersNeedTheirTable
<1>18. f.ledger = 7 => \A u \in Tenants : issued'[u] = 0 \/ u \in f.tenants
       BY <1>3, <1>6, <1>7, <1>15 DEF FileInv, NumbersNeedTheirTable
<1>19. opening' \in 0..Opened BY <1>1, <1>2
<1> QED BY <1>2, <1>9, <1>10, <1>12, <1>13, <1>14, <1>15, <1>16, <1>17, <1>18, <1>19, WriteKeepsInv

-----------------------------------------------------------------------------
\* What one migration makes of a file.
LEMMA MigratedIs ==
    ASSUME NEW f \in Files, NEW m \in 1..8, m = f.ledger + 1, NEW from \in 0..8,
           ShapesFollow(f), SessionsHaveTenants(f), PointersHold(f)
    PROVE  LET g == Migrated(f, m, from) IN
           /\ g \in Files /\ g.ledger = m
           /\ ShapesFollow(g) /\ SessionsHaveTenants(g) /\ PointersHold(g)
           /\ \A t \in Tenants : \/ f.heads[t] <= g.heads[t]
                                 \/ m = 8 /\ from >= 7 /\ t \notin f.tenants
<1> DEFINE heads == IF m = 8 THEN Heads(f, from) ELSE f.heads
           rows == Brought(f, m)
           g == Migrated(f, m, from)
<1>1. rows \subseteq Tenants \X TenantSessions BY DEF Brought, Files, VersionRows
<1>2. f.heads \in [Tenants -> 0..LastNumber] BY DEF Files
<1>3. \A t \in Tenants : /\ heads[t] \in 0..LastNumber
                         /\ \/ f.heads[t] <= heads[t]
                            \/ m = 8 /\ from >= 7 /\ t \notin f.tenants
    <2> TAKE t \in Tenants
    <2>1. f.heads[t] \in 0..LastNumber BY <1>2
    <2>2. Newest(f, t) \in 0..LastNumber BY NewestIs
    <2>3. Max({f.heads[t], Newest(f, t)}) = IF f.heads[t] <= Newest(f, t)
                                            THEN Newest(f, t) ELSE f.heads[t]
          BY <2>1, <2>2, MaxOfTwo
    <2>4. CASE m = 8
        <3>1. heads[t] = IF from >= 7 /\ t \notin f.tenants THEN Newest(f, t)
                         ELSE Max({f.heads[t], Newest(f, t)})
              BY <2>4 DEF Heads
        <3> QED BY <3>1, <2>1, <2>2, <2>3, <2>4
    <2>5. CASE m # 8 BY <2>1, <2>5
    <2> QED BY <2>4, <2>5
<1>4. heads \in [Tenants -> 0..LastNumber]
    <2>1. heads = [t \in Tenants |-> heads[t]] BY <1>2 DEF Heads
    <2> HIDE DEF heads
    <2> QED BY <2>1, <1>3
<1>5. /\ g.ledger = m
      /\ g.shape = [t \in Tables |-> IF t \in Migrations[m] THEN m ELSE f.shape[t]]
      /\ g.heads = heads
      /\ g.tenants = f.tenants \cup {r[1] : r \in rows} \cup {t \in Tenants : m = 8 /\ heads[t] # 0}
      /\ g.sessions = IF m = 1 THEN f.sessions ELSE f.sessions \cup rows
      /\ g.reflections = f.reflections /\ g.facts = f.facts
      /\ g.versions = f.versions /\ g.active = f.active
      /\ g = [f EXCEPT !.ledger = m, !.shape = g.shape, !.heads = heads, !.tenants = g.tenants,
                       !.sessions = g.sessions]
      BY DEF Migrated, Files
<1> HIDE DEF g, rows, heads
<1>6. g \in Files
    <2>1. f.shape \in [Tables -> {Standalone, Foreign} \cup 0..Len(Migrations)] BY DEF Files
    <2>2. g.shape \in [Tables -> {Standalone, Foreign} \cup 0..Len(Migrations)]
        <3>1. \A t \in Tables : (IF t \in Migrations[m] THEN m ELSE f.shape[t])
                                 \in {Standalone, Foreign} \cup 0..Len(Migrations)
              BY <2>1, LaterTables
        <3> QED BY <3>1, <1>5
    <2>3. g.tenants \in SUBSET Tenants
        <3>1. \A r \in rows : r[1] \in Tenants BY <1>1
        <3>2. {r[1] : r \in rows} \subseteq Tenants BY <3>1
        <3>3. f.tenants \subseteq Tenants BY DEF Files
        <3>4. {t \in Tenants : m = 8 /\ heads[t] # 0} \subseteq Tenants OBVIOUS
        <3> QED BY <3>2, <3>3, <3>4, <1>5, Zenon
    <2>4. g.sessions \in SUBSET (Tenants \X TenantSessions) BY <1>1, <1>5 DEF Files
    <2>5. m \in 0..Len(Migrations) BY LaterTables
    <2> QED BY <1>4, <1>5, <2>2, <2>3, <2>4, <2>5 DEF Files
<1>7. ShapesFollow(g)
    <2> SUFFICES ASSUME NEW t \in Tables, ShapeAfter(t, m) # Absent
                 PROVE  g.shape[t] = ShapeAfter(t, m)
        BY <1>5 DEF ShapesFollow
    <2>0. m \in Nat /\ m > 0 OBVIOUS
    <2>1. CASE t \in Migrations[m]
        <3>1. ShapeAfter(t, m) = m BY <2>0, <2>1, ShapesOfMigrations
        <3> QED BY <3>1, <2>1, <1>5
    <2>2. CASE t \notin Migrations[m]
        <3>1. ShapeAfter(t, m) = ShapeAfter(t, m - 1) BY <2>0, <2>2, ShapesOfMigrations
        <3>2. m - 1 = f.ledger BY DEF Files
        <3> QED BY <2>2, <3>1, <3>2, <1>5 DEF ShapesFollow
    <2> QED BY <2>1, <2>2
<1>8. SessionsHaveTenants(g)
    <2> SUFFICES ASSUME NEW r \in g.sessions PROVE r[1] \in g.tenants BY DEF SessionsHaveTenants
    <2>1. r \in f.sessions \/ r \in rows BY <1>5
    <2> QED BY <2>1, <1>5 DEF SessionsHaveTenants
<1>9. PointersHold(g) BY <1>5 DEF PointersHold
<1> QED BY <1>3, <1>5, <1>6, <1>7, <1>8, <1>9 DEF g

LEMMA RunMigrationKeepsInv == FileInv /\ RunMigration => FileInv'
<1> SUFFICES ASSUME FileInv, RunMigration PROVE FileInv' OBVIOUS
<1> DEFINE f == migrating.file
           m == f.ledger + 1
           g == Migrated(f, m, migrating.from)
<1>1. /\ migrating \in [release : 0..8, file : Files, from : 0..8]
      /\ issued \in [Tenants -> 0..LastNumber]
      BY DEF FileInv, MigrationTypeOK
<1>2. /\ f \in Files /\ f.ledger \in 0..8 /\ migrating.from \in 0..8 /\ migrating.release \in 0..8
      /\ f.heads \in [Tenants -> 0..LastNumber]
      BY <1>1, LaterTables DEF Files
<1>3. /\ m <= migrating.release /\ migrating' = [migrating EXCEPT !.file = g]
      /\ UNCHANGED <<file, opening, issued>>
      BY DEF RunMigration
<1>4. m \in 1..8 /\ migrating.release # 0 BY <1>2, <1>3
<1>5. /\ ShapesFollow(f) /\ SessionsHaveTenants(f) /\ PointersHold(f)
      /\ \A t \in Tenants : issued[t] <= f.heads[t]
      /\ migrating.from = file.ledger /\ migrating.from <= f.ledger
      /\ f.ledger = migrating.from => f = file
      /\ migrating.release < 8 => file.shape[Heads8] = Absent
      BY <1>4 DEF FileInv, MigrationIsSound, Free
<1>6. /\ g \in Files /\ g.ledger = m
      /\ ShapesFollow(g) /\ SessionsHaveTenants(g) /\ PointersHold(g)
      /\ \A t \in Tenants : \/ f.heads[t] <= g.heads[t]
                            \/ m = 8 /\ migrating.from >= 7 /\ t \notin f.tenants
    <2>1. /\ f \in Files /\ m \in 1..8 /\ migrating.from \in 0..8
          /\ ShapesFollow(f) /\ SessionsHaveTenants(f) /\ PointersHold(f)
          BY <1>2, <1>4, <1>5
    <2>2. m = f.ledger + 1 OBVIOUS
    <2> HIDE DEF f, m
    <2> QED BY <2>1, <2>2, MigratedIs
<1> HIDE DEF g
<1>7. /\ migrating'.release = migrating.release /\ migrating'.from = migrating.from
      /\ migrating'.file = g
      /\ migrating' \in [release : 0..8, file : Files, from : 0..8]
      BY <1>1, <1>3, <1>6
<1>8. \A t \in Tenants : issued[t] <= g.heads[t]
    <2> TAKE t \in Tenants
    <2>1. /\ g.heads[t] \in 0..LastNumber /\ issued[t] \in 0..LastNumber
          /\ f.heads[t] \in 0..LastNumber
          BY <1>1, <1>2, <1>6 DEF Files
    <2>2. CASE f.heads[t] <= g.heads[t] BY <2>1, <2>2, <1>5, MigrationAssumption
    <2>3. CASE m = 8 /\ migrating.from >= 7 /\ t \notin f.tenants
        <3>1. f.ledger = 7 /\ migrating.from = 7 BY <2>3, <1>2, <1>5
        <3>2. f = file /\ file.ledger = 7 BY <3>1, <1>5
        <3>3. issued[t] = 0 BY <3>2, <2>3 DEF FileInv, NumbersNeedTheirTable
        <3> QED BY <3>3, <2>1
    <2> QED BY <2>2, <2>3, <1>6
<1>9. MigrationTypeOK' BY <1>3, <1>7 DEF FileInv, MigrationTypeOK
<1>10. FileIsSound'
       BY <1>3 DEF FileInv, FileIsSound, ShapesFollow, SessionsHaveTenants, PointersHold, KeysHold,
                   Owned, VersionRows
<1>11. NumbersNeedTheirTable' BY <1>3 DEF FileInv, NumbersNeedTheirTable
<1>12. MigrationIsSound'
    <2>1. ~Free' BY <1>4, <1>7 DEF Free
    <2>2. m > migrating.from /\ m \in Int /\ migrating.from \in Int BY <1>2, <1>5
    <2>3. Free' = FALSE BY <2>1
    <2> HIDE DEF m
    <2>4. /\ ShapesFollow(migrating'.file) /\ SessionsHaveTenants(migrating'.file)
          /\ PointersHold(migrating'.file)
          BY <1>6, <1>7
    <2>5. \A t \in Tenants : issued'[t] <= migrating'.file.heads[t] BY <1>3, <1>7, <1>8
    <2>6. migrating'.file.ledger # migrating'.from /\ migrating'.from <= migrating'.file.ledger
          BY <1>6, <1>7, <2>2
    <2> QED BY <1>3, <1>5, <1>7, <2>3, <2>4, <2>5, <2>6
            DEF MigrationIsSound, ShapesFollow, SessionsHaveTenants, PointersHold
<1> QED BY <1>9, <1>10, <1>11, <1>12 DEF FileInv

LEMMA BeginKeepsInv ==
    ASSUME FileInv, NEW release \in Releases, BeginMigration(release)
    PROVE  FileInv'
<1>1. /\ migrating' = [release |-> release, file |-> file, from |-> file.ledger]
      /\ UNCHANGED <<file, opening, issued>>
      /\ release < 8 => file.shape[Heads8] = Absent
      BY DEF BeginMigration, Heads8
<1>2. release \in 1..8 BY ReleaseAssumption, LaterTables
<1>3. file \in Files /\ file.ledger \in 0..8 BY LaterTables DEF FileInv, MigrationTypeOK, Files
<1>4. MigrationTypeOK' BY <1>1, <1>2, <1>3 DEF FileInv, MigrationTypeOK
<1>5. FileIsSound' BY <1>1 DEF FileInv, FileIsSound, ShapesFollow, SessionsHaveTenants,
                               PointersHold, KeysHold, Owned, VersionRows
<1>6. NumbersNeedTheirTable' BY <1>1 DEF FileInv, NumbersNeedTheirTable
<1>7. MigrationIsSound'
      BY <1>1, <1>2, <1>3 DEF FileInv, FileIsSound, MigrationIsSound, ShapesFollow,
                              SessionsHaveTenants, PointersHold, Free
<1> QED BY <1>4, <1>5, <1>6, <1>7 DEF FileInv

LEMMA CommitKeepsInv == FileInv /\ CommitMigration => FileInv'
<1> SUFFICES ASSUME FileInv, CommitMigration PROVE FileInv' OBVIOUS
<1>1. /\ ~Free /\ Current(migrating.file, migrating.release) /\ file' = migrating.file
      /\ migrating' = [release |-> 0, file |-> file', from |-> 0]
      /\ UNCHANGED <<opening, issued>>
      BY DEF CommitMigration
<1>2. /\ migrating \in [release : 0..8, file : Files, from : 0..8] BY DEF FileInv, MigrationTypeOK
<1>3. MigrationTypeOK' BY <1>1, <1>2 DEF FileInv, MigrationTypeOK
<1>4. FileIsSound'
    <2>1. KeysHold(migrating.file) BY <1>1 DEF Current
    <2> QED BY <1>1, <2>1 DEF FileInv, MigrationIsSound, FileIsSound, ShapesFollow,
                    SessionsHaveTenants, PointersHold, KeysHold, Owned, VersionRows
<1>5. NumbersNeedTheirTable'
    <2>1. migrating.file.ledger = migrating.release /\ migrating.release \in 1..8
          BY <1>1, <1>2 DEF Current, Free
    <2>2. CASE migrating.release < 8
        <3>1. file.shape[Heads8] = Absent BY <2>2, <1>1 DEF FileInv, MigrationIsSound
        <3>2. opening < 3 /\ \A t \in Tenants : issued[t] = 0
              BY <3>1 DEF FileInv, NumbersNeedTheirTable
        <3> QED BY <3>2, <1>1 DEF NumbersNeedTheirTable
    <2>3. CASE migrating.release = 8
        <3>1. migrating.file.shape[Heads8] = 8
              BY <2>1, <2>3, LaterTables DEF FileInv, MigrationIsSound, ShapesFollow, Absent, Heads8
        <3> QED BY <3>1, <2>1, <2>3, <1>1 DEF NumbersNeedTheirTable, Absent
    <2> QED BY <2>1, <2>2, <2>3
<1>6. MigrationIsSound'
      BY <1>1, <1>4 DEF MigrationIsSound, FileIsSound, ShapesFollow, SessionsHaveTenants,
                        PointersHold, Free
<1> QED BY <1>3, <1>4, <1>5, <1>6 DEF FileInv

LEMMA RollBackKeepsInv == FileInv /\ RollBack => FileInv'
<1> SUFFICES ASSUME FileInv, RollBack PROVE FileInv' OBVIOUS
<1>1. /\ migrating' = [release |-> 0, file |-> file, from |-> 0]
      /\ UNCHANGED <<file, opening, issued>>
      BY DEF RollBack
<1>2. MigrationTypeOK' BY <1>1 DEF FileInv, MigrationTypeOK
<1>3. FileIsSound' BY <1>1 DEF FileInv, FileIsSound, ShapesFollow, SessionsHaveTenants,
                               PointersHold, KeysHold, Owned, VersionRows
<1>4. NumbersNeedTheirTable' BY <1>1 DEF FileInv, NumbersNeedTheirTable
<1>5. MigrationIsSound'
      BY <1>1, <1>3 DEF MigrationIsSound, FileIsSound, ShapesFollow, SessionsHaveTenants,
                        PointersHold, Free
<1> QED BY <1>2, <1>3, <1>4, <1>5 DEF FileInv

LEMMA CloseKeepsInv == FileInv /\ CloseProcedures => FileInv'
<1> SUFFICES ASSUME FileInv, CloseProcedures PROVE FileInv' OBVIOUS
<1>1. opening' = 0 /\ UNCHANGED <<file, migrating, issued>> BY DEF CloseProcedures
<1>2. MigrationTypeOK' BY <1>1 DEF FileInv, MigrationTypeOK, Opened
<1>3. FileIsSound' BY <1>1 DEF FileInv, FileIsSound, ShapesFollow, SessionsHaveTenants,
                               PointersHold, KeysHold, Owned, VersionRows
<1>4. NumbersNeedTheirTable' BY <1>1 DEF FileInv, NumbersNeedTheirTable
<1>5. MigrationIsSound'
      BY <1>1 DEF FileInv, MigrationIsSound, ShapesFollow, SessionsHaveTenants, PointersHold, Free
<1> QED BY <1>2, <1>3, <1>4, <1>5 DEF FileInv

LEMMA UnchangedKeepsInv == FileInv /\ UNCHANGED migrationVars => FileInv'
BY DEF migrationVars, FileInv, MigrationTypeOK, FileIsSound, NumbersNeedTheirTable,
       MigrationIsSound, ShapesFollow, SessionsHaveTenants, PointersHold, KeysHold, Owned,
       VersionRows, Free

LEMMA NewFileIsSound == MigrationInit => FileInv
<1> SUFFICES ASSUME MigrationInit PROVE FileInv OBVIOUS
<1>1. /\ opening \in {0, Opened}
      /\ file = [ledger |-> 0,
                 shape |-> [t \in Tables |->
                               IF opening = Opened /\ t \in Memory THEN Standalone ELSE Absent],
                 tenants |-> {}, sessions |-> {}, reflections |-> {}, facts |-> {},
                 versions |-> [t \in Tenants |-> [n \in 1..LastNumber |-> NoSession]],
                 active |-> [t \in Tenants |-> 0], heads |-> [t \in Tenants |-> 0]]
      /\ migrating = [release |-> 0, file |-> file, from |-> 0]
      /\ issued = [t \in Tenants |-> 0]
      BY DEF MigrationInit
<1>2. /\ file.ledger = 0 /\ file.tenants = {} /\ file.sessions = {} /\ file.reflections = {}
      /\ file.facts = {} /\ file.active = [t \in Tenants |-> 0]
      /\ file.heads = [t \in Tenants |-> 0]
      /\ file.versions = [t \in Tenants |-> [n \in 1..LastNumber |-> NoSession]]
      /\ file.shape = [t \in Tables |->
                          IF opening = Opened /\ t \in Memory THEN Standalone ELSE Absent]
      BY <1>1
<1>3. \A t \in Tables : ~Owned(file, t) BY <1>2 DEF Owned, Standalone, Absent
<1>4. file \in Files
    <2>1. file.shape \in [Tables -> {Standalone, Foreign} \cup 0..Len(Migrations)]
          BY <1>2, LaterTables DEF Absent
    <2>2. file.versions \in [Tenants -> [1..LastNumber -> TenantSessions \cup {NoSession}]]
        <3> DEFINE row == [n \in 1..LastNumber |-> NoSession]
        <3>1. row \in [1..LastNumber -> TenantSessions \cup {NoSession}] OBVIOUS
        <3>2. file.versions = [t \in Tenants |-> row] BY <1>2
        <3> HIDE DEF row
        <3> QED BY <3>1, <3>2
    <2>3. file.active \in [Tenants -> 0..LastNumber] /\ file.heads \in [Tenants -> 0..LastNumber]
          BY <1>2, MigrationAssumption
    <2>4. file.ledger \in 0..Len(Migrations) BY <1>2, LaterTables
    <2>5. file = [ledger |-> file.ledger, shape |-> file.shape, tenants |-> file.tenants,
                  sessions |-> file.sessions, reflections |-> file.reflections,
                  facts |-> file.facts, versions |-> file.versions, active |-> file.active,
                  heads |-> file.heads]
          BY <1>1
    <2> QED BY <1>2, <2>1, <2>2, <2>3, <2>4, <2>5 DEF Files
<1>5. MigrationTypeOK BY <1>1, <1>4, MigrationAssumption DEF MigrationTypeOK, Opened
<1>6. ShapesFollow(file) BY <1>2, ShapesOfMigrations DEF ShapesFollow, Absent
<1>7. SessionsHaveTenants(file) /\ PointersHold(file) /\ KeysHold(file)
      BY <1>2, <1>3, LaterTables DEF SessionsHaveTenants, PointersHold, KeysHold
<1>8. \A t \in Tenants : issued[t] <= file.heads[t] BY <1>1, <1>2
<1>9. NumbersNeedTheirTable
    <2>1. file.shape[Heads8] = Absent => opening # Opened
          BY <1>2, LaterTables DEF Heads8, Memory, Standalone, Absent
    <2> QED BY <2>1, <1>1, <1>2 DEF NumbersNeedTheirTable, Opened
<1>10. MigrationIsSound BY <1>1, <1>6, <1>7, <1>8 DEF MigrationIsSound, Free
<1> QED BY <1>5, <1>6, <1>7, <1>8, <1>9, <1>10 DEF FileInv, FileIsSound

\* The inductive invariant of the file, and of the transaction of a migration.
THEOREM FileInvariance == MigrationSpec => []FileInv
<1>1. FileInv /\ [MigrationNext]_migrationVars => FileInv'
    <2> SUFFICES ASSUME FileInv, [MigrationNext]_migrationVars PROVE FileInv' OBVIOUS
    <2>1. ASSUME NEW t \in Tenants,
                 \/ \E n \in 1..LastNumber : ActivateVersion(t, n)
                 \/ ForgetProcedures(t) \/ AddTenant(t) \/ DeleteTenant(t)
                 \/ \E s \in TenantSessions :
                        \/ ProposeVersion(t, s) \/ AddSession(t, s)
                        \/ EndApiSession(t, s) \/ ForgetSession(t, s)
          PROVE  FileInv'
          BY <2>1, ActivateKeepsInv, ForgetKeepsInv, AddTenantKeepsInv, DeleteTenantKeepsInv,
             ProposeKeepsInv, AddSessionKeepsInv, EndSessionKeepsInv, ForgetSessionKeepsInv
    <2>2. ASSUME NEW r \in Releases, BeginMigration(r) PROVE FileInv'
          BY <2>2, BeginKeepsInv
    <2>3. CASE \/ RunMigration \/ CommitMigration \/ RollBack
               \/ OpenMemory \/ Remember \/ OpenProcedures \/ CloseProcedures \/ MakeForeign
          BY <2>3, RunMigrationKeepsInv, CommitKeepsInv, RollBackKeepsInv, OpenMemoryKeepsInv,
             RememberKeepsInv, OpenProceduresKeepsInv, CloseKeepsInv, MakeForeignKeepsInv
    <2> QED BY <2>1, <2>2, <2>3, UnchangedKeepsInv DEF MigrationNext
<1> QED BY <1>1, NewFileIsSound, PTL DEF MigrationSpec

\* Whatever releases and command lines did to a file: its schema is that of its ledger, its rows
\* have their owners, and no version number comes back, for any number of tenants and sessions
\* and any set of releases (migrate).
THEOREM FilesStaySound == MigrationSpec => []FileStaysSound
<1>1. FileInv => FileStaysSound
      BY DEF FileInv, MigrationTypeOK, FileIsSound, ShapesFollow, FileStaysSound
<1> QED BY <1>1, FileInvariance, PTL
=============================================================================

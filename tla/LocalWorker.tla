---------------------------- MODULE LocalWorker ----------------------------
(***************************************************************************)
(* LocalWorker.process: the life of one delivery, from the item to the     *)
(* queue clean-up, one action per transaction or await.  Several processes *)
(* may poll one database; all of them bear the worker id of app.py, so     *)
(* only the lease id, fresh for each claim, tells two of them apart.       *)
(*                                                                         *)
(* Abstractions: the execution permits of the limiter are its answers,     *)
(* granted or not, renewed or not; the executor takes any time and returns *)
(* any result.  A clock is read some time before its transaction commits,  *)
(* at most Delay earlier.  An exception that escapes process() ends the    *)
(* process, and so does a shutdown that overruns its deadline: both are    *)
(* Crash, after which the process may start again.                         *)
(***************************************************************************)
EXTENDS WorkQueue

CONSTANTS
    Processes,      \* processes that run a worker
    WorkerId,       \* "worker-local"
    LeaseTerm,      \* lease_seconds of an execution
    BlockedTerm,    \* lease_seconds of a claim the limiter did not allow
    Delay           \* bound of the model: age of a clock reading in use

ASSUME WorkerAssumption ==
    /\ WorkerId \in WorkerIds
    /\ {LeaseTerm, BlockedTerm} \subseteq LeaseSeconds
    /\ Delay \in Nat

VARIABLES
    now,       \* the clock
    workers    \* what each process is doing

Readings == {t \in Time : now - Delay <= t /\ t <= now}

Outcomes == [state : {"completed", "failed", "cancelled"},
             payload : Answers \cup Failures \cup {NoPayload}]

NoOutcome == [state |-> "failed", payload |-> "run_failure"]

Steps == {"idle", "received", "claiming", "executing", "inspecting",
          "writing", "cancelling", "discarding", "clearing"}

\* run, gen: the work item; allowed: the limiter's answer; lease: the lease the
\* execution was claimed with; seen: the row it goes by; outcome: what to write.
Deliveries ==
    [step : Steps, run : RunIds \cup {NoRun}, gen : {NoGeneration} \cup Generations,
     allowed : BOOLEAN, lease : LeaseIds \cup {NoLease},
     seen : RunRecords \cup {NoRun}, outcome : Outcomes]

Idle == [step |-> "idle", run |-> NoRun, gen |-> NoGeneration, allowed |-> FALSE,
         lease |-> NoLease, seen |-> NoRun, outcome |-> NoOutcome]

Become(p, delivery) == workers' = [workers EXCEPT ![p] = delivery]

At(p, step) == workers[p].step = step

\* The process has nothing left but to take the item off the queue.
Ending(p, step) ==
    Become(p, [Idle EXCEPT !.step = step, !.run = workers[p].run,
                           !.gen = workers[p].gen])

\* _owns, with the worker id every process shares.
Owns(run, l) == Holds(run.lease, WorkerId, l)

\* A lease id nobody remembers, as good as a fresh one.
FreshLease(l) ==
    /\ \A r \in RunIds : runs[r] # NoRun /\ runs[r].lease # NoLease
                            => runs[r].lease.id # l
    /\ \A p \in Processes :
          /\ workers[p].lease # l
          /\ workers[p].seen # NoRun /\ workers[p].seen.lease # NoLease
                => workers[p].seen.lease.id # l

-----------------------------------------------------------------------------
\* process_one: receive.
Poll(p, r, t) ==
    /\ At(p, "idle")
    /\ Receive(r, t)
    /\ Become(p, [Idle EXCEPT !.step = "received", !.run = r, !.gen = work[r].gen])
    /\ UNCHANGED <<storeVars, now>>

\* process: no permit is asked for a run that will not be executed, and without
\* one nothing is; otherwise the limiter decides.
Admit(p, granted) ==
    LET d == workers[p]
        run == runs[d.run]
        executable == /\ run # NoRun
                      /\ run.gen = d.gen
                      /\ run.state \notin TerminalStates
                      /\ run.cancelled = NoTime
    IN /\ At(p, "received")
       /\ granted => executable
       /\ Become(p, [d EXCEPT !.step = "claiming", !.allowed = granted])
       /\ UNCHANGED <<storeVars, work, now>>

\* Mutant of Settled: a run somebody else is busy with is nobody's work any more.
SettledWhenBusy == {"stale", "terminal", "not_found", "busy"}

\* The answers after which there is nothing to execute, and those after which the
\* item comes back once it is visible again.
Settled == {"stale", "terminal", "not_found"}
Postponed == {"busy", "already_claimed", "lease_unavailable"}

\* _process_admitted.  A claim the limiter did not allow is left to expire.
ClaimRun(p, l, t) ==
    LET d == workers[p]
        secs == IF d.allowed THEN LeaseTerm ELSE BlockedTerm
        disposition == ClaimDisposition(runs[d.run], d.gen, WorkerId, l, t, secs)
    IN /\ At(p, "claiming")
       /\ FreshLease(l)
       /\ \/ /\ disposition = "claimed"
             /\ Claim(d.run, d.gen, WorkerId, l, t, secs)
             /\ Become(p, IF d.allowed
                          THEN [d EXCEPT !.step = "executing", !.lease = l,
                                         !.seen = runs'[d.run]]
                          ELSE Idle)
          \/ /\ disposition = "cancellation_requested"
             /\ IF Live(runs[d.run].lease, t) THEN UNCHANGED storeVars
                ELSE Claim(d.run, d.gen, WorkerId, l, t, secs)
             /\ Ending(p, "discarding")
          \/ /\ disposition \in Settled
             /\ Ending(p, "discarding")
             /\ UNCHANGED storeVars
          \/ /\ disposition \in Postponed
             /\ Become(p, Idle)
             /\ UNCHANGED storeVars
       /\ UNCHANGED <<work, now>>

\* One heartbeat of _execute: renew the lease, then the permit.
Heartbeat(p, t, permitted) ==
    LET d == workers[p]
        run == runs[d.run]
        disposition == RenewDisposition(run, WorkerId, d.lease, t, LeaseTerm)
    IN /\ At(p, "executing")
       /\ \/ /\ disposition = "renewed"
             /\ RenewLease(d.run, WorkerId, d.lease, t, LeaseTerm)
             /\ Become(p, IF permitted THEN [d EXCEPT !.seen = runs'[d.run]] ELSE Idle)
          \/ /\ disposition = "cancellation_requested"
             /\ Become(p, [d EXCEPT !.step = "cancelling", !.seen = run])
             /\ UNCHANGED storeVars
          \/ /\ disposition = "terminal"
             /\ Ending(p, "clearing")
             /\ UNCHANGED storeVars
          \/ /\ disposition \in {"lost", "not_found", "lease_unavailable"}
             /\ Become(p, Idle)
             /\ UNCHANGED storeVars
       /\ UNCHANGED <<work, now>>

\* The executor returns a result, which _finish_result will look at, or raises,
\* and _finish_terminal goes by the row of the last renewal.
ExecutorReturns(p, outcome) ==
    /\ At(p, "executing")
    /\ outcome.payload \in Payloads(outcome.state)
    /\ Become(p, [workers[p] EXCEPT !.step = "inspecting", !.outcome = outcome])
    /\ UNCHANGED <<storeVars, work, now>>

ExecutorRaises(p) ==
    /\ At(p, "executing")
    /\ Become(p, [workers[p] EXCEPT !.step = "writing", !.outcome = NoOutcome])
    /\ UNCHANGED <<storeVars, work, now>>

\* Mutant of Inspect: whoever owns the row is good enough.
InspectAnyOwner(p) ==
    LET d == workers[p]
        current == runs[d.run]
        phase == PhaseOf(current)
    IN /\ At(p, "inspecting")
       /\ \/ /\ phase \in TerminalStates \cup {"absent"}
             /\ Ending(p, "clearing")
          \/ /\ phase \in {"pending", "cancelling"}
             /\ current.lease # NoLease
             /\ Become(p, [d EXCEPT !.step = IF phase = "pending" THEN "writing"
                                             ELSE "cancelling",
                                    !.seen = current])
       /\ UNCHANGED <<storeVars, work, now>>

\* _finish_result: the row as it is now decides.
Inspect(p) ==
    LET d == workers[p]
        current == runs[d.run]
        phase == PhaseOf(current)
    IN /\ At(p, "inspecting")
       /\ \/ /\ phase \in TerminalStates \cup {"absent"}
             /\ Ending(p, "clearing")
          \/ /\ phase = "cancelling"
             /\ Become(p, [d EXCEPT !.step = "cancelling", !.seen = current])
          \/ /\ phase = "pending"
             /\ Become(p, IF Owns(current, d.lease)
                          THEN [d EXCEPT !.step = "writing", !.seen = current]
                          ELSE Idle)
       /\ UNCHANGED <<storeVars, work, now>>

\* What the update of the row seen to a next state would meet, and the update:
\* with the lease on that row, never before its last write (_transition_time).
Answer(p, next, t) ==
    LET seen == workers[p].seen
    IN WriteDisposition(runs[workers[p].run], seen.version, seen.state, next, WorkerId,
                        seen.lease.id, LaterOf(t, seen.updated))

Update(p, next, payload, t) ==
    LET seen == workers[p].seen
    IN CompareAndSet(workers[p].run, seen.version, seen.state, next, payload, WorkerId,
                     seen.lease.id, LaterOf(t, seen.updated))

\* Mutant of TooLate: whatever the row has become, the work is done.
TooLateForGood(p, run) == Ending(p, "clearing")

\* An update that was not applied: the work is done only if the run has ended.
TooLate(p, run) ==
    IF run # NoRun /\ run.state \in TerminalStates
    THEN Ending(p, "clearing") ELSE Become(p, Idle)

\* _finish_terminal.  An update that meets a cancellation of its own run turns
\* into that cancellation; one that comes too late is dropped.
WriteResult(p, t) ==
    LET d == workers[p]
        run == runs[d.run]
        answer == Answer(p, d.outcome.state, t)
        overtaken == /\ run # NoRun
                     /\ run.cancelled # NoTime
                     /\ Owns(run, d.seen.lease.id)
    IN /\ At(p, "writing")
       /\ \/ /\ answer = "applied"
             /\ Update(p, d.outcome.state, d.outcome.payload, t)
             /\ Ending(p, "clearing")
          \/ /\ answer # "applied"
             /\ overtaken
             /\ Become(p, [d EXCEPT !.step = "cancelling", !.seen = run])
             /\ UNCHANGED storeVars
          \/ /\ answer # "applied"
             /\ ~overtaken
             /\ TooLate(p, run)
             /\ UNCHANGED storeVars
       /\ UNCHANGED <<work, now>>

\* _finish_cancellation: the lease it writes with is the one on the row seen,
\* which _owns compares with itself.
WriteCancellation(p, t) ==
    LET d == workers[p]
        run == runs[d.run]
        answer == Answer(p, "cancelled", t)
    IN /\ At(p, "cancelling")
       /\ Owns(d.seen, d.seen.lease.id)
       /\ \/ /\ answer = "applied"
             /\ Update(p, "cancelled", NoPayload, t)
             /\ Ending(p, "clearing")
          \/ /\ answer # "applied"
             /\ TooLate(p, run)
             /\ UNCHANGED storeVars
       /\ UNCHANGED <<work, now>>

\* queue.discard and queue.cancel, the last thing a delivery does.
TakeOff(p) ==
    /\ At(p, "discarding") \/ At(p, "clearing")
    /\ Unqueue(workers[p].run, workers[p].gen)
    /\ Become(p, Idle)
    /\ UNCHANGED <<storeVars, now>>

\* The process ends at any point; what it knew is lost.
Crash(p) ==
    /\ ~At(p, "idle")
    /\ Become(p, Idle)
    /\ UNCHANGED <<storeVars, work, now>>

Work(p) ==
    \/ \E t \in Readings :
        \/ \E r \in RunIds : Poll(p, r, t)
        \/ \E l \in LeaseIds : ClaimRun(p, l, t)
        \/ \E permitted \in BOOLEAN : Heartbeat(p, t, permitted)
        \/ WriteResult(p, t)
        \/ WriteCancellation(p, t)
    \/ \E granted \in BOOLEAN : Admit(p, granted)
    \/ \E outcome \in Outcomes : ExecutorReturns(p, outcome)
    \/ ExecutorRaises(p)
    \/ Inspect(p)
    \/ TakeOff(p)

-----------------------------------------------------------------------------
WorkersTypeOK == workers \in [Processes -> Deliveries]
=============================================================================

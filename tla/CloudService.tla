---------------------------- MODULE CloudService ----------------------------
(***************************************************************************)
(* The cloud deployment: requests (RunService), deliveries of cloud tasks  *)
(* (the internal route and LocalWorker.process under it) and deletions of  *)
(* sessions, each a handler that makes one call after the other and may    *)
(* stop for good between any two.  Cloud Tasks delivers a task at least    *)
(* once, and to several handlers at a time.                                *)
(*                                                                         *)
(* Abstractions: the limiter is its answers; session ids and run ids may   *)
(* come back, a run id with another generation.                            *)
(***************************************************************************)
EXTENDS CloudQueue

VARIABLES
    purged,     \* runs whose documents a deletion has begun to remove
    emptied     \* the session each handler deletes

vars == <<documents, queueVars, purged, emptied>>

serviceVars == <<purged, emptied>>

-----------------------------------------------------------------------------
\* Requests.

Enqueue(p, r, g) ==
    Become(p, [Idle EXCEPT !.step = "reading", !.run = r, !.gen = g, !.round = 1])

\* RunService.submit.
Submit(p, r, s) ==
    /\ At(p, "idle")
    /\ CreateRun(r, s)
    /\ Enqueue(p, r, generation + 1)
    /\ UNCHANGED <<tasks, accepted, serviceVars>>

\* submit again: the run of the key, whose item is enqueued again unless it is over.
SubmitAgain(p, r) ==
    /\ At(p, "idle")
    /\ r \in keys /\ ~Over(runs[r])
    /\ Enqueue(p, r, runs[r].gen)
    /\ UNCHANGED <<documents, tasks, accepted, serviceVars>>

\* RunService.cancel, up to the clean-up of the queue.
Cancel(p, r, old) ==
    /\ At(p, "idle")
    /\ \/ FlagRun(r, old)
       \/ Exists(r) /\ runs[r].state = "cancelled" /\ UNCHANGED documents
    /\ IF runs'[r].state = "cancelled"
       THEN Become(p, [Idle EXCEPT !.step = "listing", !.run = r, !.gen = runs[r].gen])
       ELSE UNCHANGED procs
    /\ UNCHANGED <<tasks, accepted, serviceVars>>

-----------------------------------------------------------------------------
\* Deliveries.

Deliver(p, n) ==
    /\ At(p, "idle")
    /\ tasks[n] # NoTask
    /\ Become(p, [Idle EXCEPT !.step = "admitting", !.run = tasks[n].run,
                              !.gen = tasks[n].gen, !.task = n])
    /\ UNCHANGED <<documents, tasks, accepted, serviceVars>>

\* process: no permit is asked for a run that will not be executed.
Admit(p, granted) ==
    LET h == procs[p]
    IN /\ At(p, "admitting")
       /\ granted => /\ Exists(h.run) /\ runs[h.run].gen = h.gen
                     /\ ~Over(runs[h.run]) /\ ~runs[h.run].flagged
       /\ Become(p, [h EXCEPT !.step = "claiming", !.allowed = granted])
       /\ UNCHANGED <<documents, tasks, accepted, serviceVars>>

\* 503: Cloud Tasks will deliver the task again.
Refuse(p) == Become(p, Idle) /\ UNCHANGED tasks

\* _process_admitted.
Claim(p, old) ==
    LET h == procs[p]
        answer == ClaimAnswer(runs[h.run], h.gen, old)
    IN /\ At(p, "claiming")
       /\ \/ /\ answer = "claimed" /\ h.allowed
             /\ ClaimRun(h.run, h.gen, old)
             /\ Become(p, [h EXCEPT !.step = "executing", !.allowed = FALSE,
                                    !.attempt = runs[h.run].version])
             /\ UNCHANGED tasks
          \/ /\ answer = "claimed" /\ ~h.allowed
             /\ ClaimRun(h.run, h.gen, old)
             /\ Refuse(p)
          \/ answer = "busy" /\ UNCHANGED documents /\ Refuse(p)
          \/ /\ answer \in {"stale", "terminal", "not_found", "cancellation_requested"}
             /\ \/ ClaimRun(h.run, h.gen, old)
                \/ /\ answer = "cancellation_requested" => Running(runs[h.run].lease, old)
                   /\ UNCHANGED documents
             /\ Become(p, [h EXCEPT !.step = "discarding", !.then = "ack",
                                          !.allowed = FALSE])
             /\ UNCHANGED tasks
       /\ UNCHANGED <<accepted, serviceVars>>

CleanUp(p, then) == Become(p, [procs[p] EXCEPT !.step = "listing", !.then = then,
                                               !.attempt = 0, !.version = 0])

\* _execute: a heartbeat.
Heartbeat(p, old) ==
    LET h == procs[p]
        answer == RenewAnswer(runs[h.run], h.attempt, old)
    IN /\ At(p, "executing")
       /\ \/ /\ answer = "renewed"
             /\ RenewRun(h.run, h.attempt, old)
             /\ UNCHANGED <<procs, tasks>>
          \/ /\ answer = "cancellation_requested"
             /\ Become(p, [h EXCEPT !.step = "cancelling", !.version = runs[h.run].version,
                                    !.attempt = runs[h.run].lease.attempt, !.then = "ack"])
             /\ UNCHANGED <<documents, tasks>>
          \/ answer = "terminal" /\ CleanUp(p, "ack") /\ UNCHANGED <<documents, tasks>>
          \/ answer \in {"lost", "not_found"} /\ Refuse(p) /\ UNCHANGED documents
       /\ UNCHANGED <<accepted, serviceVars>>

\* _finish_result: what has become of the run.
Inspect(p) ==
    LET h == procs[p]
        run == runs[h.run]
    IN /\ At(p, "executing")
       /\ \/ /\ run = NoRun
             /\ CleanUp(p, "answer") /\ UNCHANGED tasks
          \/ /\ run # NoRun /\ Over(run)
             /\ CleanUp(p, "answer") /\ UNCHANGED tasks
          \/ /\ run # NoRun /\ ~Over(run) /\ run.flagged /\ run.lease # NoLease
             /\ Become(p, [h EXCEPT !.step = "cancelling", !.version = run.version,
                                    !.attempt = run.lease.attempt])
             /\ UNCHANGED tasks
          \/ /\ run # NoRun /\ ~Over(run) /\ ~run.flagged
             /\ IF Owns(run, h.attempt)
                THEN /\ Become(p, [h EXCEPT !.step = "writing", !.version = run.version])
                     /\ UNCHANGED tasks
                ELSE Refuse(p)
       /\ UNCHANGED <<documents, accepted, serviceVars>>

\* _finish_terminal.
WriteResult(p, next, payload, old) ==
    LET h == procs[p]
        run == runs[h.run]
    IN /\ At(p, "writing")
       /\ next \in {"completed", "failed"} /\ payload \in Payloads(next)
       /\ \/ /\ UpdateRun(h.run, h.version, next, payload, h.attempt, old)
             /\ CleanUp(p, "ack") /\ UNCHANGED tasks
          \/ /\ UpdateAnswer(run, h.version, next, h.attempt, old) # "applied"
             /\ UNCHANGED documents
             /\ IF run = NoRun THEN Refuse(p)
                ELSE IF run.flagged /\ Owns(run, h.attempt)
                THEN /\ Become(p, [h EXCEPT !.step = "cancelling", !.version = run.version])
                     /\ UNCHANGED tasks
                ELSE IF Over(run) THEN CleanUp(p, "answer") /\ UNCHANGED tasks
                ELSE Refuse(p)
       /\ UNCHANGED <<accepted, serviceVars>>

\* _finish_cancellation.
WriteCancellation(p, old) ==
    LET h == procs[p]
        run == runs[h.run]
    IN /\ At(p, "cancelling")
       /\ \/ /\ UpdateRun(h.run, h.version, "cancelled", NoPayload, h.attempt, old)
             /\ CleanUp(p, h.then) /\ UNCHANGED tasks
          \/ /\ UpdateAnswer(run, h.version, "cancelled", h.attempt, old) # "applied"
             /\ UNCHANGED documents
             /\ IF Exists(h.run) /\ Over(run) THEN CleanUp(p, h.then) /\ UNCHANGED tasks
                ELSE Answered(p, tasks)
       /\ UNCHANGED <<accepted, serviceVars>>

-----------------------------------------------------------------------------
\* FirestoreSessionRepository.delete.

Delete(p, s) ==
    /\ At(p, "idle") /\ s \in sessions
    /\ GoTo(p, "emptying")
    /\ emptied' = [emptied EXCEPT ![p] = s]
    /\ UNCHANGED <<documents, tasks, accepted, purged>>

\* delete_session: the next run of the session, if there is one.
NextChild(p) ==
    LET children == RunsOf(emptied[p])
    IN /\ At(p, "emptying")
       /\ \/ \E r \in children : Become(p, [Idle EXCEPT !.step = "purging_events", !.run = r])
          \/ children = {} /\ GoTo(p, "purging_reflections")
       /\ UNCHANGED <<documents, tasks, accepted, serviceVars>>

\* delete_run: batch after batch of events, the work items, and all the rest.
Purge(p) ==
    LET r == procs[p].run
    IN /\ \/ /\ At(p, "purging_events")
             /\ \E batch \in Batches(events[r]) :
                   /\ PurgeEvents(r, batch)
                   /\ GoTo(p, IF Cardinality(batch) < BatchSize THEN "purging_items"
                              ELSE "purging_events")
             /\ purged' = IF Exists(r) THEN purged \cup {r} ELSE purged
          \/ /\ At(p, "purging_items")
             /\ PurgeItem(r)
             /\ GoTo(p, "removing")
             /\ UNCHANGED purged
       /\ UNCHANGED <<tasks, accepted, emptied>>

Remove(p) ==
    LET r == procs[p].run
    IN /\ At(p, "removing")
       /\ \/ /\ RemoveRun(r)
             /\ purged' = purged \ {r}
             /\ accepted' = [accepted EXCEPT ![r] = 0]
             /\ GoTo(p, "emptying")
          \/ /\ ~Exists(r)
             /\ GoTo(p, "emptying")
             /\ UNCHANGED <<documents, purged, accepted>>
          \/ /\ Exists(r) /\ ~Childless(r)
             /\ GoTo(p, "purging_events")
             /\ UNCHANGED <<documents, purged, accepted>>
       /\ UNCHANGED <<tasks, emptied>>

Finish(p) ==
    LET s == emptied[p]
    IN /\ \/ /\ At(p, "purging_reflections")
             /\ \E batch \in Batches(ReflectionsOf(s)) :
                   /\ PurgeReflections(s, batch)
                   /\ IF Cardinality(batch) < BatchSize THEN GoTo(p, "removing_session")
                      ELSE UNCHANGED procs
          \/ At(p, "removing_session") /\ RemoveSession(s) /\ Become(p, Idle)
          \/ /\ At(p, "removing_session")
             /\ RunsOf(s) # {} \/ ReflectionsOf(s) # {}
             /\ GoTo(p, "emptying") /\ UNCHANGED documents
       /\ UNCHANGED <<tasks, accepted, serviceVars>>

\* delete_memory: the reflections of a session, batch by batch.
DeleteMemory(s) ==
    /\ \E batch \in Batches(ReflectionsOf(s)) : PurgeReflections(s, batch)
    /\ UNCHANGED <<queueVars, serviceVars>>

-----------------------------------------------------------------------------
\* The environment: a lease runs out, a handler stops, a session is opened.
Expire(r) ==
    /\ Exists(r) /\ Running(runs[r].lease, FALSE)
    /\ runs' = [runs EXCEPT ![r].lease.live = FALSE]
    /\ UNCHANGED <<events, keys, reflections, index, sessions, generation,
                   queueVars, serviceVars>>

Crash(p) ==
    /\ ~At(p, "idle")
    /\ Become(p, Idle)
    /\ UNCHANGED <<documents, tasks, accepted, serviceVars>>

\* Cloud Tasks drops a task when its attempts are used up; the requests and deliveries
\* that are under way are quicker than that.
GiveUp(n) ==
    LET r == tasks[n].run
    IN /\ tasks[n] # NoTask
       /\ \A p \in Procs :
              procs[p].task # n /\ (procs[p].run = r => procs[p].step \notin EnqueueSteps)
       /\ tasks' = [tasks EXCEPT ![n] = NoTask]
       /\ accepted' = [accepted EXCEPT
              ![r] = IF index[r] = NoItem \/ index[r].task = n THEN 0 ELSE @]
       /\ UNCHANGED <<documents, procs, serviceVars>>

Open(s) == PutSession(s) /\ UNCHANGED <<queueVars, serviceVars>>

Init ==
    /\ StoreInit /\ QueueInit
    /\ purged = {}
    /\ emptied \in [Procs -> Sessions]

Request(p) ==
    \/ \E r \in RunIds :
        \/ SubmitAgain(p, r)
        \/ \E s \in Sessions : Submit(p, r, s)
        \/ \E old \in BOOLEAN : Cancel(p, r, old)
    \/ (Enqueueing(p) \/ Removing(p)) /\ UNCHANGED serviceVars

Delivery(p) ==
    \/ \E n \in TaskNames : Deliver(p, n)
    \/ \E granted \in BOOLEAN : Admit(p, granted)
    \/ Inspect(p)
    \/ \E old \in BOOLEAN :
        \/ Claim(p, old) \/ Heartbeat(p, old) \/ WriteCancellation(p, old)
        \/ \E next \in TerminalStates : \E payload \in Payloads(next) :
              WriteResult(p, next, payload, old)

Deletion(p) ==
    \/ \E s \in Sessions : Delete(p, s)
    \/ NextChild(p) \/ Purge(p) \/ Remove(p) \/ Finish(p)

Next ==
    \/ \E p \in Procs : Request(p) \/ Delivery(p) \/ Deletion(p) \/ Crash(p)
    \/ \E r \in RunIds : Expire(r)
    \/ \E n \in TaskNames : GiveUp(n)
    \/ \E s \in Sessions : DeleteMemory(s) \/ Open(s)

Spec == Init /\ [][Next]_vars

-----------------------------------------------------------------------------
\* Every variable has its type.
CloudTypeOK ==
    /\ runs \in [RunIds -> Runs \cup {NoRun}]
    /\ \A r \in RunIds : events[r] \subseteq EventDocuments
    /\ keys \subseteq RunIds /\ purged \subseteq RunIds
    /\ reflections \subseteq Sessions \X RunIds
    /\ index \in [RunIds -> Items \cup {NoItem}]
    /\ sessions \subseteq Sessions /\ generation \in 0..MaxGeneration
    /\ tasks \in [TaskNames -> [run : RunIds, gen : Generations] \cup {NoTask}]
    /\ procs \in [Procs -> Handlers]
    /\ accepted \in [RunIds -> 0..MaxGeneration]
    /\ emptied \in [Procs -> Sessions]

\* "Retrying the same request repairs dispatch" (docs/api.md): once a submission was
\* answered, its run has a cloud task until it is over, its cancellation was asked for
\* or the queue gave its task up (when another retry repairs it), whatever other
\* submissions, deliveries, removals and deletions do to the index document and the tasks
\* of the run (enqueue, discard, cancel, delete_run).
WorkIsDispatched ==
    \A r \in RunIds :
        Exists(r) /\ accepted[r] = runs[r].gen /\ ~Over(runs[r]) /\ ~runs[r].flagged
            => \E n \in TaskNames : Carries(n, r, runs[r].gen)

\* A run is deleted in many transactions while others write to it; still nothing of a
\* run is left without it, and nothing of a session without the session
\* (delete_run, delete_session, _persist_work_index).
NothingIsLeftBehind ==
    /\ \A r \in RunIds :
        IF Exists(r) THEN r \in keys /\ runs[r].session \in sessions
        ELSE events[r] = {} /\ index[r] = NoItem /\ r \notin keys
    /\ \A x \in reflections : Exists(x[2]) /\ x[1] \in sessions

\* Unless a deletion of the run has begun, its events are numbered from one without
\* gaps, and the event that ends it is there once, last, when it is over
\* (_next_event_sequence, _append_event).
LogIsWhole ==
    \A r \in RunIds : Exists(r) /\ r \notin purged =>
        LET last == Cardinality(events[r])
        IN /\ {e.sequence : e \in events[r]} = 1..last
           /\ \A e \in events[r] : e.kind = "end" <=> e.sequence = last /\ Over(runs[r])

\* The promise of RunPromise, read off the documents.
PhaseOf(run) ==
    IF run = NoRun THEN "absent"
    ELSE IF Over(run) THEN run.state
    ELSE IF run.flagged THEN "cancelling" ELSE "pending"

Promise == INSTANCE RunPromise WITH
    phase <- [r \in RunIds |-> PhaseOf(runs[r])],
    result <- [r \in RunIds |-> IF Exists(r) THEN runs[r].payload ELSE NoPayload]

\* The cloud adapters keep the promise the local store keeps: neither leases, retries
\* and duplicate deliveries nor deletion in pieces are visible to a client.
CloudPromiseKept == Promise!Spec
=============================================================================

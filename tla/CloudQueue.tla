----------------------------- MODULE CloudQueue -----------------------------
(***************************************************************************)
(* CloudTasksWorkQueue: a work item is an index document and a cloud task  *)
(* of a random name; enqueue, discard and cancel reach the two by several  *)
(* calls, any of which may be the last one their process makes.            *)
(*                                                                         *)
(* Abstractions: a task carries the run and generation it was signed for,  *)
(* so decode_delivery accepts every task the queue made; index documents   *)
(* of older schemas (task names without a token) are left out.  With       *)
(* InDoubt, a call may take effect and be reported as failed, as when the  *)
(* caller is cancelled or its connection breaks while it waits.            *)
(***************************************************************************)
EXTENDS CloudStore

CONSTANTS
    Procs,        \* handlers at work: requests, deliveries, deletions
    NoTask,       \* an absent task, no task name
    MaxRounds,    \* the rounds of enqueue
    InDoubt       \* whether calls may fail after they took effect

ASSUME QueueAssumption ==
    /\ MaxRounds \in Nat \ {0}
    /\ InDoubt \in BOOLEAN
    /\ NoTask \notin [run : RunIds, gen : Generations] \cup TaskNames

VARIABLES
    tasks,     \* the queue of Cloud Tasks: TaskNames -> what a task carries
    procs,     \* what each handler is doing
    accepted   \* the generation of each run whose enqueueing was reported done

queueVars == <<tasks, procs, accepted>>

EnqueueSteps == {"reading", "parent", "checking", "repairing", "creating", "indexing",
                 "undoing", "undoing_for_good"}
RemovalSteps == {"listing", "discarding", "unindexing", "untasking"}
DeliverySteps == {"admitting", "claiming", "executing", "inspecting", "writing", "cancelling"}
DeletionSteps == {"emptying", "purging_events", "purging_items", "removing",
                  "purging_reflections", "removing_session"}

\* task: the task a request made or a delivery came with; item: the index document
\* read last; then: how the handler answers when it is done; attempt, version: the
\* lease it executes under and the version it goes by.
Handlers ==
    [step : {"idle"} \cup EnqueueSteps \cup RemovalSteps \cup DeliverySteps \cup DeletionSteps,
     run : RunIds \cup {NoRun}, gen : 0..MaxGeneration, task : TaskNames \cup {NoTask},
     item : Items \cup {NoItem}, round : 0..MaxRounds, then : {"answer", "ack"},
     allowed : BOOLEAN, attempt : Versions, version : Versions]

Idle == [step |-> "idle", run |-> NoRun, gen |-> 0, task |-> NoTask, item |-> NoItem,
         round |-> 0, then |-> "answer", allowed |-> FALSE, attempt |-> 0, version |-> 0]

At(p, step) == procs[p].step = step
Become(p, handler) == procs' = [procs EXCEPT ![p] = handler]
GoTo(p, step) == Become(p, [procs[p] EXCEPT !.step = step])

Carries(n, r, g) == tasks[n] # NoTask /\ tasks[n].run = r /\ tasks[n].gen = g

\* A name drawn at random: nobody remembers it.
FreshName(n) ==
    /\ tasks[n] = NoTask
    /\ \A r \in RunIds : index[r] # NoItem => index[r].task # n
    /\ \A p \in Procs : procs[p].task # n /\ (procs[p].item # NoItem => procs[p].item.task # n)

-----------------------------------------------------------------------------
\* enqueue.

NextRound(p) ==
    IF procs[p].round < MaxRounds
    THEN Become(p, [Idle EXCEPT !.step = "reading", !.run = procs[p].run,
                        !.gen = procs[p].gen, !.round = procs[p].round + 1])
    ELSE Become(p, Idle)

Succeed(p) ==
    /\ accepted' = [accepted EXCEPT ![procs[p].run] = procs[p].gen]
    /\ Become(p, Idle)

ReadIndex(p) ==
    /\ At(p, "reading")
    /\ Become(p, [procs[p] EXCEPT !.step = "parent", !.item = index[procs[p].run]])
    /\ UNCHANGED <<documents, tasks, accepted>>

\* The run of the item may be gone, or another one under the same id.
ReadParent(p) ==
    LET h == procs[p]
        foreign == h.item # NoItem /\ h.item.gen # h.gen
    IN /\ At(p, "parent")
       /\ IF ~Exists(h.run) THEN Become(p, Idle)
          ELSE IF runs[h.run].gen # h.gen \/ foreign THEN Become(p, Idle)
          ELSE GoTo(p, IF h.item = NoItem THEN "creating" ELSE "checking")
       /\ UNCHANGED <<documents, tasks, accepted>>

\* Mutant of CheckTask: the index document is believed.
CheckNothing(p) ==
    /\ At(p, "checking")
    /\ Succeed(p)
    /\ UNCHANGED <<documents, tasks>>

\* An indexed item whose task is there is enqueued already.
CheckTask(p) ==
    /\ At(p, "checking")
    /\ IF tasks[procs[p].item.task] # NoTask THEN Succeed(p)
       ELSE GoTo(p, "repairing") /\ UNCHANGED accepted
    /\ UNCHANGED <<documents, tasks>>

\* _delete_matching_work: nothing, if the document is not the one that was read.
DeleteMatching(r, item) ==
    /\ index[r] = item
    /\ index' = [index EXCEPT ![r] = NoItem]

Repair(p) ==
    LET h == procs[p]
    IN /\ At(p, "repairing")
       /\ \/ /\ DeleteMatching(h.run, h.item)
             /\ Become(p, [h EXCEPT !.step = "creating", !.item = NoItem])
          \/ index[h.run] # h.item /\ NextRound(p) /\ UNCHANGED index
       /\ UNCHANGED <<runs, events, keys, reflections, sessions, generation, tasks, accepted>>

CreateTask(p, n) ==
    LET h == procs[p]
    IN /\ At(p, "creating")
       /\ FreshName(n)
       /\ tasks' = [tasks EXCEPT ![n] = [run |-> h.run, gen |-> h.gen]]
       /\ \/ Become(p, [h EXCEPT !.step = "indexing", !.task = n])
          \/ InDoubt /\ Become(p, Idle)
       /\ UNCHANGED <<documents, accepted>>

\* _persist_work_index: the run is looked at again, and the first document wins.
PersistIndex(p) ==
    LET h == procs[p]
        current == Exists(h.run) /\ runs[h.run].gen = h.gen
        stored == index[h.run]
    IN /\ At(p, "indexing")
       /\ \/ /\ ~current \/ (stored # NoItem /\ stored.gen # h.gen)
             /\ GoTo(p, "undoing_for_good")
             /\ UNCHANGED <<index, accepted>>
          \/ /\ current /\ stored # NoItem /\ stored.gen = h.gen
             /\ GoTo(p, "undoing")
             /\ UNCHANGED <<index, accepted>>
          \/ /\ current /\ stored = NoItem
             /\ index' = [index EXCEPT ![h.run] = [gen |-> h.gen, task |-> h.task]]
             /\ \/ Succeed(p)
                \/ InDoubt /\ GoTo(p, "undoing_for_good") /\ UNCHANGED accepted
       /\ UNCHANGED <<runs, events, keys, reflections, sessions, generation, tasks>>

\* The transaction is refused, without effect.
PersistFails(p) ==
    /\ At(p, "indexing")
    /\ GoTo(p, "undoing_for_good")
    /\ UNCHANGED <<documents, tasks, accepted>>

\* The task that did not become the item's is deleted again.
Undo(p) ==
    /\ \/ At(p, "undoing") /\ NextRound(p)
       \/ At(p, "undoing_for_good") /\ Become(p, Idle)
    /\ tasks' = [tasks EXCEPT ![procs[p].task] = NoTask]
    /\ UNCHANGED <<documents, accepted>>

-----------------------------------------------------------------------------
\* cancel and discard, and the answer to a delivery afterwards: Cloud Tasks deletes
\* a task whose delivery is acknowledged and delivers any other again.

Answered(p, queue) ==
    /\ tasks' = IF procs[p].then = "ack" THEN [queue EXCEPT ![procs[p].task] = NoTask]
                ELSE queue
    /\ Become(p, Idle)

\* cancel: the documents of the run's generation.
Listed(h) == index[h.run] # NoItem /\ index[h.run].gen = h.gen

\* discard: the document of the very item, if it names the task that was delivered.
Matches(h) == Listed(h) /\ index[h.run].task = h.task

ListItems(p) ==
    LET h == procs[p]
        found == IF At(p, "listing") THEN Listed(h) ELSE Matches(h)
    IN /\ At(p, "listing") \/ At(p, "discarding")
       /\ IF found
          THEN /\ Become(p, [h EXCEPT !.step = "unindexing", !.item = index[h.run]])
               /\ UNCHANGED tasks
          ELSE Answered(p, tasks)
       /\ UNCHANGED <<documents, accepted>>

Unindex(p) ==
    LET h == procs[p]
    IN /\ At(p, "unindexing")
       /\ \/ DeleteMatching(h.run, h.item) /\ GoTo(p, "untasking") /\ UNCHANGED tasks
          \/ index[h.run] # h.item /\ Answered(p, tasks) /\ UNCHANGED index
       /\ UNCHANGED <<runs, events, keys, reflections, sessions, generation, accepted>>

Untask(p) ==
    /\ At(p, "untasking")
    /\ Answered(p, [tasks EXCEPT ![procs[p].item.task] = NoTask])
    /\ UNCHANGED <<documents, accepted>>

QueueInit ==
    /\ tasks = [n \in TaskNames |-> NoTask]
    /\ procs = [p \in Procs |-> Idle]
    /\ accepted = [r \in RunIds |-> 0]

Enqueueing(p) ==
    \/ ReadIndex(p) \/ ReadParent(p) \/ CheckTask(p) \/ Repair(p)
    \/ (\E n \in TaskNames : CreateTask(p, n))
    \/ PersistIndex(p) \/ PersistFails(p) \/ Undo(p)

Removing(p) == ListItems(p) \/ Unindex(p) \/ Untask(p)
=============================================================================

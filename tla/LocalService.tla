---------------------------- MODULE LocalService ----------------------------
(***************************************************************************)
(* The local deployment: RunService in front of the run store and the work *)
(* queue, with the workers behind them.  Submitting and cancelling are two *)
(* transactions each, the row first and the queue second; the second may   *)
(* never come (a crash, a full disk), may be late, and sessions may be     *)
(* deleted meanwhile.  Run ids and session ids are drawn fresh.            *)
(***************************************************************************)
EXTENDS LocalWorker

VARIABLES
    calls     \* the second halves of requests, still to come

vars == <<storeVars, work, now, workers, calls>>

Calls == [kind : {"enqueue", "cancel"}, run : RunIds, gen : Generations]

Call(kind, r) == [kind |-> kind, run |-> r, gen |-> runs'[r].gen]

\* A run id nobody remembers, as good as one drawn for the first time.
Fresh(r) ==
    /\ \A c \in calls : c.run # r
    /\ \A p \in Processes : workers[p].run # r

-----------------------------------------------------------------------------
\* submit, up to the row: a new run, or the one the key already stands for,
\* whose dispatch a retry repairs while it has not ended.
Submit(r, k, s, t) ==
    /\ Create(r, k, s, t)
    /\ Fresh(r)
    /\ calls' = calls \cup {Call("enqueue", r)}
    /\ UNCHANGED <<work, now, workers>>

SubmitAgain(k) ==
    LET r == idempotency[k]
    IN /\ r # NoRun
       /\ runs[r].state \notin TerminalStates
       /\ UNCHANGED storeVars
       /\ calls' = calls \cup {Call("enqueue", r)}
       /\ UNCHANGED <<work, now, workers>>

\* cancel, up to the row; only a run that is cancelled leaves the queue.
Cancel(r, t) ==
    /\ RequestCancellation(r, t)
    /\ calls' = IF runs'[r].state = "cancelled" THEN calls \cup {Call("cancel", r)}
                ELSE calls
    /\ UNCHANGED <<work, now, workers>>

CancelAgain(r) ==
    /\ runs[r] # NoRun
    /\ runs[r].state = "cancelled"
    /\ UNCHANGED storeVars
    /\ calls' = calls \cup {Call("cancel", r)}
    /\ UNCHANGED <<work, now, workers>>

\* The queue half of either call; enqueueing for a run that is gone is refused.
Finish(c) ==
    /\ c \in calls
    /\ calls' = calls \ {c}
    /\ \/ c.kind = "enqueue" /\ Enqueue(c.run, c.gen)
       \/ /\ c.kind = "enqueue"
          /\ ~Present(c.run, c.gen)
          /\ UNCHANGED work
       \/ c.kind = "cancel" /\ Unqueue(c.run, c.gen)
    /\ UNCHANGED <<storeVars, now, workers>>

\* The request dies between its two halves.
Abandon(c) ==
    /\ c \in calls
    /\ calls' = calls \ {c}
    /\ UNCHANGED <<storeVars, work, now, workers>>

\* The session goes, and the work items of its runs with it.
EndSession(s) ==
    /\ DeleteSession(s)
    /\ Orphaned(RunsOf(s))
    /\ UNCHANGED <<now, workers, calls>>

Tick ==
    /\ now < LastInstant
    /\ now' = now + 1
    /\ UNCHANGED <<storeVars, work, workers, calls>>

-----------------------------------------------------------------------------
Init ==
    /\ StoreInit
    /\ work = [r \in RunIds |-> NoItem]
    /\ now = 0
    /\ workers = [p \in Processes |-> Idle]
    /\ calls = {}

Requests ==
    \/ \E t \in Readings, r \in RunIds :
        \/ \E k \in Keys, s \in Sessions : Submit(r, k, s, t)
        \/ Cancel(r, t)
    \/ \E k \in Keys : SubmitAgain(k)
    \/ \E r \in RunIds : CancelAgain(r)
    \/ \E c \in calls : Finish(c) \/ Abandon(c)
    \/ \E s \in Sessions : EndSession(s)

Next ==
    \/ Requests
    \/ \E p \in Processes : (Work(p) \/ Crash(p)) /\ UNCHANGED calls
    \/ Tick

Spec == Init /\ [][Next]_vars

-----------------------------------------------------------------------------
\* Every variable has its type.
TypeOK ==
    /\ StoreTypeOK
    /\ work \in [RunIds -> Items \cup {NoItem}]
    /\ now \in Time
    /\ WorkersTypeOK
    /\ calls \subseteq Calls

\* Whatever waits in the queue can be claimed: its run exists, in the generation
\* of the item, although a session may be deleted between the two halves of a
\* submission.
QueueHasItsRuns ==
    \A r \in RunIds : work[r] # NoItem =>
        runs[r] # NoRun /\ work[r].gen = runs[r].gen

\* "The durable queue item and expiring lease [are] recoverable by the next
\* process" (docs/api.md): an execution whose cancellation nobody asked for can
\* be picked up again, whichever process dies and whichever delivery is late.
ExecutionsAreRecoverable ==
    \A r \in RunIds :
        runs[r] # NoRun /\ runs[r].state \in OwnedStates /\ runs[r].cancelled = NoTime
            => work[r] # NoItem

\* The same of every execution, as the sentence is written.
EveryExecutionIsRecoverable ==
    \A r \in RunIds :
        runs[r] # NoRun /\ runs[r].state \in OwnedStates =>
            work[r] # NoItem \/ \E p \in Processes : workers[p].run = r

\* Two processes that both believe in their lease never execute one run at the
\* same time, though each goes by the last row it saw and an old clock reading.
OneExecution ==
    \A p, q \in Processes :
        (/\ At(p, "executing") /\ At(q, "executing")
         /\ workers[p].run = workers[q].run /\ workers[p].gen = workers[q].gen
         /\ Live(workers[p].seen.lease, now) /\ Live(workers[q].seen.lease, now))
        => p = q

\* A result in the store is the result of the last execution, written by the
\* process that claimed it: "stale workers cannot overwrite a newer owner"
\* (docs/api.md).
ResultsAreTheHolders ==
    [][\A p \in Processes, r \in RunIds :
         (/\ workers'[p] # workers[p] /\ workers[p].run = r
          /\ Continues(r) /\ runs[r].state \in OwnedStates
          /\ runs'[r].state \in {"completed", "failed"})
         => runs[r].lease.id = workers[p].lease]_vars

\* "Terminal writes require the claimed run/lease identity" (docs/threat-model.md):
\* whoever ends an execution while its lease is live is the one who claimed it.
EndedByTheHolder ==
    [][\A p \in Processes, r \in RunIds :
         (/\ workers'[p] # workers[p] /\ workers[p].run = r
          /\ Continues(r) /\ runs[r].state \in OwnedStates
          /\ Live(runs[r].lease, now)
          /\ runs'[r].state \in TerminalStates)
         => runs[r].lease.id = workers[p].lease]_vars

\* Work leaves the queue only once its run has ended, is gone, or will be
\* executed no further because its cancellation was requested.
WorkIsKept ==
    [][\A r \in RunIds :
         work[r] # NoItem /\ work'[r] = NoItem =>
             \/ runs'[r] = NoRun
             \/ runs'[r].state \in TerminalStates
             \/ runs'[r].cancelled # NoTime]_vars
=============================================================================

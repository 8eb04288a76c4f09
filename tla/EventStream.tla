---------------------------- MODULE EventStream ----------------------------
(***************************************************************************)
(* Server-sent events: EventStreamService under the route that limits it.  *)
(* One action per await between which the log may grow, end or vanish, the *)
(* client may disconnect, its permit may lapse and storage may fail.       *)
(*                                                                         *)
(* Abstractions: clients stream one run each and resume after the last     *)
(* event they processed; a permit is one bit, barred once its lease has    *)
(* expired or its key is revoked, since no renewal succeeds after either;  *)
(* the clock is left out: a heartbeat may be due whenever nothing is sent. *)
(***************************************************************************)
EXTENDS EventLog

CONSTANTS
    Clients,
    BatchSize,     \* _EVENT_BATCH_SIZE
    MaxEvents      \* bound of the model: events of one run

ASSUME StreamAssumption == BatchSize \in Nat \ {0} /\ MaxEvents \in Nat \ {0}

VARIABLES
    streams,       \* what the server does for each client
    barred,        \* whether the client's permit can be renewed no more
    received       \* the events each client has processed

streamVars == <<streams, barred, received>>
vars == <<logVars, streamVars>>

\* "ended": the server has finished the stream; "closed": there is none, because
\* there was none yet or it was cut short.
Steps == {"closed", "opening", "starting", "sending", "granted", "idle", "reading",
          "looking", "rereading", "ended"}

Streams == [step : Steps, run : RunIds, cursor : Nat, batch : Seq(LogEvents),
            over : BOOLEAN]

At(c, step) == streams[c].step = step
Open(c) == streams[c].step \notin {"closed", "ended"}
GoTo(c, step) == streams' = [streams EXCEPT ![c].step = step]

\* A run id no client remembers, as good as one drawn for the first time.
Fresh(r) == \A c \in Clients : streams[c].run = r => At(c, "closed") /\ received[c] = <<>>

Unread(step, r, cursor) ==
    [step |-> step, run |-> r, cursor |-> cursor, batch |-> <<>>, over |-> FALSE]

Anew(r) == Unread("closed", r, 0)

\* Mutant of Batch: the newest events, not the next.
NewestBatch(r, cursor) ==
    LET first == IF Len(log[r]) - BatchSize > cursor THEN Len(log[r]) - BatchSize + 1
                 ELSE cursor + 1
    IN SubSeq(log[r], first, Len(log[r]))

\* _read_batch: the events after the cursor, BatchSize of them at most.
Batch(r, cursor) ==
    SubSeq(log[r], cursor + 1,
           IF cursor + BatchSize < Len(log[r]) THEN cursor + BatchSize ELSE Len(log[r]))

-----------------------------------------------------------------------------
\* The route, up to the permit; Last-Event-ID is the last event processed.
Connect(c, r) ==
    /\ ~Open(c)
    /\ status[r] # "absent" \/ received[c] # <<>>
    /\ received[c] # <<>> => streams[c].run = r
    /\ streams' = [streams EXCEPT ![c] = Unread("opening", r, Len(received[c]))]
    /\ barred' = [barred EXCEPT ![c] = FALSE]
    /\ UNCHANGED <<logVars, received>>

\* open_stream: the run, and whether it is over, before the first batch.
LookUp(c) ==
    LET r == streams[c].run
    IN /\ At(c, "opening")
       /\ \/ status[r] = "absent" /\ GoTo(c, "closed")
          \/ /\ status[r] # "absent"
             /\ streams' = [streams EXCEPT ![c].step = "starting",
                                           ![c].over = (status[r] = "over")]
       /\ UNCHANGED <<logVars, barred, received>>

\* open_stream: the first batch; nothing left of a run that was over ends it.
Start(c) ==
    LET batch == Batch(streams[c].run, streams[c].cursor)
    IN /\ At(c, "starting")
       /\ streams' = [streams EXCEPT
            ![c].batch = batch,
            ![c].step = IF batch # <<>> THEN "sending"
                        ELSE IF streams[c].over THEN "ended" ELSE "idle"]
       /\ UNCHANGED <<logVars, barred, received>>

\* _limited_stream: no chunk without renewing the permit first.
Grant(c) ==
    /\ At(c, "sending")
    /\ GoTo(c, IF barred[c] THEN "closed" ELSE "granted")
    /\ UNCHANGED <<logVars, barred, received>>

\* _stream: the next event of the batch; one that is no status ends the stream.
Send(c) ==
    LET d == streams[c]
        e == Head(d.batch)
        rest == Tail(d.batch)
    IN /\ At(c, "granted")
       /\ received' = [received EXCEPT ![c] = Append(@, e)]
       /\ streams' = [streams EXCEPT
            ![c].cursor = e.sequence,
            ![c].batch = rest,
            ![c].step = IF e.kind = "end" THEN "ended"
                        ELSE IF rest = <<>> THEN "reading" ELSE "sending"]
       /\ UNCHANGED <<logVars, barred>>

\* _stream with nothing to send: a heartbeat, under the permit like any chunk, or
\* none, and a pause.
HeartBeat(c) ==
    /\ At(c, "idle")
    /\ GoTo(c, IF barred[c] THEN "closed" ELSE "reading")
    /\ UNCHANGED <<logVars, barred, received>>

Pause(c) ==
    /\ At(c, "idle")
    /\ GoTo(c, "reading")
    /\ UNCHANGED <<logVars, barred, received>>

\* Mutant of Read: only a full batch is sent.
ReadFullBatches(c) ==
    LET batch == Batch(streams[c].run, streams[c].cursor)
    IN /\ At(c, "reading")
       /\ streams' = [streams EXCEPT
            ![c].batch = batch,
            ![c].step = IF Len(batch) = BatchSize THEN "sending" ELSE "looking"]
       /\ UNCHANGED <<logVars, barred, received>>

Read(c) ==
    LET batch == Batch(streams[c].run, streams[c].cursor)
    IN /\ At(c, "reading")
       /\ streams' = [streams EXCEPT
            ![c].batch = batch,
            ![c].step = IF batch # <<>> THEN "sending" ELSE "looking"]
       /\ UNCHANGED <<logVars, barred, received>>

\* Mutants of Look: a run that is over ends the stream at once; one that is gone
\* is waited for.
LookOnce(c) ==
    /\ At(c, "looking")
    /\ GoTo(c, CASE status[streams[c].run] = "absent" -> "closed"
                 [] status[streams[c].run] = "over" -> "ended"
                 [] OTHER -> "idle")
    /\ UNCHANGED <<logVars, barred, received>>

LookForLife(c) ==
    /\ At(c, "looking")
    /\ GoTo(c, IF status[streams[c].run] = "over" THEN "rereading" ELSE "idle")
    /\ UNCHANGED <<logVars, barred, received>>

\* _stream after an empty batch: the run may have ended since.
Look(c) ==
    /\ At(c, "looking")
    /\ GoTo(c, CASE status[streams[c].run] = "absent" -> "closed"
                 [] status[streams[c].run] = "over" -> "rereading"
                 [] OTHER -> "idle")
    /\ UNCHANGED <<logVars, barred, received>>

\* _stream: the events written before the run was seen to be over.
Reread(c) ==
    LET batch == Batch(streams[c].run, streams[c].cursor)
    IN /\ At(c, "rereading")
       /\ streams' = [streams EXCEPT
            ![c].batch = batch,
            ![c].step = IF batch # <<>> THEN "sending" ELSE "ended"]
       /\ UNCHANGED <<logVars, barred, received>>

\* The client disconnects, storage fails or the process dies.
Cut(c) ==
    /\ Open(c)
    /\ GoTo(c, "closed")
    /\ UNCHANGED <<logVars, barred, received>>

\* The client forgets its run and turns to another, or to the same from the start.
TurnTo(c, r) ==
    /\ ~Open(c)
    /\ streams[c] # Anew(r) \/ received[c] # <<>>
    /\ streams' = [streams EXCEPT ![c] = Anew(r)]
    /\ received' = [received EXCEPT ![c] = <<>>]
    /\ UNCHANGED <<logVars, barred>>

\* The lease of the permit expires, or its key does or is revoked.
Bar(c) ==
    /\ Open(c) /\ ~barred[c]
    /\ barred' = [barred EXCEPT ![c] = TRUE]
    /\ UNCHANGED <<logVars, streams, received>>

-----------------------------------------------------------------------------
Init ==
    /\ LogInit
    /\ streams \in [Clients -> {Anew(r) : r \in RunIds}]
    /\ barred = [c \in Clients |-> FALSE]
    /\ received = [c \in Clients |-> <<>>]

Serve(c) ==
    \/ LookUp(c) \/ Start(c) \/ Grant(c) \/ Send(c) \/ HeartBeat(c) \/ Pause(c)
    \/ Read(c) \/ Look(c) \/ Reread(c)

\* The run goes on: one event fewer than MaxEvents leaves room for its end.
Live ==
    /\ \E r \in RunIds :
        \/ Fresh(r) /\ Begin(r)
        \/ Len(log[r]) < MaxEvents - 1 /\ Write(r, "status")
        \/ Len(log[r]) < MaxEvents /\ Write(r, "end")
        \/ status[r] # "absent" /\ Drop({r})
    /\ UNCHANGED streamVars

Next ==
    \/ Live
    \/ \E c \in Clients :
        \/ Serve(c) \/ Cut(c) \/ Bar(c)
        \/ \E r \in RunIds : Connect(c, r) \/ TurnTo(c, r)

Spec == Init /\ [][Next]_vars

\* The event loop runs every stream (weak fairness of each), its consumer takes or
\* cuts what is yielded, and a stream that pauses for ever sends heartbeats for ever
\* (strong fairness): fifteen seconds are sixty pauses.
Fairness ==
    \A c \in Clients : WF_vars(Serve(c)) /\ SF_vars(HeartBeat(c))

FairSpec == Spec /\ Fairness

-----------------------------------------------------------------------------
\* Every variable has its type.
StreamTypeOK ==
    /\ status \in [RunIds -> {"absent", "live", "over"}]
    /\ log \in [RunIds -> Seq(LogEvents)]
    /\ streams \in [Clients -> Streams]
    /\ barred \in [Clients -> BOOLEAN]
    /\ received \in [Clients -> Seq(LogEvents)]

\* Over any number of connections, batches and races with the writer, a client has
\* processed a prefix of the log: no gap, no duplicate, no reordering (_stream,
\* _read_batch, Last-Event-ID).
ReceivedIsAPrefix ==
    \A c \in Clients :
        LET written == log[streams[c].run]
        IN status[streams[c].run] # "absent"
            => /\ Len(received[c]) <= Len(written)
               /\ \A i \in 1..Len(received[c]) : received[c][i] = written[i]

\* A stream the server finishes by itself has delivered the whole log, the event that
\* ends the run included, however the end raced with the reads (_stream, open_stream).
EndedIsComplete ==
    \A c \in Clients :
        At(c, "ended") /\ status[streams[c].run] # "absent"
            => status[streams[c].run] = "over" /\ received[c] = log[streams[c].run]

\* A stream of a run that is over or gone does not stay open, nor (docs/api.md:230) one
\* whose permit lapsed or whose key was revoked, even if its run never writes again
\* (_stream, _limited_stream, heartbeats).
StreamsEnd ==
    \A c \in Clients :
        Open(c) /\ (status[streams[c].run] # "live" \/ barred[c]) ~> ~Open(c)

\* What is written while a stream is open reaches its client, unless the stream is cut.
EventsArrive ==
    \A c \in Clients : \A n \in 1..MaxEvents :
        Open(c) /\ Len(log[streams[c].run]) >= n ~> ~Open(c) \/ Len(received[c]) >= n
=============================================================================

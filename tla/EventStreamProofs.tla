------------------------- MODULE EventStreamProofs --------------------------
(***************************************************************************)
(* Theorems of EventStream, for any number of runs and clients, any batch  *)
(* size and logs of any length.                                            *)
(*                                                                         *)
(* The inductive invariant says where each stream stands in the log of its *)
(* run: its cursor is what its client has processed, its batch is what     *)
(* comes next, and what it believes of the run's end is true (InStep).     *)
(* The log itself is numbered, and ends where its run does (LogIsSound).   *)
(***************************************************************************)
EXTENDS EventStream, SequenceTheorems, TLAPS

LogIsSound ==
    \A r \in RunIds :
        /\ \A i \in 1..Len(log[r]) : log[r][i].sequence = i
        /\ status[r] = "absent" => log[r] = <<>>
        /\ status[r] = "live" => \A i \in 1..Len(log[r]) : log[r][i].kind = "status"
        /\ status[r] = "over" =>
            /\ Len(log[r]) > 0 /\ log[r][Len(log[r])].kind = "end"
            /\ \A i \in 1..Len(log[r]) - 1 : log[r][i].kind = "status"

\* Where the stream of a client stands in the log of its run, as long as it has one.
InStep(c) ==
    LET d == streams[c]
        x == received[c]
        written == log[d.run]
    IN /\ d.step \in {"sending", "granted"} => Len(d.batch) > 0
       /\ status[d.run] # "absent" =>
            /\ Len(x) <= Len(written)
            /\ \A i \in 1..Len(x) : x[i] = written[i]
            /\ d.step \notin {"closed", "ended"} => d.cursor = Len(x)
            /\ d.step \in {"sending", "granted"} =>
                /\ d.cursor + Len(d.batch) <= Len(written)
                /\ \A i \in 1..Len(d.batch) : d.batch[i] = written[d.cursor + i]
            /\ d.step = "starting" /\ d.over => status[d.run] = "over"
            /\ d.step = "rereading" => status[d.run] = "over"
            /\ d.step = "ended" => status[d.run] = "over" /\ Len(x) = Len(written)

StreamInv == StreamTypeOK /\ LogIsSound /\ \A c \in Clients : InStep(c)

-----------------------------------------------------------------------------
LEMMA BatchElements ==
    ASSUME StreamTypeOK, NEW r \in RunIds, NEW cursor \in Nat
    PROVE  /\ Batch(r, cursor) \in Seq(LogEvents)
           /\ cursor <= Len(log[r]) =>
                /\ cursor + Len(Batch(r, cursor)) <= Len(log[r])
                /\ \A i \in 1..Len(Batch(r, cursor)) : Batch(r, cursor)[i] = log[r][cursor + i]
                /\ Batch(r, cursor) = <<>> => cursor = Len(log[r])
           /\ Batch(r, cursor) # <<>> => Len(Batch(r, cursor)) > 0
<1> DEFINE s == log[r]
           m == cursor + 1
           n == IF cursor + BatchSize < Len(s) THEN cursor + BatchSize ELSE Len(s)
<1>1. s \in Seq(LogEvents) /\ Len(s) \in Nat /\ m \in Nat /\ n \in Nat /\ n <= Len(s)
    BY StreamAssumption DEF StreamTypeOK
<1>2. Batch(r, cursor) = SubSeq(s, m, n)
    BY DEF Batch
<1>3. CASE cursor <= Len(s)
    <2>1. m \in Int /\ n \in Int /\ n >= m - 1 /\ (n = m - 1 => cursor = Len(s))
        BY <1>1, <1>3, StreamAssumption
    <2>2. \A i \in m..n : s[i] \in LogEvents
        BY <1>1
    <2> HIDE DEF s, n
    <2>3. /\ SubSeq(s, m, n) \in Seq(LogEvents)
          /\ Len(SubSeq(s, m, n)) = n - m + 1
          /\ \A i \in 1..n - m + 1 : SubSeq(s, m, n)[i] = s[m + i - 1]
        <3> HIDE DEF m
        <3>1. /\ SubSeq(s, m, n) \in Seq(LogEvents)
              /\ Len(SubSeq(s, m, n)) = IF m <= n THEN n - m + 1 ELSE 0
              /\ \A i \in 1..n - m + 1 : SubSeq(s, m, n)[i] = s[m + i - 1]
            BY <2>1, <2>2, SubSeqProperties
        <3> QED BY <2>1, <3>1
    <2>4. Batch(r, cursor) = <<>> => n = m - 1
        BY <1>2, <2>1, <2>3
    <2>5. \A i \in 1..n - m + 1 : s[m + i - 1] = s[cursor + i]
        BY <2>1
    <2>6. cursor + (n - m + 1) <= Len(s) /\ n - m + 1 \in Nat
        BY <1>1, <2>1
    <2>7. Batch(r, cursor) # <<>> => Len(Batch(r, cursor)) > 0
        BY <1>2, <2>3
    <2> HIDE DEF m
    <2> QED BY <1>2, <2>1, <2>3, <2>4, <2>5, <2>6, <2>7 DEF s
<1>4. CASE cursor > Len(s)
    <2>1. n < m
        BY <1>1, <1>4
    <2> HIDE DEF s, m, n
    <2>2. SubSeq(s, m, n) = <<>>
        BY <1>1, <2>1
    <2> QED BY <1>1, <1>2, <1>4, <2>2 DEF s
<1> QED BY <1>1, <1>3, <1>4

LEMMA UnreadIsAStream ==
    ASSUME NEW step \in Steps, NEW r \in RunIds, NEW cursor \in Nat
    PROVE  Unread(step, r, cursor) \in Streams
<1>1. <<>> \in Seq(LogEvents)
    OBVIOUS
<1> QED BY <1>1 DEF Unread, Streams

LEMMA InitHolds == Init => StreamInv
<1> SUFFICES ASSUME Init PROVE StreamInv
    OBVIOUS
<1>1. \A c \in Clients : streams[c] \in {Anew(r) : r \in RunIds}
    BY DEF Init
<1>2. \A r \in RunIds : Anew(r) \in Streams /\ Anew(r).step = "closed"
    BY UnreadIsAStream DEF Anew, Unread, Steps
<1>3. StreamTypeOK
    <2>1. streams \in [Clients -> Streams]
        BY <1>2 DEF Init
    <2> QED BY <2>1 DEF Init, LogInit, StreamTypeOK
<1>4. LogIsSound
    <2>1. \A r \in RunIds : log[r] = <<>> /\ status[r] = "absent"
        BY DEF Init, LogInit
    <2>2. \A r \in RunIds : Len(log[r]) = 0
        <3>1. Len(<<>>) = 0
            OBVIOUS
        <3> QED BY <2>1, <3>1, Zenon
    <2>3. ASSUME NEW r \in RunIds PROVE \A i \in 1..Len(log[r]) : FALSE
        BY <2>2
    <2> QED BY <2>1, <2>3 DEF LogIsSound
<1>5. ASSUME NEW c \in Clients PROVE InStep(c)
    <2>1. streams[c].step = "closed" /\ status[streams[c].run] = "absent"
        <3>1. PICK r \in RunIds : streams[c] = Anew(r)
            BY <1>1
        <3>2. streams[c].step = "closed" /\ streams[c].run = r
            BY <3>1 DEF Anew, Unread
        <3> QED BY <3>2 DEF Init, LogInit
    <2> QED BY <2>1 DEF InStep
<1> QED BY <1>3, <1>4, <1>5 DEF StreamInv

\* A step of one stream: nothing but its own row changes.
OwnStep(c) ==
    /\ streams' = [streams EXCEPT ![c] = streams'[c]]
    /\ received' = [received EXCEPT ![c] = received'[c]]
    /\ UNCHANGED logVars

LEMMA OwnStepKeeps ==
    ASSUME StreamInv, NEW c \in Clients, OwnStep(c), InStep(c)',
           streams'[c] \in Streams, received'[c] \in Seq(LogEvents),
           barred' \in [Clients -> BOOLEAN]
    PROVE  StreamInv'
<1>1. StreamTypeOK'
    BY DEF OwnStep, StreamInv, StreamTypeOK, logVars
<1>2. LogIsSound'
    BY DEF OwnStep, StreamInv, LogIsSound, logVars
<1>3. ASSUME NEW e \in Clients PROVE InStep(e)'
    <2>1. CASE e = c
        BY <2>1
    <2>2. CASE e # c
        <3>1. streams'[e] = streams[e] /\ received'[e] = received[e]
              /\ log' = log /\ status' = status
            BY <2>2 DEF OwnStep, StreamInv, StreamTypeOK, logVars
        <3>2. InStep(e)
            BY DEF StreamInv
        <3> QED BY <3>1, <3>2 DEF InStep
    <2> QED BY <2>1, <2>2
<1> QED BY <1>1, <1>2, <1>3 DEF StreamInv

LEMMA ConnectStep ==
    ASSUME StreamInv, NEW c \in Clients, NEW r \in RunIds, Connect(c, r) \/ TurnTo(c, r)
    PROVE  StreamInv'
<1>1. CASE Connect(c, r)
    <2> DEFINE d == Unread("opening", r, Len(received[c]))
    <2>1. /\ d \in Streams /\ d.step = "opening" /\ d.run = r /\ d.cursor = Len(received[c])
          /\ received[c] \in Seq(LogEvents)
        <3>1. received[c] \in Seq(LogEvents) /\ Len(received[c]) \in Nat
            BY DEF StreamInv, StreamTypeOK
        <3> QED BY <3>1, UnreadIsAStream DEF Unread, Steps
    <2>2. /\ streams' = [streams EXCEPT ![c] = d] /\ streams'[c] = d
          /\ received' = received /\ log' = log /\ status' = status
          /\ barred' \in [Clients -> BOOLEAN]
          /\ received[c] # <<>> => streams[c].run = r
        BY <1>1 DEF Connect, StreamInv, StreamTypeOK, logVars
    <2> HIDE DEF d
    <2>3. InStep(c)'
        <3>1. InStep(c)
            BY DEF StreamInv
        <3> QED BY <2>1, <2>2, <3>1 DEF InStep
    <2>4. OwnStep(c)
        BY <2>2 DEF OwnStep, StreamInv, StreamTypeOK, logVars
    <2> QED BY <2>1, <2>2, <2>3, <2>4, OwnStepKeeps
<1>2. CASE TurnTo(c, r)
    <2>1. Anew(r) \in Streams /\ Anew(r).step = "closed" /\ Anew(r).run = r
        BY UnreadIsAStream DEF Anew, Unread, Steps
    <2>2. /\ streams' = [streams EXCEPT ![c] = Anew(r)] /\ streams'[c] = Anew(r)
          /\ received' = [received EXCEPT ![c] = <<>>] /\ received'[c] = <<>>
          /\ log' = log /\ status' = status /\ barred' \in [Clients -> BOOLEAN]
        BY <1>2 DEF TurnTo, StreamInv, StreamTypeOK, logVars
    <2>3. InStep(c)'
        BY <2>1, <2>2 DEF InStep, StreamInv, StreamTypeOK
    <2>4. OwnStep(c)
        BY <2>2 DEF OwnStep, logVars
    <2>5. <<>> \in Seq(LogEvents)
        OBVIOUS
    <2>6. streams'[c] \in Streams /\ received'[c] \in Seq(LogEvents)
        BY <2>1, <2>2, <2>5
    <2> QED BY <2>2, <2>3, <2>4, <2>6, OwnStepKeeps
<1> QED BY <1>1, <1>2

\* A step that moves the stream on without touching its batch or its client.
LEMMA MoveStep ==
    ASSUME StreamInv, NEW c \in Clients, NEW step \in Steps, GoTo(c, step),
           step \in {"sending", "granted"} => streams[c].step \in {"sending", "granted"},
           step # "closed" => Open(c),
           step = "starting" => streams[c].step = "starting",
           step = "rereading" => status[streams[c].run] = "over",
           step # "ended",
           UNCHANGED <<logVars, received>>, barred' \in [Clients -> BOOLEAN]
    PROVE  StreamInv'
<1>1. streams[c] \in Streams /\ received[c] \in Seq(LogEvents) /\ InStep(c)
    BY DEF StreamInv, StreamTypeOK
<1>2. /\ streams' = [streams EXCEPT ![c].step = step]
      /\ streams'[c] = [streams[c] EXCEPT !.step = step]
      /\ streams' = [streams EXCEPT ![c] = streams'[c]]
      /\ received' = received /\ log' = log /\ status' = status
    BY DEF GoTo, StreamInv, StreamTypeOK, logVars
<1>3. /\ streams'[c] \in Streams /\ streams'[c].step = step
      /\ streams'[c].run = streams[c].run /\ streams'[c].cursor = streams[c].cursor
      /\ streams'[c].batch = streams[c].batch /\ streams'[c].over = streams[c].over
    BY <1>1, <1>2 DEF Streams
<1>4. InStep(c)'
    BY <1>1, <1>2, <1>3 DEF InStep, Open
<1>5. OwnStep(c)
    BY <1>2 DEF OwnStep, StreamInv, StreamTypeOK, logVars
<1> QED BY <1>1, <1>2, <1>3, <1>4, <1>5, OwnStepKeeps

\* A read: the next batch goes to the client, or the stream moves on without one.
LEMMA ReadStep ==
    ASSUME StreamInv, NEW c \in Clients, NEW step \in {"ended", "idle", "looking"}, Open(c),
           LET batch == Batch(streams[c].run, streams[c].cursor)
           IN streams' = [streams EXCEPT
                ![c].batch = batch,
                ![c].step = IF batch # <<>> THEN "sending" ELSE step],
           step = "ended" => \/ status[streams[c].run] = "over"
                             \/ status[streams[c].run] = "absent",
           UNCHANGED <<logVars, barred, received>>
    PROVE  StreamInv'
<1> DEFINE d == streams[c]
           batch == Batch(d.run, d.cursor)
           next == IF batch # <<>> THEN "sending" ELSE step
<1>1. d \in Streams /\ received[c] \in Seq(LogEvents) /\ InStep(c)
    BY DEF StreamInv, StreamTypeOK
<1>2. d.run \in RunIds /\ d.cursor \in Nat /\ d.step \notin {"closed", "ended"}
    BY <1>1 DEF Streams, Open
<1>3. /\ batch \in Seq(LogEvents)
      /\ d.cursor <= Len(log[d.run]) =>
            /\ d.cursor + Len(batch) <= Len(log[d.run])
            /\ \A i \in 1..Len(batch) : batch[i] = log[d.run][d.cursor + i]
            /\ batch = <<>> => d.cursor = Len(log[d.run])
      /\ batch # <<>> => Len(batch) > 0
    BY <1>2, BatchElements DEF StreamInv
<1>4. /\ streams'[c] = [d EXCEPT !.batch = batch, !.step = next]
      /\ streams' = [streams EXCEPT ![c] = streams'[c]]
      /\ received' = received /\ log' = log /\ status' = status /\ barred' = barred
    BY <1>1 DEF StreamInv, StreamTypeOK, logVars
<1> HIDE DEF d, batch
<1>5. next \in Steps /\ (batch # <<>> => next = "sending") /\ (batch = <<>> => next = step)
    BY DEF Steps
<1> HIDE DEF next
<1>6. /\ streams'[c] \in Streams /\ streams'[c].step = next /\ streams'[c].run = d.run
      /\ streams'[c].cursor = d.cursor /\ streams'[c].batch = batch
      /\ streams'[c].over = d.over
    <2>1. batch \in Seq(LogEvents) /\ next \in Steps
        BY <1>3, <1>5
    <2>2. LET new == [d EXCEPT !.batch = batch, !.step = next]
          IN /\ new \in Streams
             /\ new.step = next /\ new.run = d.run /\ new.cursor = d.cursor
             /\ new.batch = batch /\ new.over = d.over
        BY <1>1, <2>1 DEF Streams
    <2>3. streams'[c] = [d EXCEPT !.batch = batch, !.step = next]
        BY <1>4
    <2> QED BY <2>2, <2>3
<1>7. status[d.run] # "absent" => d.cursor = Len(received[c]) /\ Len(received[c]) <= Len(log[d.run])
    BY <1>1, <1>2 DEF InStep, d
<1>8. InStep(c)'
    <2>1. /\ log'[streams'[c].run] = log[d.run] /\ status'[streams'[c].run] = status[d.run]
          /\ received'[c] = received[c]
        BY <1>4, <1>6
    <2>2. next \in {"sending", "ended", "idle", "looking"}
        BY <1>5
    <2>3. next = "sending" => Len(batch) > 0
        BY <1>3, <1>5
    <2>4. ASSUME status[d.run] # "absent"
          PROVE  /\ Len(received[c]) <= Len(log[d.run])
                 /\ \A i \in 1..Len(received[c]) : received[c][i] = log[d.run][i]
                 /\ d.cursor = Len(received[c])
        BY <1>1, <1>2, <2>4 DEF InStep, d
    <2>5. ASSUME status[d.run] # "absent", next = "ended"
          PROVE  status[d.run] = "over" /\ Len(received[c]) = Len(log[d.run])
        BY <1>3, <1>5, <2>4, <2>5 DEF d
    <2>6. ASSUME status[d.run] # "absent"
          PROVE  /\ d.cursor + Len(batch) <= Len(log[d.run])
                 /\ \A i \in 1..Len(batch) : batch[i] = log[d.run][d.cursor + i]
        BY <1>3, <2>4, <2>6
    <2> QED BY <1>6, <2>1, <2>2, <2>3, <2>4, <2>5, <2>6 DEF InStep
<1>9. OwnStep(c)
    BY <1>4 DEF OwnStep, StreamInv, StreamTypeOK, logVars
<1>10. barred' \in [Clients -> BOOLEAN] /\ received'[c] \in Seq(LogEvents)
    BY <1>1, <1>4 DEF StreamInv, StreamTypeOK
<1> QED BY <1>6, <1>8, <1>9, <1>10, OwnStepKeeps

LEMMA SendStep == ASSUME StreamInv, NEW c \in Clients, Send(c) PROVE StreamInv'
<1> DEFINE d == streams[c]
           e == Head(d.batch)
           rest == Tail(d.batch)
           x == received[c]
           written == log[d.run]
           next == IF e.kind = "end" THEN "ended" ELSE IF rest = <<>> THEN "reading" ELSE "sending"
<1>1. /\ d \in Streams /\ x \in Seq(LogEvents) /\ InStep(c) /\ d.step = "granted"
      /\ written \in Seq(LogEvents) /\ d.run \in RunIds
    BY DEF StreamInv, StreamTypeOK, Send, At, Streams
<1>2. d.batch \in Seq(LogEvents) /\ d.batch # <<>> /\ Len(d.batch) > 0
    BY <1>1 DEF Streams, InStep
<1>3. /\ e \in LogEvents /\ rest \in Seq(LogEvents) /\ Len(rest) = Len(d.batch) - 1
      /\ e = d.batch[1] /\ \A i \in 1..Len(rest) : rest[i] = d.batch[i + 1]
    BY <1>2, HeadTailProperties
<1>4. e.sequence \in Nat /\ next \in Steps
    BY <1>3 DEF LogEvents, Steps
<1>5. /\ streams'[c] = [d EXCEPT !.cursor = e.sequence, !.batch = rest, !.step = next]
      /\ streams' = [streams EXCEPT ![c] = streams'[c]]
      /\ received'[c] = Append(x, e)
      /\ received' = [received EXCEPT ![c] = received'[c]]
      /\ log' = log /\ status' = status /\ barred' = barred
    BY DEF Send, StreamInv, StreamTypeOK, logVars
<1> HIDE DEF d, e, rest, x, written, next
<1>6. /\ streams'[c] \in Streams /\ streams'[c].step = next /\ streams'[c].run = d.run
      /\ streams'[c].cursor = e.sequence /\ streams'[c].batch = rest
    BY <1>1, <1>3, <1>4, <1>5 DEF Streams
<1>7. /\ received'[c] \in Seq(LogEvents) /\ Len(received'[c]) = Len(x) + 1 /\ Len(x) \in Nat
      /\ received'[c][Len(x) + 1] = e /\ \A i \in 1..Len(x) : received'[c][i] = x[i]
    BY <1>1, <1>3, <1>5
<1>8. status[d.run] # "absent" =>
        /\ d.cursor = Len(x) /\ Len(x) + Len(d.batch) <= Len(written)
        /\ \A i \in 1..Len(x) : x[i] = written[i]
        /\ \A i \in 1..Len(d.batch) : d.batch[i] = written[Len(x) + i]
    BY <1>1 DEF InStep, d, x, written
<1>9. status[d.run] # "absent" =>
        /\ e = written[Len(x) + 1] /\ e.sequence = Len(x) + 1 /\ Len(x) + 1 <= Len(written)
        /\ e.kind = "end" => status[d.run] = "over" /\ Len(x) + 1 = Len(written)
    <2> SUFFICES ASSUME status[d.run] # "absent"
                 PROVE  /\ e = written[Len(x) + 1] /\ e.sequence = Len(x) + 1
                        /\ Len(x) + 1 <= Len(written)
                        /\ e.kind = "end" => status[d.run] = "over" /\ Len(x) + 1 = Len(written)
        OBVIOUS
    <2>1. Len(written) \in Nat /\ Len(d.batch) \in Nat
        BY <1>1, <1>2
    <2>2. Len(x) + 1 \in 1..Len(written) /\ e = written[Len(x) + 1]
        <3>1. 1 \in 1..Len(d.batch) /\ Len(x) + 1 \in 1..Len(written)
            BY <1>2, <1>7, <1>8, <2>1
        <3>2. d.batch[1] = written[Len(x) + 1]
            BY <1>8, <3>1
        <3> QED BY <1>3, <3>1, <3>2
    <2>3. e.sequence = Len(x) + 1
        BY <1>1, <2>2 DEF StreamInv, LogIsSound, written
    <2>4. ASSUME e.kind = "end" PROVE status[d.run] = "over" /\ Len(x) + 1 = Len(written)
        <3>1. status[d.run] \in {"live", "over"}
            BY <1>1 DEF StreamInv, StreamTypeOK
        <3>2. status[d.run] # "live"
            BY <1>1, <2>2, <2>4 DEF StreamInv, LogIsSound, written
        <3>3. status[d.run] = "over" => Len(x) + 1 \notin 1..Len(written) - 1
            BY <1>1, <2>2, <2>4 DEF StreamInv, LogIsSound, written
        <3> QED BY <1>7, <2>1, <2>2, <3>1, <3>2, <3>3
    <2> QED BY <2>1, <2>2, <2>3, <2>4
<1>10. next = "sending" => Len(rest) > 0
    BY <1>2, <1>3 DEF next
<1>11. InStep(c)'
    <2>1. log'[streams'[c].run] = written /\ status'[streams'[c].run] = status[d.run]
        BY <1>5, <1>6 DEF written
    <2>2. next \in {"ended", "reading", "sending"} /\ (next = "ended" => e.kind = "end")
        BY DEF next
    <2>3. ASSUME status[d.run] # "absent"
          PROVE  /\ Len(received'[c]) <= Len(written)
                 /\ \A i \in 1..Len(received'[c]) : received'[c][i] = written[i]
                 /\ e.sequence = Len(received'[c])
                 /\ e.sequence + Len(rest) <= Len(written)
                 /\ \A i \in 1..Len(rest) : rest[i] = written[e.sequence + i]
        <3>1. Len(received'[c]) <= Len(written) /\ e.sequence = Len(received'[c])
            BY <1>7, <1>9, <2>3
        <3>2. \A i \in 1..Len(received'[c]) : received'[c][i] = written[i]
            BY <1>7, <1>8, <1>9, <2>3
        <3>3. Len(rest) \in Nat /\ Len(d.batch) \in Nat
            BY <1>2, <1>3
        <3>4. e.sequence + Len(rest) <= Len(written)
            BY <1>3, <1>7, <1>8, <1>9, <2>3, <3>3
        <3>5. ASSUME NEW i \in 1..Len(rest) PROVE rest[i] = written[e.sequence + i]
            <4>1. i + 1 \in 1..Len(d.batch) /\ Len(x) + (i + 1) = e.sequence + i
                <5>1. i \in Nat /\ 1 <= i /\ i <= Len(d.batch) - 1 /\ Len(d.batch) \in Nat
                    BY <1>3, <3>3
                <5>2. e.sequence = Len(x) + 1 /\ Len(x) \in Nat
                    BY <1>7, <1>9, <2>3
                <5> QED BY <5>1, <5>2
            <4>2. d.batch[i + 1] = written[Len(x) + (i + 1)]
                BY <1>8, <2>3, <4>1
            <4> QED BY <1>3, <4>1, <4>2
        <3> QED BY <3>1, <3>2, <3>4, <3>5
    <2> QED BY <1>6, <1>7, <1>9, <1>10, <2>1, <2>2, <2>3 DEF InStep
<1>12. OwnStep(c)
    BY <1>5 DEF OwnStep, logVars
<1>13. barred' \in [Clients -> BOOLEAN]
    BY <1>5 DEF StreamInv, StreamTypeOK
<1> QED BY <1>6, <1>7, <1>11, <1>12, <1>13, OwnStepKeeps

-----------------------------------------------------------------------------
\* A step of the server, or of the client it serves.
LEMMA ServeStep == ASSUME StreamInv, NEW c \in Clients, Serve(c) PROVE StreamInv'
<1>1. /\ streams[c] \in Streams /\ InStep(c) /\ barred \in [Clients -> BOOLEAN]
      /\ streams[c].run \in RunIds
    BY DEF StreamInv, StreamTypeOK, Streams
<1> USE DEF At
<1>2. CASE LookUp(c)
    <2> DEFINE r == streams[c].run
    <2>1. CASE status[r] = "absent"
        <3>1. GoTo(c, "closed") /\ UNCHANGED <<logVars, barred, received>>
            BY <1>2, <2>1 DEF LookUp
        <3> QED BY <1>1, <3>1, MoveStep DEF Steps
    <2>2. CASE status[r] # "absent"
        <3> DEFINE over == status[r] = "over"
                   d == [streams[c] EXCEPT !.step = "starting", !.over = over]
        <3>1. /\ streams' = [streams EXCEPT ![c] = d] /\ streams'[c] = d
              /\ streams[c].step = "opening"
              /\ received' = received /\ log' = log /\ status' = status /\ barred' = barred
            BY <1>1, <1>2, <2>2 DEF LookUp, StreamInv, StreamTypeOK, logVars
        <3>2. over \in BOOLEAN
            OBVIOUS
        <3>3. /\ d \in Streams /\ d.step = "starting" /\ d.run = r
              /\ d.cursor = streams[c].cursor /\ d.over = over
            <4> HIDE DEF over
            <4> QED BY <1>1, <3>2 DEF Streams, Steps
        <3> HIDE DEF d
        <3>4. InStep(c)'
            <4>1. /\ log'[streams'[c].run] = log[r] /\ status'[streams'[c].run] = status[r]
                  /\ received'[c] = received[c] /\ streams'[c].step = "starting"
                  /\ streams'[c].cursor = streams[c].cursor
                BY <3>1, <3>3
            <4>2. streams'[c].over => status[r] = "over"
                BY <3>1, <3>3
            <4>3. /\ Len(received[c]) <= Len(log[r])
                  /\ \A i \in 1..Len(received[c]) : received[c][i] = log[r][i]
                  /\ streams[c].cursor = Len(received[c])
                BY <1>1, <2>2, <3>1 DEF InStep
            <4> HIDE DEF r
            <4> QED BY <4>1, <4>2, <4>3 DEF InStep
        <3>5. OwnStep(c) /\ received'[c] \in Seq(LogEvents) /\ streams'[c] \in Streams
            BY <3>1, <3>3 DEF OwnStep, StreamInv, StreamTypeOK, logVars
        <3> QED BY <1>1, <3>1, <3>4, <3>5, OwnStepKeeps
    <2> QED BY <2>1, <2>2
<1>3. CASE Start(c)
    <2>1. CASE streams[c].over
        <3>1. status[streams[c].run] # "absent" => status[streams[c].run] = "over"
            BY <1>1, <1>3, <2>1 DEF Start, InStep
        <3> QED BY <1>3, <2>1, <3>1, ReadStep DEF Start, Open
    <2>2. CASE ~streams[c].over
        BY <1>3, <2>2, ReadStep DEF Start, Open
    <2> QED BY <2>1, <2>2
<1>4. CASE Grant(c)
    BY <1>1, <1>4, MoveStep DEF Grant, Steps, Open
<1>5. CASE Send(c)
    BY <1>5, SendStep
<1>6. CASE HeartBeat(c)
    BY <1>1, <1>6, MoveStep DEF HeartBeat, Steps, Open
<1>7. CASE Pause(c)
    BY <1>1, <1>7, MoveStep DEF Pause, Steps, Open
<1>8. CASE Read(c)
    BY <1>8, ReadStep DEF Read, Open
<1>9. CASE Look(c)
    <2> DEFINE step == CASE status[streams[c].run] = "absent" -> "closed"
                         [] status[streams[c].run] = "over" -> "rereading"
                         [] OTHER -> "idle"
    <2>1. /\ step \in {"closed", "rereading", "idle"}
          /\ step = "rereading" => status[streams[c].run] = "over"
        OBVIOUS
    <2>2. GoTo(c, step) /\ streams[c].step = "looking" /\ UNCHANGED <<logVars, barred, received>>
        BY <1>9 DEF Look
    <2> HIDE DEF step
    <2> QED BY <1>1, <2>1, <2>2, MoveStep DEF Steps, Open
<1>10. CASE Reread(c)
    <2>1. streams[c].step = "rereading"
        BY <1>10 DEF Reread
    <2>2. status[streams[c].run] # "absent" => status[streams[c].run] = "over"
        BY <1>1, <2>1 DEF InStep
    <2> QED BY <1>10, <2>1, <2>2, ReadStep DEF Reread, Open
<1> QED BY <1>2, <1>3, <1>4, <1>5, <1>6, <1>7, <1>8, <1>9, <1>10 DEF Serve

LEMMA CutOrBar ==
    ASSUME StreamInv, NEW c \in Clients, Cut(c) \/ Bar(c) PROVE StreamInv'
<1>1. barred \in [Clients -> BOOLEAN]
    BY DEF StreamInv, StreamTypeOK
<1>2. CASE Cut(c)
    BY <1>1, <1>2, MoveStep DEF Cut, Steps
<1>3. CASE Bar(c)
    <2>1. /\ streams' = streams /\ received' = received /\ log' = log /\ status' = status
          /\ barred' \in [Clients -> BOOLEAN]
        BY <1>1, <1>3 DEF Bar, logVars
    <2>2. StreamTypeOK' /\ LogIsSound'
        BY <2>1 DEF StreamInv, StreamTypeOK, LogIsSound
    <2>3. ASSUME NEW e \in Clients PROVE InStep(e)'
        BY <2>1 DEF StreamInv, InStep
    <2> QED BY <2>2, <2>3 DEF StreamInv
<1> QED BY <1>2, <1>3

-----------------------------------------------------------------------------
\* A step of the writer: the log of one run grows, or goes with its run.
LEMMA Grown ==
    ASSUME NEW s \in Seq(LogEvents), NEW kind \in {"status", "end"}
    PROVE  /\ Appended(s, kind) \in Seq(LogEvents)
           /\ Len(Appended(s, kind)) = Len(s) + 1 /\ Len(s) \in Nat
           /\ Appended(s, kind)[Len(s) + 1].sequence = Len(s) + 1
           /\ Appended(s, kind)[Len(s) + 1].kind = kind
           /\ \A i \in 1..Len(s) : Appended(s, kind)[i] = s[i]
<1> DEFINE e == [sequence |-> Len(s) + 1, kind |-> kind]
<1>1. e \in LogEvents /\ e.sequence = Len(s) + 1 /\ e.kind = kind
    BY DEF LogEvents
<1> HIDE DEF e
<1>2. Appended(s, kind) = Append(s, e)
    BY DEF Appended, e
<1> QED BY <1>1, <1>2

LEMMA GrowthStep ==
    ASSUME StreamInv, NEW r \in RunIds, NEW kind \in {"status", "end"},
           NEW now \in {"live", "over"},
           status[r] = "absent" => Fresh(r), status[r] # "over",
           now = "over" <=> kind = "end",
           status' = [status EXCEPT ![r] = now],
           log' = [log EXCEPT ![r] = Appended(log[r], kind)],
           UNCHANGED streamVars
    PROVE  StreamInv'
<1>1. /\ log[r] \in Seq(LogEvents) /\ status[r] \in {"absent", "live"}
      /\ streams' = streams /\ received' = received /\ barred' = barred
      /\ status'[r] = now /\ log'[r] = Appended(log[r], kind)
      /\ \A q \in RunIds : q # r => log'[q] = log[q] /\ status'[q] = status[q]
    BY DEF StreamInv, StreamTypeOK, streamVars
<1>2. /\ log'[r] \in Seq(LogEvents) /\ Len(log'[r]) = Len(log[r]) + 1 /\ Len(log[r]) \in Nat
      /\ log'[r][Len(log[r]) + 1].sequence = Len(log[r]) + 1
      /\ log'[r][Len(log[r]) + 1].kind = kind
      /\ \A i \in 1..Len(log[r]) : log'[r][i] = log[r][i]
    <2>1. /\ Appended(log[r], kind) \in Seq(LogEvents)
          /\ Len(Appended(log[r], kind)) = Len(log[r]) + 1 /\ Len(log[r]) \in Nat
          /\ Appended(log[r], kind)[Len(log[r]) + 1].sequence = Len(log[r]) + 1
          /\ Appended(log[r], kind)[Len(log[r]) + 1].kind = kind
          /\ \A i \in 1..Len(log[r]) : Appended(log[r], kind)[i] = log[r][i]
        BY <1>1, Grown
    <2> QED BY <1>1, <2>1
<1>3. StreamTypeOK'
    BY <1>1, <1>2 DEF StreamInv, StreamTypeOK
<1>4. LogIsSound'
    <2> SUFFICES ASSUME NEW q \in RunIds
                 PROVE  /\ \A i \in 1..Len(log'[q]) : log'[q][i].sequence = i
                        /\ status'[q] = "absent" => log'[q] = <<>>
                        /\ status'[q] = "live" =>
                            \A i \in 1..Len(log'[q]) : log'[q][i].kind = "status"
                        /\ status'[q] = "over" =>
                            /\ Len(log'[q]) > 0 /\ log'[q][Len(log'[q])].kind = "end"
                            /\ \A i \in 1..Len(log'[q]) - 1 : log'[q][i].kind = "status"
        BY DEF LogIsSound
    <2>1. CASE q # r
        BY <1>1, <2>1 DEF StreamInv, LogIsSound
    <2>2. CASE q = r
        <3>1. \A i \in 1..Len(log[r]) : log[r][i].sequence = i /\ log[r][i].kind = "status"
            BY <1>1, <1>2 DEF StreamInv, LogIsSound
        <3>2. ASSUME NEW i \in 1..Len(log'[r])
              PROVE  log'[r][i].sequence = i /\ (i <= Len(log[r]) => log'[r][i].kind = "status")
            <4>1. CASE i <= Len(log[r])
                BY <1>2, <3>1, <4>1
            <4>2. CASE i = Len(log[r]) + 1
                BY <1>2, <4>2
            <4> QED BY <1>2, <4>1, <4>2
        <3>3. CASE now = "live"
            <4>1. kind = "status"
                BY <3>3
            <4>2. \A i \in 1..Len(log'[r]) : log'[r][i].kind = "status"
                BY <1>2, <3>2, <4>1
            <4> QED BY <1>1, <2>2, <3>2, <3>3, <4>2
        <3>4. CASE now = "over"
            <4>1. kind = "end" /\ Len(log'[r]) > 0 /\ log'[r][Len(log'[r])].kind = "end"
                BY <1>2, <3>4
            <4>2. \A i \in 1..Len(log'[r]) - 1 : log'[r][i].kind = "status"
                BY <1>2, <3>2
            <4> QED BY <1>1, <2>2, <3>2, <3>4, <4>1, <4>2
        <3> QED BY <3>3, <3>4
    <2> QED BY <2>1, <2>2
<1>5. ASSUME NEW c \in Clients PROVE InStep(c)'
    <2> DEFINE d == streams[c]
               x == received[c]
    <2>1. /\ streams'[c] = d /\ received'[c] = x /\ InStep(c) /\ d.run \in RunIds
          /\ x \in Seq(LogEvents) /\ d \in Streams
        BY <1>1 DEF StreamInv, StreamTypeOK, Streams
    <2>2. CASE d.run # r
        BY <1>1, <2>1, <2>2 DEF InStep
    <2>3. CASE d.run = r /\ status[r] = "absent"
        <3>1. d.step = "closed" /\ x = <<>>
            BY <2>3 DEF Fresh, At
        <3>2. Len(x) = 0
            BY <3>1
        <3> HIDE DEF d, x
        <3>3. Len(x) <= Len(log'[r]) /\ \A i \in 1..Len(x) : x[i] = log'[r][i]
            BY <1>2, <3>2
        <3> QED BY <2>1, <2>3, <3>1, <3>3 DEF InStep
    <2>4. CASE d.run = r /\ status[r] = "live"
        <3>1. /\ Len(x) <= Len(log[r])
              /\ \A i \in 1..Len(x) : x[i] = log[r][i]
              /\ d.step \notin {"closed", "ended"} => d.cursor = Len(x)
              /\ d.step \in {"sending", "granted"} =>
                    /\ d.cursor + Len(d.batch) <= Len(log[r])
                    /\ \A i \in 1..Len(d.batch) : d.batch[i] = log[r][d.cursor + i]
              /\ ~(d.step = "starting" /\ d.over)
              /\ d.step # "rereading" /\ d.step # "ended"
              /\ d.step \in {"sending", "granted"} => Len(d.batch) > 0
            BY <2>1, <2>4 DEF InStep
        <3>2. Len(x) \in Nat /\ Len(d.batch) \in Nat /\ d.cursor \in Nat
            BY <2>1 DEF Streams
        <3> HIDE DEF d, x
        <3>3. Len(x) <= Len(log'[r]) /\ \A i \in 1..Len(x) : x[i] = log'[r][i]
            BY <1>2, <3>1, <3>2
        <3>4. ASSUME d.step \in {"sending", "granted"}
              PROVE  /\ d.cursor + Len(d.batch) <= Len(log'[r])
                     /\ \A i \in 1..Len(d.batch) : d.batch[i] = log'[r][d.cursor + i]
            <4>1. ASSUME NEW i \in 1..Len(d.batch) PROVE d.cursor + i \in 1..Len(log[r])
                <5>1. i \in Nat /\ 1 <= i /\ i <= Len(d.batch)
                    BY <3>2
                <5>2. d.cursor + Len(d.batch) <= Len(log[r])
                    BY <3>1, <3>4
                <5> QED BY <1>2, <3>2, <5>1, <5>2
            <4>2. d.cursor + Len(d.batch) <= Len(log[r])
                BY <3>1, <3>4
            <4>3. d.cursor + Len(d.batch) <= Len(log'[r])
                BY <1>2, <3>2, <4>2
            <4>4. ASSUME NEW i \in 1..Len(d.batch) PROVE d.batch[i] = log'[r][d.cursor + i]
                <5>1. d.batch[i] = log[r][d.cursor + i]
                    BY <3>1, <3>4
                <5> QED BY <1>2, <4>1, <5>1
            <4> QED BY <4>3, <4>4
        <3> QED BY <2>1, <2>4, <3>1, <3>3, <3>4 DEF InStep
    <2> QED BY <1>1, <2>2, <2>3, <2>4
<1> QED BY <1>3, <1>4, <1>5 DEF StreamInv

LEMMA DropStep ==
    ASSUME StreamInv, NEW r \in RunIds, Drop({r}), UNCHANGED streamVars
    PROVE  StreamInv'
<1>1. /\ streams' = streams /\ received' = received /\ barred' = barred
      /\ \A q \in RunIds : q # r => log'[q] = log[q] /\ status'[q] = status[q]
      /\ log'[r] = <<>> /\ status'[r] = "absent"
    BY DEF Drop, streamVars
<1>2. StreamTypeOK'
    <2>1. <<>> \in Seq(LogEvents)
        OBVIOUS
    <2>2. \A q \in RunIds : /\ (IF q \in {r} THEN "absent" ELSE status[q]) \in {"absent", "live", "over"}
                            /\ (IF q \in {r} THEN <<>> ELSE log[q]) \in Seq(LogEvents)
        BY <2>1 DEF StreamInv, StreamTypeOK
    <2> QED BY <1>1, <2>2 DEF Drop, StreamInv, StreamTypeOK
<1>3. LogIsSound'
    <2>1. ASSUME NEW i \in 1..Len(log'[r]) PROVE FALSE
        <3>1. Len(<<>>) = 0
            OBVIOUS
        <3>2. Len(log'[r]) = 0
            BY <1>1, <3>1, Zenon
        <3> QED BY <3>2
    <2> QED BY <1>1, <2>1 DEF StreamInv, LogIsSound
<1>4. ASSUME NEW c \in Clients PROVE InStep(c)'
    <2>1. InStep(c) /\ streams[c].run \in RunIds
        BY DEF StreamInv, StreamTypeOK, Streams
    <2> QED BY <1>1, <2>1 DEF InStep
<1> QED BY <1>2, <1>3, <1>4 DEF StreamInv

LEMMA LiveStep == ASSUME StreamInv, Live PROVE StreamInv'
<1>1. UNCHANGED streamVars
    BY DEF Live
<1>2. PICK r \in RunIds : \/ Fresh(r) /\ Begin(r)
                          \/ Write(r, "status") \/ Write(r, "end") \/ Drop({r})
    BY DEF Live
<1>3. CASE Fresh(r) /\ Begin(r)
    <2>1. log[r] = <<>> /\ status[r] = "absent"
        BY <1>3 DEF Begin, StreamInv, LogIsSound
    <2> QED BY <1>1, <1>3, <2>1, GrowthStep DEF Begin
<1>4. CASE Write(r, "status")
    BY <1>1, <1>4, GrowthStep DEF Write
<1>5. CASE Write(r, "end")
    BY <1>1, <1>5, GrowthStep DEF Write
<1>6. CASE Drop({r})
    BY <1>1, <1>6, DropStep
<1> QED BY <1>2, <1>3, <1>4, <1>5, <1>6

-----------------------------------------------------------------------------
\* No step of a stream, of its client or of the writer breaks the place each stream
\* has in its log (_stream, open_stream, _append_run_event).
THEOREM StreamInvariance == Spec => []StreamInv
<1>1. Init => StreamInv
    BY InitHolds
<1>2. StreamInv /\ [Next]_vars => StreamInv'
    <2> SUFFICES ASSUME StreamInv, [Next]_vars PROVE StreamInv'
        OBVIOUS
    <2>1. CASE Live
        BY <2>1, LiveStep
    <2>2. ASSUME NEW c \in Clients, Serve(c) PROVE StreamInv'
        BY <2>2, ServeStep
    <2>3. ASSUME NEW c \in Clients, Cut(c) \/ Bar(c) PROVE StreamInv'
        BY <2>3, CutOrBar
    <2>4. ASSUME NEW c \in Clients, NEW r \in RunIds, Connect(c, r) \/ TurnTo(c, r)
          PROVE  StreamInv'
        BY <2>4, ConnectStep
    <2>5. CASE UNCHANGED vars
        BY <2>5 DEF vars, logVars, streamVars, StreamInv, StreamTypeOK, LogIsSound, InStep
    <2> QED BY <2>1, <2>2, <2>3, <2>4, <2>5 DEF Next
<1> QED BY <1>1, <1>2, PTL DEF Spec

\* Every variable has its type, for logs of any length.
THEOREM StreamTypes == Spec => []StreamTypeOK
<1>1. StreamInv => StreamTypeOK
    BY DEF StreamInv
<1> QED BY <1>1, StreamInvariance, PTL

\* A client has processed a prefix of its run's log, over any number of connections.
THEOREM ReceivedStaysAPrefix == Spec => []ReceivedIsAPrefix
<1>1. StreamInv => ReceivedIsAPrefix
    BY DEF StreamInv, InStep, ReceivedIsAPrefix
<1> QED BY <1>1, StreamInvariance, PTL

\* A stream that the server finished has delivered the whole log of a run that is over.
THEOREM EndsAreComplete == Spec => []EndedIsComplete
<1>1. ASSUME StreamInv, NEW c \in Clients,
             streams[c].step = "ended", status[streams[c].run] # "absent"
      PROVE  status[streams[c].run] = "over" /\ received[c] = log[streams[c].run]
    <2> DEFINE x == received[c]
               written == log[streams[c].run]
    <2>1. x \in Seq(LogEvents) /\ written \in Seq(LogEvents)
        BY <1>1 DEF StreamInv, StreamTypeOK, Streams
    <2>2. /\ status[streams[c].run] = "over" /\ Len(x) = Len(written)
          /\ \A i \in 1..Len(x) : x[i] = written[i]
        BY <1>1 DEF StreamInv, InStep
    <2> HIDE DEF x, written
    <2>3. x = written
        BY <2>1, <2>2, SeqEqual
    <2> QED BY <2>2, <2>3 DEF x, written
<1>2. StreamInv => EndedIsComplete
    BY <1>1 DEF EndedIsComplete, At
<1> QED BY <1>2, StreamInvariance, PTL
=============================================================================

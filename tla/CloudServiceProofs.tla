------------------------- MODULE CloudServiceProofs -------------------------
(***************************************************************************)
(* Theorems of CloudService, for any number of runs, sessions, handlers    *)
(* and cloud tasks: what its many small transactions preserve together.    *)
(*                                                                         *)
(* DocumentsInv is about the documents and holds of every transaction on   *)
(* its own; HandlersInv is what a handler may rely on between two calls;   *)
(* QueueInv relates the index documents, the cloud tasks and the handlers, *)
(* and is what keeps an accepted run dispatched.                           *)
(***************************************************************************)
EXTENDS CloudService, FiniteSetTheorems, WellFoundedInduction, TLAPS

\* The documents.

DocumentTypes ==
    /\ runs \in [RunIds -> Runs \cup {NoRun}]
    /\ events \in [RunIds -> SUBSET EventDocuments]
    /\ \A r \in RunIds : IsFiniteSet(events[r])
    /\ keys \subseteq RunIds
    /\ reflections \subseteq Sessions \X RunIds
    /\ index \in [RunIds -> Items \cup {NoItem}]
    /\ sessions \subseteq Sessions
    /\ generation \in 0..MaxGeneration

\* Only an execution, which has a lease, is told of a cancellation.
Told(run) == run.flagged => run.lease # NoLease

\* A run that is over has no lease, and only a run that is over has a result; its
\* generation was drawn, and it was written at least as often as it has events.
RunsAreSound ==
    \A r \in RunIds : Exists(r) =>
        /\ runs[r].gen <= generation
        /\ Over(runs[r]) => runs[r].lease = NoLease /\ runs[r].payload \in Payloads(runs[r].state)
        /\ ~Over(runs[r]) => runs[r].payload = NoPayload /\ Told(runs[r])
        /\ \A e \in events[r] : e.sequence <= runs[r].version + 1

\* Every document belongs to a run, every run and reflection to a session.
Belong ==
    /\ \A r \in RunIds : Exists(r) => r \in keys /\ runs[r].session \in sessions
    /\ \A r \in RunIds : ~Exists(r) => events[r] = {} /\ index[r] = NoItem /\ r \notin keys
    /\ \A r \in RunIds : index[r] # NoItem => index[r].gen = runs[r].gen
    /\ \A x \in reflections : Exists(x[2]) /\ x[1] = runs[x[2]].session

\* A log of n events, numbered from one without gaps; the last ends the run if it is over.
Whole(log, n, over) ==
    /\ n \in Nat \ {0}
    /\ \A e \in log : e.sequence \in 1..n
    /\ \A i \in 1..n : \E e \in log : e.sequence = i
    /\ \A e, f \in log : e.sequence = f.sequence => e = f
    /\ \A e \in log : e.kind = "end" <=> (e.sequence = n /\ over)

LogsAreWhole ==
    \A r \in RunIds : Exists(r) /\ r \notin purged =>
        \E n \in Nat : Whole(events[r], n, Over(runs[r]))

DocumentsInv == DocumentTypes /\ RunsAreSound /\ Belong /\ LogsAreWhole

-----------------------------------------------------------------------------
\* The handlers.

MakingSteps == {"indexing", "undoing", "undoing_for_good"}
PurgeSteps == {"purging_events", "purging_items", "removing"}

\* What a handler at a step knows of its run, task and document, the last generation
\* that was drawn being g.
SoundAt(step, run, gen, task, item, then, g) ==
    /\ gen <= g
    /\ step \in EnqueueSteps \cup RemovalSteps \cup DeliverySteps =>
           run \in RunIds /\ gen \in Generations
    /\ step \in PurgeSteps => run \in RunIds
    /\ step \in MakingSteps \cup DeliverySteps => task \in TaskNames
    /\ then = "ack" => task \in TaskNames /\ step \in RemovalSteps \cup {"cancelling"}
    /\ step \in {"checking", "repairing", "unindexing", "untasking"} =>
           item \in Items /\ item.gen = gen

Sound(p) == SoundAt(procs[p].step, procs[p].run, procs[p].gen, procs[p].task,
                    procs[p].item, procs[p].then, generation)

HandlersInv ==
    /\ procs \in [Procs -> Handlers]
    /\ \A p \in Procs : Sound(p)
    /\ tasks \in [TaskNames -> [run : RunIds, gen : Generations] \cup {NoTask}]
    /\ \A n \in TaskNames : tasks[n] # NoTask => tasks[n].gen <= generation
    /\ accepted \in [RunIds -> 0..MaxGeneration]
    /\ \A r \in RunIds : accepted[r] <= generation
    /\ purged \subseteq RunIds
    /\ emptied \in [Procs -> Sessions]

-----------------------------------------------------------------------------
\* What a transaction may do to the documents.

\* What a write does to a run: nothing once it is over; it is cancelled or ends with a
\* result of its state, and if its cancellation was asked for it is cancelled.
RunStep(a, b) ==
    /\ b \in Runs /\ b.gen = a.gen /\ b.session = a.session
    /\ ~Over(a) /\ a.version <= b.version
    /\ \/ ~Over(b) /\ b.payload = NoPayload /\ Told(b) /\ (a.flagged => b.flagged)
       \/ /\ Over(b) /\ b.lease = NoLease /\ b.payload \in Payloads(b.state)
          /\ a.flagged => b.state = "cancelled"

\* A write of a run with its event, and one without.
Logged(r, b) ==
    /\ Exists(r) /\ RunStep(runs[r], b)
    /\ b.version = runs[r].version + 1
    /\ runs' = [runs EXCEPT ![r] = b]
    /\ AppendEvent(r, NextSequence(r), b)
    /\ reflections' \in {reflections, reflections \cup {<<runs[r].session, r>>}}
    /\ UNCHANGED <<keys, index, sessions, generation>>

Silent(r, b) ==
    /\ Exists(r) /\ RunStep(runs[r], b) /\ ~Over(b)
    /\ runs' = [runs EXCEPT ![r] = b]
    /\ UNCHANGED <<events, keys, reflections, index, sessions, generation>>

Indexed(r, item) ==
    /\ item # NoItem => Exists(r) /\ item.gen = runs[r].gen
    /\ index' = [index EXCEPT ![r] = item]
    /\ UNCHANGED <<runs, events, keys, reflections, sessions, generation>>

Forgotten == reflections' \subseteq reflections
             /\ UNCHANGED <<runs, events, keys, index, sessions, generation>>

DocumentStep ==
    /\ purged' \subseteq RunIds
    /\ \A r \in purged : r \in purged' \/ runs'[r] = NoRun
    /\ \/ UNCHANGED documents
       \/ \E r \in RunIds, s \in Sessions : CreateRun(r, s)
       \/ \E r \in RunIds, b \in Runs : Logged(r, b) \/ Silent(r, b)
       \/ \E r \in RunIds, item \in Items \cup {NoItem} : Indexed(r, item)
       \/ \E r \in RunIds : \E batch \in SUBSET events[r] :
              PurgeEvents(r, batch) /\ (Exists(r) => r \in purged')
       \/ \E r \in RunIds : RemoveRun(r)
       \/ Forgotten
       \/ \E s \in Sessions : RemoveSession(s) \/ PutSession(s)

-----------------------------------------------------------------------------
\* Numbers.

LEMMA CloudNumbers ==
    /\ BatchSize \in Nat \ {0} /\ MaxVersion \in Nat /\ MaxGeneration \in Nat
    /\ Versions \subseteq Nat /\ Generations \subseteq Nat \ {0}
BY CloudBounds DEF Versions, Generations

\* A set of numbers that is not empty has a least one.
LEMMA LeastNumber ==
    ASSUME NEW S, S \subseteq Nat, S # {}
    PROVE  \E n \in S : \A m \in S : n <= m
<1> DEFINE R == {ss \in Nat \X Nat : ss[1] < ss[2]}
<1>1. IsWellFoundedOn(R, Nat)
    BY NatLessThanWellFounded DEF OpToRel
<1> HIDE DEF R
<1>2. PICK n \in S : \A m \in S : ~(<<m, n>> \in R)
    BY <1>1, WFMin, Zenon
<1>3. \A m \in S : m \in Nat /\ n \in Nat /\ ~(m < n)
    BY <1>2 DEF R
<1> QED BY <1>3

\* The number of the next event is one more than the last, in any log, whole or not.
LEMMA NextNumber ==
    ASSUME NEW r \in RunIds, events[r] \subseteq EventDocuments, IsFiniteSet(events[r]),
           NEW b \in Nat, b <= MaxVersion, \A e \in events[r] : e.sequence <= b
    PROVE  /\ NextSequence(r) \in Nat \ {0} /\ NextSequence(r) <= b + 1
           /\ \A e \in events[r] : e.sequence < NextSequence(r)
           /\ NextSequence(r) = 1 \/ \E e \in events[r] : e.sequence = NextSequence(r) - 1
<1> DEFINE card == Cardinality(events[r])
           Follows(n) == /\ \A e \in events[r] : e.sequence < n
                         /\ n = 1 \/ \E e \in events[r] : e.sequence = n - 1
           S == {n \in Nat \ {0} : \A e \in events[r] : e.sequence < n}
<1>1. card \in Nat
    BY FS_CardinalityType
<1>2. \A e \in events[r] : e.sequence \in Nat \ {0}
    BY DEF EventDocuments
<1>3. b + 1 \in S
    BY <1>2
<1>4. PICK n \in S : \A m \in S : n <= m
    BY <1>3, LeastNumber
<1>5. n \in Nat \ {0} /\ n <= b + 1 /\ \A e \in events[r] : e.sequence < n
    BY <1>3, <1>4
<1>6. n = 1 \/ \E e \in events[r] : e.sequence = n - 1
    <2> SUFFICES ASSUME n # 1 PROVE \E e \in events[r] : e.sequence = n - 1
        OBVIOUS
    <2>1. n - 1 \in Nat \ {0} /\ n - 1 \notin S
        BY <1>4, <1>5
    <2>2. PICK e \in events[r] : ~(e.sequence < n - 1)
        BY <2>1
    <2> QED BY <1>2, <1>5, <2>1, <2>2
<1>7. n \in 1..card + MaxVersion + 1 /\ Follows(n)
    BY <1>1, <1>5, <1>6, CloudNumbers
<1> DEFINE N == 1..card + MaxVersion + 1
<1>8. NextSequence(r) = CHOOSE m \in N : Follows(m)
    BY DEF NextSequence
<1> HIDE DEF N, Follows
<1>9. NextSequence(r) \in N /\ Follows(NextSequence(r))
    BY <1>7, <1>8 DEF N
<1>10. NextSequence(r) \in Nat \ {0}
    BY <1>1, <1>9, CloudNumbers DEF N
<1> QED BY <1>2, <1>9, <1>10 DEF Follows

\* The number of events of a whole log is their number.
LEMMA WholeLogCounts ==
    ASSUME NEW log, NEW n, NEW over, Whole(log, n, over)
    PROVE  Cardinality(log) = n /\ {e.sequence : e \in log} = 1..n
<1> DEFINE f == [i \in 1..n |-> CHOOSE e \in log : e.sequence = i]
<1>1. \A i \in 1..n : f[i] \in log /\ f[i].sequence = i
    BY DEF Whole
<1>2. f \in [1..n -> log]
    BY <1>1
<1> HIDE DEF f
<1>3. \A e \in log : e.sequence \in 1..n /\ f[e.sequence] = e
    BY <1>1 DEF Whole
<1>4. f \in Bijection(1..n, log)
    BY <1>1, <1>2, <1>3 DEF Bijection, Injection, Surjection, IsInjective
<1>5. ExistsBijection(1..n, log) /\ n \in Nat
    BY <1>4 DEF ExistsBijection, Whole
<1> QED BY <1>1, <1>3, <1>5, FS_CountingElements

-----------------------------------------------------------------------------
\* Every transaction keeps the documents sound.

\* The runs after a write of one of them.
LEMMA OneRunWritten ==
    ASSUME DocumentTypes, NEW r \in RunIds, NEW b \in Runs, runs' = [runs EXCEPT ![r] = b]
    PROVE  /\ runs' \in [RunIds -> Runs \cup {NoRun}]
           /\ runs'[r] = b /\ b # NoRun
           /\ \A q \in RunIds : q # r => runs'[q] = runs[q]
BY CloudSentinels DEF DocumentTypes

LEMMA RunFields ==
    ASSUME NEW run \in Runs
    PROVE  /\ run.gen \in Generations /\ run.session \in Sessions /\ run.state \in States
           /\ run.version \in Versions /\ run.flagged \in BOOLEAN
           /\ run.lease \in Leases \cup {NoLease} /\ run # NoRun
BY CloudSentinels DEF Runs

LEMMA SilentKeepsDocuments ==
    ASSUME DocumentsInv, NEW r \in RunIds, NEW b \in Runs, Silent(r, b),
           \A q \in purged : q \in purged' \/ runs'[q] = NoRun
    PROVE  DocumentsInv'
<1>1. /\ Exists(r) /\ RunStep(runs[r], b) /\ ~Over(b)
      /\ runs' = [runs EXCEPT ![r] = b]
      /\ UNCHANGED <<events, keys, reflections, index, sessions, generation>>
    BY DEF Silent
<1>2. /\ runs' \in [RunIds -> Runs \cup {NoRun}]
      /\ runs'[r] = b /\ b # NoRun
      /\ \A q \in RunIds : q # r => runs'[q] = runs[q]
    BY <1>1, OneRunWritten DEF DocumentsInv
<1>3. /\ runs[r] \in Runs /\ runs[r].version \in Nat /\ b.version \in Nat
      /\ runs[r].version <= b.version
      /\ \A e \in events[r] : e.sequence \in Nat
    <2>1. runs[r] \in Runs
        BY <1>1 DEF DocumentsInv, DocumentTypes, Exists
    <2>2. \A e \in events[r] : e.sequence \in Nat
        BY DEF DocumentsInv, DocumentTypes, EventDocuments
    <2>3. runs[r].version \in Nat /\ b.version \in Nat
        BY <2>1, RunFields, CloudNumbers
    <2> QED BY <1>1, <2>1, <2>2, <2>3 DEF RunStep
<1>4. DocumentTypes'
    BY <1>1, <1>2 DEF DocumentsInv, DocumentTypes
<1>5. RunsAreSound'
    <2> SUFFICES ASSUME NEW q \in RunIds, runs'[q] # NoRun
                 PROVE  /\ runs'[q].gen <= generation
                        /\ Over(runs'[q]) => /\ runs'[q].lease = NoLease
                                             /\ runs'[q].payload \in Payloads(runs'[q].state)
                        /\ ~Over(runs'[q]) => runs'[q].payload = NoPayload /\ Told(runs'[q])
                        /\ \A e \in events[q] : e.sequence <= runs'[q].version + 1
        BY <1>1 DEF RunsAreSound, Exists, Over, Told
    <2>1. CASE q = r
        BY <1>1, <1>2, <1>3, <2>1 DEF DocumentsInv, RunsAreSound, RunStep
    <2>2. CASE q # r
        BY <1>2, <2>2 DEF DocumentsInv, RunsAreSound, Exists
    <2> QED BY <2>1, <2>2
<1>6. Belong'
    <2>1. \A q \in RunIds : runs'[q] = NoRun <=> runs[q] = NoRun
        BY <1>1, <1>2 DEF Exists
    <2>2. \A q \in RunIds : runs'[q].session = runs[q].session /\ runs'[q].gen = runs[q].gen
        BY <1>1, <1>2 DEF RunStep
    <2>3. \A x \in reflections : x[2] \in RunIds
        BY DEF DocumentsInv, DocumentTypes
    <2> QED BY <1>1, <2>1, <2>2, <2>3 DEF DocumentsInv, Belong, Exists
<1>7. LogsAreWhole'
    <2>1. \A q \in RunIds : /\ runs'[q] # NoRun => runs[q] # NoRun
                            /\ Over(runs'[q]) = Over(runs[q])
        BY <1>1, <1>2 DEF Exists, RunStep, Over
    <2> QED BY <1>1, <2>1 DEF DocumentsInv, LogsAreWhole, Exists
<1> QED BY <1>4, <1>5, <1>6, <1>7 DEF DocumentsInv

\* The log of a run after an event was appended.
LEMMA LongerLog ==
    ASSUME NEW r \in RunIds, events[r] \subseteq EventDocuments, IsFiniteSet(events[r]),
           NEW v \in Nat, v < MaxVersion, \A e \in events[r] : e.sequence <= v + 1,
           NEW log, NEW over \in BOOLEAN,
           log = {e \in events[r] : e.sequence # NextSequence(r)}
                 \cup {[sequence |-> NextSequence(r), kind |-> IF over THEN "end" ELSE "status"]}
    PROVE  /\ log \subseteq EventDocuments /\ IsFiniteSet(log)
           /\ \A e \in log : e.sequence <= v + 2
           /\ \A n \in Nat : Whole(events[r], n, FALSE) => Whole(log, n + 1, over)
<1> DEFINE next == NextSequence(r)
           end == [sequence |-> next, kind |-> IF over THEN "end" ELSE "status"]
<1>1. /\ next \in Nat \ {0} /\ next <= v + 2
      /\ \A e \in events[r] : e.sequence < next
      /\ next = 1 \/ \E e \in events[r] : e.sequence = next - 1
    BY CloudNumbers, NextNumber
<1> HIDE DEF next
<1>2. \A e \in events[r] : e.sequence \in Nat \ {0}
    BY DEF EventDocuments
<1>3. log = events[r] \cup {end}
    BY <1>1, <1>2 DEF next
<1>4. end \in EventDocuments /\ end.sequence = next /\ (end.kind = "end" <=> over)
    BY <1>1 DEF EventDocuments
<1> HIDE DEF end
<1>5. log \subseteq EventDocuments /\ IsFiniteSet(log)
    BY <1>3, <1>4, FS_AddElement
<1>6. \A e \in log : e.sequence <= v + 2
    BY <1>1, <1>2, <1>3, <1>4
<1>7. ASSUME NEW n \in Nat, Whole(events[r], n, FALSE)
      PROVE  Whole(log, n + 1, over)
    <2>1. /\ n \in Nat \ {0}
          /\ \A e \in events[r] : e.sequence \in 1..n /\ e.kind # "end"
          /\ \A i \in 1..n : \E e \in events[r] : e.sequence = i
          /\ \A e, f \in events[r] : e.sequence = f.sequence => e = f
        BY <1>7 DEF Whole
    <2>2. next = n + 1
        <3>1. n < next
            BY <2>1, <1>1
        <3>2. next - 1 <= n
            BY <2>1, <1>1
        <3> QED BY <3>1, <3>2, <1>1, <2>1
    <2>3. \A e \in log : e.sequence \in 1..n + 1
        BY <1>3, <1>4, <2>1, <2>2
    <2>4. \A i \in 1..n + 1 : \E e \in log : e.sequence = i
        BY <1>3, <1>4, <2>1, <2>2
    <2>5. \A e, f \in log : e.sequence = f.sequence => e = f
        BY <1>3, <1>4, <2>1, <2>2
    <2>6. ASSUME NEW e \in log PROVE e.kind = "end" <=> (e.sequence = n + 1 /\ over)
        BY <1>3, <1>4, <2>1, <2>2
    <2> QED BY <2>1, <2>3, <2>4, <2>5, <2>6 DEF Whole
<1> QED BY <1>5, <1>6, <1>7

LEMMA LoggedKeepsDocuments ==
    ASSUME DocumentsInv, NEW r \in RunIds, NEW b \in Runs, Logged(r, b),
           \A q \in purged : q \in purged' \/ runs'[q] = NoRun
    PROVE  DocumentsInv'
<1>1. /\ Exists(r) /\ RunStep(runs[r], b) /\ b.version = runs[r].version + 1
      /\ runs' = [runs EXCEPT ![r] = b]
      /\ reflections' \in {reflections, reflections \cup {<<runs[r].session, r>>}}
      /\ UNCHANGED <<keys, index, sessions, generation>>
    BY DEF Logged
<1>2. /\ runs' \in [RunIds -> Runs \cup {NoRun}]
      /\ runs'[r] = b /\ b # NoRun
      /\ \A q \in RunIds : q # r => runs'[q] = runs[q]
    BY <1>1, OneRunWritten DEF DocumentsInv
<1>3. /\ runs[r] \in Runs /\ runs[r].version \in Nat /\ runs[r].version < MaxVersion
      /\ runs[r].session \in Sessions
    <2>1. runs[r] \in Runs
        BY <1>1 DEF DocumentsInv, DocumentTypes, Exists
    <2>2. b.version \in 0..MaxVersion /\ runs[r].version \in 0..MaxVersion
          /\ runs[r].session \in Sessions
        BY <2>1, RunFields DEF Versions
    <2> QED BY <1>1, <2>1, <2>2, CloudNumbers
<1> DEFINE log == {e \in events[r] : e.sequence # NextSequence(r)}
                  \cup {[sequence |-> NextSequence(r),
                         kind |-> IF Over(b) THEN "end" ELSE "status"]}
<1>4. events' = [events EXCEPT ![r] = log]
    BY DEF Logged, AppendEvent
<1>5. /\ events[r] \subseteq EventDocuments /\ IsFiniteSet(events[r])
      /\ \A e \in events[r] : e.sequence <= runs[r].version + 1
    BY <1>1 DEF DocumentsInv, DocumentTypes, RunsAreSound
<1>6. Over(b) \in BOOLEAN
    BY DEF Over
<1>7. /\ log \subseteq EventDocuments /\ IsFiniteSet(log)
      /\ \A e \in log : e.sequence <= runs[r].version + 2
      /\ \A n \in Nat : Whole(events[r], n, FALSE) => Whole(log, n + 1, Over(b))
    BY <1>3, <1>5, <1>6, LongerLog
<1> HIDE DEF log
<1>8. events'[r] = log /\ \A q \in RunIds : q # r => events'[q] = events[q]
    BY <1>4 DEF DocumentsInv, DocumentTypes
<1>9. DocumentTypes'
    <2>1. events' \in [RunIds -> SUBSET EventDocuments]
          /\ \A q \in RunIds : IsFiniteSet(events'[q])
        BY <1>4, <1>7, <1>8 DEF DocumentsInv, DocumentTypes
    <2>2. reflections' \subseteq Sessions \X RunIds
        BY <1>1, <1>3 DEF DocumentsInv, DocumentTypes
    <2> QED BY <1>1, <1>2, <2>1, <2>2 DEF DocumentsInv, DocumentTypes
<1>10. RunsAreSound'
    <2> SUFFICES ASSUME NEW q \in RunIds, runs'[q] # NoRun
                 PROVE  /\ runs'[q].gen <= generation
                        /\ Over(runs'[q]) => /\ runs'[q].lease = NoLease
                                             /\ runs'[q].payload \in Payloads(runs'[q].state)
                        /\ ~Over(runs'[q]) => runs'[q].payload = NoPayload /\ Told(runs'[q])
                        /\ \A e \in events'[q] : e.sequence <= runs'[q].version + 1
        BY <1>1 DEF RunsAreSound, Exists, Over, Told
    <2>1. CASE q = r
        <3>1. \A e \in events'[q] : e.sequence <= b.version + 1
            BY <1>1, <1>3, <1>7, <1>8, <2>1
        <3>2. runs[r].gen <= generation
            BY <1>1 DEF DocumentsInv, RunsAreSound
        <3> QED BY <1>1, <1>2, <2>1, <3>1, <3>2 DEF RunStep
    <2>2. CASE q # r
        BY <1>2, <1>8, <2>2 DEF DocumentsInv, RunsAreSound, Exists
    <2> QED BY <2>1, <2>2
<1>11. Belong'
    <2>1. \A q \in RunIds : runs'[q] = NoRun <=> runs[q] = NoRun
        BY <1>1, <1>2 DEF Exists
    <2>2. \A q \in RunIds : runs'[q].session = runs[q].session /\ runs'[q].gen = runs[q].gen
        BY <1>1, <1>2 DEF RunStep
    <2>3. \A q \in RunIds : runs'[q] = NoRun => events'[q] = {}
        BY <1>2, <1>8 DEF DocumentsInv, Belong, Exists
    <2>4. \A x \in reflections' : x[2] \in RunIds /\ runs'[x[2]] # NoRun
                                  /\ x[1] = runs'[x[2]].session
        <3>1. \A x \in reflections : x[2] \in RunIds /\ runs[x[2]] # NoRun
                                     /\ x[1] = runs[x[2]].session
            BY DEF DocumentsInv, DocumentTypes, Belong, Exists
        <3> QED BY <1>1, <2>1, <2>2, <3>1 DEF Exists
    <2> QED BY <1>1, <2>1, <2>2, <2>3, <2>4 DEF DocumentsInv, Belong, Exists
<1>12. LogsAreWhole'
    <2> SUFFICES ASSUME NEW q \in RunIds, runs'[q] # NoRun, q \notin purged'
                 PROVE  \E n \in Nat : Whole(events'[q], n, Over(runs'[q]))
        BY DEF LogsAreWhole, Exists, Over
    <2>1. runs[q] # NoRun /\ q \notin purged
        BY <1>1, <1>2 DEF Exists
    <2>2. PICK n \in Nat : Whole(events[q], n, Over(runs[q]))
        BY <2>1 DEF DocumentsInv, LogsAreWhole, Exists
    <2>3. CASE q = r
        <3>1. Over(runs[q]) = FALSE
            BY <1>1, <2>3 DEF RunStep, Over
        <3>2. Whole(events'[q], n + 1, Over(runs'[q]))
            BY <1>2, <1>7, <1>8, <2>2, <2>3, <3>1
        <3> QED BY <3>2
    <2>4. CASE q # r
        BY <1>2, <1>8, <2>2, <2>4
    <2> QED BY <2>3, <2>4
<1> QED BY <1>9, <1>10, <1>11, <1>12 DEF DocumentsInv

LEMMA CreateKeepsDocuments ==
    ASSUME DocumentsInv, NEW r \in RunIds, NEW s \in Sessions, CreateRun(r, s),
           \A q \in purged : q \in purged' \/ runs'[q] = NoRun
    PROVE  DocumentsInv'
<1> DEFINE run == [gen |-> generation + 1, session |-> s, state |-> "queued",
                   version |-> 0, flagged |-> FALSE, lease |-> NoLease,
                   payload |-> NoPayload]
           log == {e \in events[r] : e.sequence # 1}
                  \cup {[sequence |-> 1, kind |-> IF Over(run) THEN "end" ELSE "status"]}
<1>1. /\ r \notin keys /\ runs[r] = NoRun /\ s \in sessions
      /\ generation < MaxGeneration /\ generation' = generation + 1
      /\ runs' = [runs EXCEPT ![r] = run]
      /\ events' = [events EXCEPT ![r] = log]
      /\ keys' = keys \cup {r}
      /\ UNCHANGED <<reflections, index, sessions>>
    BY DEF CreateRun, AppendEvent, Exists
<1>2. generation \in 0..MaxGeneration /\ generation' \in 0..MaxGeneration
    BY <1>1, CloudNumbers DEF DocumentsInv, DocumentTypes
<1>3. run \in Runs
    BY <1>1, <1>2, CloudNumbers
    DEF Runs, Generations, States, OwnedStates, TerminalStates, Versions
<1>4. /\ ~Over(run) /\ run.gen = generation' /\ run.session = s /\ run.version = 0
      /\ run.payload = NoPayload /\ Told(run)
    BY <1>1 DEF Over, TerminalStates, Told
<1>5. events[r] = {} /\ index[r] = NoItem
    BY <1>1 DEF DocumentsInv, Belong, Exists
<1>6. log = {[sequence |-> 1, kind |-> "status"]}
    BY <1>4, <1>5
<1> HIDE DEF run, log
<1>7. /\ runs' \in [RunIds -> Runs \cup {NoRun}]
      /\ runs'[r] = run /\ run # NoRun
      /\ \A q \in RunIds : q # r => runs'[q] = runs[q]
    BY <1>1, <1>3, OneRunWritten DEF DocumentsInv
<1>8. events'[r] = log /\ \A q \in RunIds : q # r => events'[q] = events[q]
    BY <1>1 DEF DocumentsInv, DocumentTypes
<1>9. /\ log \subseteq EventDocuments /\ IsFiniteSet(log)
      /\ \A e \in log : e.sequence <= 1
      /\ Whole(log, 1, FALSE)
    <2> DEFINE first == [sequence |-> 1, kind |-> "status"]
    <2>1. first \in EventDocuments /\ first.sequence = 1 /\ first.kind # "end"
        BY DEF EventDocuments
    <2> HIDE DEF first
    <2>2. log = {first}
        BY <1>6 DEF first
    <2>3. IsFiniteSet(log)
        BY <2>2, FS_Singleton
    <2>4. Whole(log, 1, FALSE)
        BY <2>1, <2>2 DEF Whole
    <2>5. log \subseteq EventDocuments /\ \A e \in log : e.sequence <= 1
        BY <2>1, <2>2
    <2> QED BY <2>3, <2>4, <2>5, Zenon
<1>10. DocumentTypes'
    <2>1. events' \in [RunIds -> SUBSET EventDocuments]
          /\ \A q \in RunIds : IsFiniteSet(events'[q])
        BY <1>1, <1>8, <1>9 DEF DocumentsInv, DocumentTypes
    <2> QED BY <1>1, <1>2, <1>7, <2>1 DEF DocumentsInv, DocumentTypes
<1>11. RunsAreSound'
    <2> SUFFICES ASSUME NEW q \in RunIds, runs'[q] # NoRun
                 PROVE  /\ runs'[q].gen <= generation'
                        /\ Over(runs'[q]) => /\ runs'[q].lease = NoLease
                                             /\ runs'[q].payload \in Payloads(runs'[q].state)
                        /\ ~Over(runs'[q]) => runs'[q].payload = NoPayload /\ Told(runs'[q])
                        /\ \A e \in events'[q] : e.sequence <= runs'[q].version + 1
        BY DEF RunsAreSound, Exists, Over, Told
    <2>1. CASE q = r
        BY <1>2, <1>4, <1>7, <1>8, <1>9, <2>1
    <2>2. CASE q # r
        <3>1. runs[q] \in Runs /\ runs[q].gen <= generation
            BY <1>7, <2>2 DEF DocumentsInv, DocumentTypes, RunsAreSound, Exists
        <3>2. runs[q].gen <= generation'
            <4>1. runs[q].gen \in Generations
                BY <3>1, RunFields
            <4>2. runs[q].gen \in Nat
                BY <4>1, CloudNumbers
            <4>3. generation \in Nat
                BY <1>2
            <4> QED BY <1>1, <3>1, <4>2, <4>3
        <3> QED BY <1>7, <1>8, <2>2, <3>2 DEF DocumentsInv, RunsAreSound, Exists
    <2> QED BY <2>1, <2>2
<1>12. Belong'
    <2>1. \A q \in RunIds : q # r => runs'[q] = runs[q] /\ events'[q] = events[q]
        BY <1>7, <1>8
    <2>2. \A q \in RunIds : index[q] # NoItem => q # r
        BY <1>5
    <2>3. \A x \in reflections : x[2] \in RunIds /\ x[2] # r
        BY <1>1 DEF DocumentsInv, DocumentTypes, Belong, Exists
    <2> QED BY <1>1, <1>4, <1>7, <2>1, <2>2, <2>3 DEF DocumentsInv, Belong, Exists
<1>13. LogsAreWhole'
    <2> SUFFICES ASSUME NEW q \in RunIds, runs'[q] # NoRun, q \notin purged'
                 PROVE  \E n \in Nat : Whole(events'[q], n, Over(runs'[q]))
        BY DEF LogsAreWhole, Exists, Over
    <2>1. CASE q = r
        <3>1. Over(runs'[q]) = FALSE
            BY <1>4, <1>7, <2>1 DEF Over
        <3> QED BY <1>8, <1>9, <2>1, <3>1
    <2>2. CASE q # r
        BY <1>7, <1>8, <2>2 DEF DocumentsInv, LogsAreWhole, Exists
    <2> QED BY <2>1, <2>2
<1> QED BY <1>10, <1>11, <1>12, <1>13 DEF DocumentsInv

LEMMA IndexedKeepsDocuments ==
    ASSUME DocumentsInv, NEW r \in RunIds, NEW item \in Items \cup {NoItem}, Indexed(r, item),
           \A q \in purged : q \in purged' \/ runs'[q] = NoRun
    PROVE  DocumentsInv'
<1>1. /\ item # NoItem => Exists(r) /\ item.gen = runs[r].gen
      /\ index' = [index EXCEPT ![r] = item]
      /\ UNCHANGED <<runs, events, keys, reflections, sessions, generation>>
    BY DEF Indexed
<1>2. index'[r] = item /\ \A q \in RunIds : q # r => index'[q] = index[q]
    BY <1>1 DEF DocumentsInv, DocumentTypes
<1>3. DocumentTypes'
    BY <1>1 DEF DocumentsInv, DocumentTypes
<1>4. RunsAreSound' /\ LogsAreWhole'
    BY <1>1 DEF DocumentsInv, RunsAreSound, LogsAreWhole, Exists, Over, Told
<1>5. Belong'
    BY <1>1, <1>2 DEF DocumentsInv, Belong, Exists
<1> QED BY <1>3, <1>4, <1>5 DEF DocumentsInv

LEMMA PurgeKeepsDocuments ==
    ASSUME DocumentsInv, NEW r \in RunIds, NEW batch \in SUBSET events[r],
           PurgeEvents(r, batch), Exists(r) => r \in purged',
           \A q \in purged : q \in purged' \/ runs'[q] = NoRun
    PROVE  DocumentsInv'
<1>1. /\ events' = [events EXCEPT ![r] = events[r] \ batch]
      /\ UNCHANGED <<runs, keys, reflections, index, sessions, generation>>
    BY DEF PurgeEvents
<1>2. \A q \in RunIds : /\ events'[q] \subseteq events[q]
                        /\ q # r => events'[q] = events[q]
    BY <1>1 DEF DocumentsInv, DocumentTypes
<1>3. DocumentTypes'
    <2>1. events' \in [RunIds -> SUBSET EventDocuments]
        BY <1>1 DEF DocumentsInv, DocumentTypes
    <2>2. \A q \in RunIds : IsFiniteSet(events'[q])
        BY <1>2, FS_Subset DEF DocumentsInv, DocumentTypes
    <2> QED BY <1>1, <2>1, <2>2 DEF DocumentsInv, DocumentTypes
<1>4. RunsAreSound'
    BY <1>1, <1>2 DEF DocumentsInv, RunsAreSound, Exists, Over, Told
<1>5. Belong'
    <2>1. \A q \in RunIds : events[q] = {} => events'[q] = {}
        BY <1>2
    <2> QED BY <1>1, <2>1 DEF DocumentsInv, Belong, Exists
<1>6. LogsAreWhole'
    BY <1>1, <1>2 DEF DocumentsInv, LogsAreWhole, Exists, Over
<1> QED BY <1>3, <1>4, <1>5, <1>6 DEF DocumentsInv

LEMMA RemoveKeepsDocuments ==
    ASSUME DocumentsInv, NEW r \in RunIds, RemoveRun(r),
           \A q \in purged : q \in purged' \/ runs'[q] = NoRun
    PROVE  DocumentsInv'
<1>1. /\ Exists(r) /\ events[r] = {} /\ index[r] = NoItem
      /\ runs' = [runs EXCEPT ![r] = NoRun]
      /\ keys' = keys \ {r}
      /\ reflections' = reflections \ {<<runs[r].session, r>>}
      /\ UNCHANGED <<events, index, sessions, generation>>
    BY DEF RemoveRun, Childless
<1>2. runs'[r] = NoRun /\ \A q \in RunIds : q # r => runs'[q] = runs[q]
    BY <1>1 DEF DocumentsInv, DocumentTypes
<1>3. DocumentTypes'
    BY <1>1 DEF DocumentsInv, DocumentTypes
<1>4. RunsAreSound' /\ LogsAreWhole'
    BY <1>1, <1>2 DEF DocumentsInv, RunsAreSound, LogsAreWhole, Exists, Over, Told
<1>5. Belong'
    <2>1. \A x \in reflections' : x \in reflections /\ x[2] # r
        <3> SUFFICES ASSUME NEW x \in reflections, x[2] = r
                     PROVE  x = <<runs[r].session, r>>
            BY <1>1
        <3>1. x \in Sessions \X RunIds /\ x[1] = runs[x[2]].session
            BY DEF DocumentsInv, DocumentTypes, Belong
        <3> QED BY <3>1
    <2>2. \A x \in reflections' : x[2] \in RunIds /\ runs'[x[2]] = runs[x[2]]
        BY <1>2, <2>1 DEF DocumentsInv, DocumentTypes
    <2> QED BY <1>1, <1>2, <2>1, <2>2 DEF DocumentsInv, Belong, Exists
<1> QED BY <1>3, <1>4, <1>5 DEF DocumentsInv

\* Reflections and sessions.
LEMMA SessionsKeepDocuments ==
    ASSUME DocumentsInv, Forgotten \/ \E s \in Sessions : RemoveSession(s) \/ PutSession(s),
           \A q \in purged : q \in purged' \/ runs'[q] = NoRun
    PROVE  DocumentsInv'
<1>1. /\ UNCHANGED <<runs, events, keys, index, generation>>
      /\ reflections' \subseteq reflections
    BY DEF Forgotten, RemoveSession, PutSession
<1>2. sessions' \subseteq Sessions
    BY DEF Forgotten, RemoveSession, PutSession, DocumentsInv, DocumentTypes
<1>3. \A q \in RunIds : Exists(q) => runs[q].session \in sessions'
    BY DEF Forgotten, RemoveSession, PutSession, DocumentsInv, Belong, RunsOf
<1>4. DocumentTypes'
    BY <1>1, <1>2 DEF DocumentsInv, DocumentTypes
<1>5. RunsAreSound' /\ LogsAreWhole'
    BY <1>1 DEF DocumentsInv, RunsAreSound, LogsAreWhole, Exists, Over, Told
<1>6. Belong'
    BY <1>1, <1>3 DEF DocumentsInv, Belong, Exists
<1> QED BY <1>4, <1>5, <1>6 DEF DocumentsInv

LEMMA SameDocuments ==
    ASSUME DocumentsInv, UNCHANGED documents,
           \A q \in purged : q \in purged' \/ runs'[q] = NoRun
    PROVE  DocumentsInv'
<1>1. UNCHANGED <<runs, events, keys, reflections, index, sessions, generation>>
    BY DEF documents
<1> QED BY <1>1 DEF DocumentsInv, DocumentTypes, RunsAreSound, Belong, LogsAreWhole, Exists, Over,
        Told

LEMMA DocumentsKept == DocumentsInv /\ DocumentStep => DocumentsInv'
<1> SUFFICES ASSUME DocumentsInv, DocumentStep PROVE DocumentsInv'
    OBVIOUS
<1>1. \A q \in purged : q \in purged' \/ runs'[q] = NoRun
    BY DEF DocumentStep
<1>2. ASSUME NEW r \in RunIds, NEW s \in Sessions, CreateRun(r, s) PROVE DocumentsInv'
    BY <1>1, <1>2, CreateKeepsDocuments
<1>3. ASSUME NEW r \in RunIds, NEW b \in Runs, Logged(r, b) PROVE DocumentsInv'
    BY <1>1, <1>3, LoggedKeepsDocuments
<1>4. ASSUME NEW r \in RunIds, NEW b \in Runs, Silent(r, b) PROVE DocumentsInv'
    BY <1>1, <1>4, SilentKeepsDocuments
<1>5. ASSUME NEW r \in RunIds, NEW item \in Items \cup {NoItem}, Indexed(r, item)
      PROVE  DocumentsInv'
    BY <1>1, <1>5, IndexedKeepsDocuments
<1>6. ASSUME NEW r \in RunIds, NEW batch \in SUBSET events[r], PurgeEvents(r, batch),
             Exists(r) => r \in purged'
      PROVE  DocumentsInv'
    BY <1>1, <1>6, PurgeKeepsDocuments
<1>7. ASSUME NEW r \in RunIds, RemoveRun(r) PROVE DocumentsInv'
    BY <1>1, <1>7, RemoveKeepsDocuments
<1> QED BY <1>1, <1>2, <1>3, <1>4, <1>5, <1>6, <1>7, SessionsKeepDocuments, SameDocuments, Zenon
        DEF DocumentStep

-----------------------------------------------------------------------------
\* The operations on a run are such transactions.

\* A write with its event, once the version has gone up.
LEMMA WriteIsLogged ==
    ASSUME DocumentsInv, NEW r \in RunIds, Exists(r), NEW run, RunStep(runs[r], run),
           run.version = runs[r].version, SaveAndLog(r, run),
           reflections' \in {reflections, reflections \cup {<<runs[r].session, r>>}},
           UNCHANGED <<keys, index, sessions, generation>>
    PROVE  \E b \in Runs : Logged(r, b)
<1> DEFINE b == [run EXCEPT !.version = runs[r].version + 1]
<1>1. runs' = [runs EXCEPT ![r] = b] /\ runs[r].version + runs[r].gen <= MaxVersion
    BY DEF SaveAndLog, SaveRun
<1>2. runs[r] \in Runs /\ run \in Runs
    BY DEF DocumentsInv, DocumentTypes, Exists, RunStep
<1>3. runs[r].version \in 0..MaxVersion /\ runs[r].gen \in Nat \ {0}
    BY <1>2, RunFields, CloudNumbers DEF Versions
<1>4. runs[r].version + 1 \in Versions
    BY <1>1, <1>3, CloudNumbers DEF Versions
<1>5. /\ b \in Runs /\ b.version = runs[r].version + 1
      /\ b.gen = run.gen /\ b.session = run.session /\ b.state = run.state
      /\ b.flagged = run.flagged /\ b.lease = run.lease /\ b.payload = run.payload
    BY <1>2, <1>4 DEF Runs
<1> HIDE DEF b
<1>6. RunStep(runs[r], b)
    BY <1>3, <1>5 DEF RunStep, Over, Told
<1>7. AppendEvent(r, NextSequence(r), b)
    BY <1>5 DEF SaveAndLog, AppendEvent, Over
<1> QED BY <1>1, <1>5, <1>6, <1>7 DEF Logged

\* What the answers of claim say.
LEMMA ClaimAnswers ==
    ASSUME NEW run, NEW g, NEW old
    PROVE  LET answer == ClaimAnswer(run, g, old) IN
           /\ answer = "not_found" => run = NoRun
           /\ answer = "stale" => run # NoRun /\ g # run.gen
           /\ answer = "terminal" => run # NoRun /\ g = run.gen /\ Over(run)
           /\ answer \in {"cancellation_requested", "busy", "claimed"} =>
                  run # NoRun /\ g = run.gen /\ ~Over(run)
           /\ answer = "cancellation_requested" => run.flagged
           /\ answer \in {"busy", "claimed"} => ~run.flagged
BY DEF ClaimAnswer

LEMMA CancelledIsAStep ==
    ASSUME NEW a \in Runs, ~Over(a), a.payload = NoPayload
    PROVE  RunStep(a, CancelledRun(a)) /\ CancelledRun(a).version = a.version
<1>1. "cancelled" \in States
    BY DEF States, TerminalStates
<1>2. a.version \in Nat
    BY RunFields, CloudNumbers
<1>3. /\ CancelledRun(a) \in Runs
      /\ CancelledRun(a).state = "cancelled" /\ CancelledRun(a).payload = NoPayload
      /\ CancelledRun(a).lease = NoLease /\ CancelledRun(a).version = a.version
      /\ CancelledRun(a).gen = a.gen /\ CancelledRun(a).session = a.session
    BY <1>1 DEF CancelledRun, Runs
<1> QED BY <1>2, <1>3 DEF RunStep, Over, TerminalStates, Payloads

\* A run that is not over, as it stands.
LEMMA OpenRun ==
    ASSUME DocumentsInv, NEW r \in RunIds, Exists(r)
    PROVE  /\ runs[r] \in Runs
           /\ ~Over(runs[r]) => runs[r].payload = NoPayload
           /\ ~Over(runs[r]) => Told(runs[r])
           /\ runs[r].lease # NoLease => ~Over(runs[r])
BY DEF DocumentsInv, DocumentTypes, RunsAreSound, Exists

LEMMA ClaimIsLogged ==
    ASSUME DocumentsInv, NEW r \in RunIds, NEW g, NEW old, ClaimRun(r, g, old)
    PROVE  \E b \in Runs : Logged(r, b)
<1> DEFINE a == runs[r]
           b == [a EXCEPT !.state = "running", !.lease = [attempt |-> a.version, live |-> TRUE]]
<1>1. UNCHANGED <<keys, reflections, index, sessions, generation>>
    BY DEF ClaimRun
<1>2. \/ ClaimAnswer(a, g, old) = "claimed" /\ SaveAndLog(r, b)
      \/ ClaimAnswer(a, g, old) = "cancellation_requested" /\ SaveAndLog(r, CancelledRun(a))
    BY DEF ClaimRun
<1>3. Exists(r) /\ ~Over(a) /\ a \in Runs /\ a.payload = NoPayload
    BY <1>2, ClaimAnswers, OpenRun DEF Exists
<1>4. CASE ClaimAnswer(a, g, old) = "claimed" /\ SaveAndLog(r, b)
    <2>1. ~a.flagged
        BY <1>4, ClaimAnswers
    <2>2. "running" \in States
        BY DEF States, OwnedStates
    <2>3. [attempt |-> a.version, live |-> TRUE] \in Leases /\ a.version \in Nat
        BY <1>3, RunFields, CloudNumbers DEF Leases
    <2>4. b \in Runs /\ b.gen = a.gen /\ b.session = a.session /\ b.version = a.version
          /\ b.payload = NoPayload /\ b.state = "running" /\ b.flagged = a.flagged
        BY <1>3, <2>2, <2>3 DEF Runs
    <2> HIDE DEF b
    <2>5. RunStep(a, b)
        BY <1>3, <2>1, <2>3, <2>4 DEF RunStep, Over, TerminalStates, Told
    <2> QED BY <1>1, <1>3, <1>4, <2>4, <2>5, WriteIsLogged
<1>5. CASE ClaimAnswer(a, g, old) = "cancellation_requested" /\ SaveAndLog(r, CancelledRun(a))
    BY <1>1, <1>3, <1>5, CancelledIsAStep, WriteIsLogged
<1> QED BY <1>2, <1>4, <1>5

\* What the answers of the two other writers say.
LEMMA OwnerAnswers ==
    ASSUME NEW run, NEW version, NEW next, NEW attempt, NEW old
    PROVE  /\ UpdateAnswer(run, version, next, attempt, old) = "applied" =>
                  run # NoRun /\ run.lease # NoLease /\ (run.flagged => next = "cancelled")
           /\ LET answer == RenewAnswer(run, attempt, old) IN
              /\ answer = "terminal" => run # NoRun /\ Over(run)
              /\ answer = "cancellation_requested" => run # NoRun /\ ~Over(run) /\ run.flagged
              /\ answer = "renewed" => run # NoRun /\ ~Over(run) /\ ~run.flagged
                                       /\ run.lease # NoLease
BY DEF UpdateAnswer, RenewAnswer, Owns, Running

LEMMA UpdateIsLogged ==
    ASSUME DocumentsInv, NEW r \in RunIds, NEW version, NEW next, NEW payload, NEW attempt,
           NEW old, next \in {"completed", "failed", "cancelled"},
           UpdateRun(r, version, next, payload, attempt, old)
    PROVE  /\ \E b \in Runs : Logged(r, b)
           /\ Exists(r) /\ runs'[r].state = next
<1> DEFINE a == runs[r]
           b == [a EXCEPT !.state = next, !.payload = payload, !.lease = NoLease]
<1>1. /\ UpdateAnswer(a, version, next, attempt, old) = "applied"
      /\ payload \in Payloads(next)
      /\ SaveAndLog(r, IF next = "cancelled" THEN CancelledRun(a) ELSE b)
      /\ reflections' \in {reflections, reflections \cup {<<a.session, r>>}}
      /\ UNCHANGED <<keys, index, sessions, generation>>
    BY DEF UpdateRun
<1>2. Exists(r) /\ ~Over(a) /\ a \in Runs /\ a.payload = NoPayload
      /\ (a.flagged => next = "cancelled")
    BY <1>1, OwnerAnswers, OpenRun DEF Exists
<1>3. a.version \in Nat
    BY <1>2, RunFields, CloudNumbers
<1>4. CASE next = "cancelled"
    <2>1. SaveAndLog(r, CancelledRun(a))
        BY <1>1, <1>4
    <2>2. runs'[r].state = "cancelled"
        BY <1>2, <2>1 DEF SaveAndLog, SaveRun, CancelledRun, DocumentsInv, DocumentTypes, Runs
    <2> QED BY <1>1, <1>2, <1>4, <2>1, <2>2, CancelledIsAStep, WriteIsLogged
<1>5. CASE next # "cancelled"
    <2>2. payload \in Answers \cup Failures
        BY <1>1, <1>5 DEF Payloads, Failures
    <2>3. next \in States /\ next \in TerminalStates
        BY DEF States, TerminalStates
    <2>4. b \in Runs /\ b.gen = a.gen /\ b.session = a.session /\ b.version = a.version
          /\ b.payload = payload /\ b.state = next /\ b.flagged = a.flagged /\ b.lease = NoLease
        BY <1>2, <2>2, <2>3 DEF Runs
    <2>5. SaveAndLog(r, b)
        BY <1>1, <1>5
    <2> HIDE DEF b
    <2>6. RunStep(a, b)
        BY <1>1, <1>2, <1>3, <1>5, <2>3, <2>4 DEF RunStep, Over
    <2>7. runs'[r].state = next
        BY <1>2, <2>4, <2>5 DEF SaveAndLog, SaveRun, DocumentsInv, DocumentTypes, Runs
    <2> QED BY <1>1, <1>2, <2>4, <2>5, <2>6, <2>7, WriteIsLogged
<1> QED BY <1>4, <1>5

LEMMA FlagIsLogged ==
    ASSUME DocumentsInv, NEW r \in RunIds, NEW old, FlagRun(r, old)
    PROVE  \E b \in Runs : Logged(r, b)
<1> DEFINE a == runs[r]
           b == [a EXCEPT !.flagged = TRUE]
<1>1. /\ Exists(r) /\ ~Over(a)
      /\ SaveAndLog(r, CancelledRun(a)) \/ (SaveAndLog(r, b) /\ a.lease # NoLease)
      /\ UNCHANGED <<keys, reflections, index, sessions, generation>>
    BY DEF FlagRun, Running
<1>2. a \in Runs /\ a.payload = NoPayload
    BY <1>1, OpenRun
<1>4. b \in Runs /\ b.gen = a.gen /\ b.session = a.session /\ b.version = a.version
      /\ b.payload = NoPayload /\ b.state = a.state /\ b.flagged = TRUE /\ b.lease = a.lease
    BY <1>2 DEF Runs
<1> HIDE DEF b
<1>5. a.version \in Nat
    BY <1>2, RunFields, CloudNumbers
<1>6. a.lease # NoLease => RunStep(a, b)
    BY <1>1, <1>4, <1>5 DEF RunStep, Over, Told
<1> QED BY <1>1, <1>2, <1>4, <1>6, CancelledIsAStep, WriteIsLogged

LEMMA RenewIsSilent ==
    ASSUME DocumentsInv, NEW r \in RunIds, NEW attempt, NEW old, RenewRun(r, attempt, old)
    PROVE  \E b \in Runs : Silent(r, b)
<1> DEFINE a == runs[r]
           c == [a EXCEPT !.lease.live = TRUE]
           b == [c EXCEPT !.version = a.version + 1]
<1>1. Exists(r) /\ ~Over(a) /\ a.lease # NoLease
      /\ UNCHANGED <<events, keys, reflections, index, sessions, generation>>
    BY OwnerAnswers DEF RenewRun, Exists
<1>2. a \in Runs /\ a.payload = NoPayload
    BY <1>1, OpenRun
<1>3. a.lease \in Leases /\ a.version \in 0..MaxVersion /\ a.gen \in Nat \ {0}
    BY <1>1, <1>2, RunFields, CloudNumbers DEF Versions
<1>4. /\ c \in Runs /\ c.gen = a.gen /\ c.session = a.session /\ c.version = a.version
      /\ c.payload = NoPayload /\ c.state = a.state /\ c.flagged = a.flagged
      /\ c.lease # NoLease
    <2> DEFINE lease == [a.lease EXCEPT !.live = TRUE]
    <2>1. lease \in Leases /\ lease # NoLease
        BY <1>3, CloudSentinels DEF Leases
    <2>2. c = [a EXCEPT !.lease = lease]
        BY <1>2 DEF Runs
    <2> HIDE DEF lease, c
    <2> QED BY <1>2, <2>1, <2>2 DEF Runs
<1>5. runs' = [runs EXCEPT ![r] = [c EXCEPT !.version = c.version + 1]]
      /\ a.version + a.gen <= MaxVersion
    BY DEF RenewRun, SaveRun
<1> HIDE DEF c
<1>6. runs' = [runs EXCEPT ![r] = b]
    BY <1>4, <1>5
<1>7. a.version + 1 \in Versions
    BY <1>3, <1>5, CloudNumbers DEF Versions
<1>8. /\ b \in Runs /\ b.gen = a.gen /\ b.session = a.session /\ b.version = a.version + 1
      /\ b.payload = NoPayload /\ b.state = a.state /\ b.flagged = a.flagged
      /\ b.lease # NoLease
    BY <1>4, <1>7 DEF Runs
<1> HIDE DEF b
<1>9. RunStep(a, b) /\ ~Over(b)
    BY <1>1, <1>3, <1>8 DEF RunStep, Over, Told
<1> QED BY <1>1, <1>6, <1>8, <1>9 DEF Silent

LEMMA ExpireIsSilent ==
    ASSUME DocumentsInv, NEW r \in RunIds, Expire(r)
    PROVE  \E b \in Runs : Silent(r, b)
<1> DEFINE a == runs[r]
           b == [a EXCEPT !.lease.live = FALSE]
           lease == [a.lease EXCEPT !.live = FALSE]
<1>1. Exists(r) /\ a.lease # NoLease /\ runs' = [runs EXCEPT ![r] = b]
      /\ UNCHANGED <<events, keys, reflections, index, sessions, generation>>
    BY DEF Expire, Running
<1>2. a \in Runs /\ ~Over(a) /\ a.payload = NoPayload
    BY <1>1, OpenRun
<1>3. a.lease \in Leases /\ a.version \in Nat
    BY <1>1, <1>2, RunFields, CloudNumbers
<1>4. lease \in Leases /\ lease # NoLease
    BY <1>3, CloudSentinels DEF Leases
<1>5. b = [a EXCEPT !.lease = lease]
    BY <1>2 DEF Runs
<1> HIDE DEF lease, b
<1>6. /\ b \in Runs /\ b.gen = a.gen /\ b.session = a.session /\ b.version = a.version
      /\ b.payload = NoPayload /\ b.state = a.state /\ b.flagged = a.flagged
      /\ b.lease # NoLease
    BY <1>2, <1>4, <1>5 DEF Runs
<1>7. RunStep(a, b) /\ ~Over(b)
    BY <1>2, <1>3, <1>6 DEF RunStep, Over, Told
<1> QED BY <1>1, <1>6, <1>7 DEF Silent

-----------------------------------------------------------------------------
\* So is every action.

\* A handler at a step that has a run, a task or a document has them.
LEMMA SoundHandler ==
    ASSUME HandlersInv, NEW p \in Procs
    PROVE  LET h == procs[p] IN
           /\ h \in Handlers /\ h.gen <= generation /\ h.gen \in 0..MaxGeneration
           /\ h.step \in EnqueueSteps \cup RemovalSteps \cup DeliverySteps =>
                  h.run \in RunIds /\ h.gen \in Generations
           /\ h.step \in PurgeSteps => h.run \in RunIds
           /\ h.step \in MakingSteps \cup DeliverySteps => h.task \in TaskNames
           /\ h.then = "ack" =>
                  h.task \in TaskNames /\ h.step \in RemovalSteps \cup {"cancelling"}
           /\ h.step \in {"checking", "repairing", "unindexing", "untasking"} =>
                  h.item \in Items /\ h.item.gen = h.gen
<1>1. procs[p] \in Handlers
    BY DEF HandlersInv
<1>2. procs[p].gen \in 0..MaxGeneration
    BY <1>1 DEF Handlers
<1> QED BY <1>1, <1>2 DEF HandlersInv, Sound, SoundAt

LEMMA SamePurged ==
    ASSUME HandlersInv, UNCHANGED purged
    PROVE  purged' \subseteq RunIds /\ \A r \in purged : r \in purged' \/ runs'[r] = NoRun
BY DEF HandlersInv

LEMMA EnqueueingIsAStep ==
    ASSUME HandlersInv, NEW p \in Procs, Enqueueing(p), UNCHANGED serviceVars
    PROVE  DocumentStep
<1> DEFINE h == procs[p]
<1>1. UNCHANGED purged
    BY DEF serviceVars
<1>2. CASE UNCHANGED documents
    BY <1>1, <1>2, SamePurged DEF DocumentStep
<1>3. CASE Repair(p)
    <2>1. h.run \in RunIds
        BY <1>3, SoundHandler DEF Repair, At, EnqueueSteps
    <2>2. Indexed(h.run, NoItem) \/ UNCHANGED documents
        BY <1>3 DEF Repair, DeleteMatching, Indexed, documents
    <2> QED BY <1>1, <1>2, <2>1, <2>2, SamePurged DEF DocumentStep
<1>4. CASE PersistIndex(p)
    <2> DEFINE item == [gen |-> h.gen, task |-> h.task]
    <2>1. h.run \in RunIds /\ h.gen \in Generations /\ h.task \in TaskNames
        BY <1>4, SoundHandler DEF PersistIndex, At, EnqueueSteps, MakingSteps
    <2>2. item \in Items /\ item.gen = h.gen
        BY <2>1 DEF Items
    <2> HIDE DEF item
    <2>3. \/ UNCHANGED documents
          \/ /\ Exists(h.run) /\ runs[h.run].gen = h.gen
             /\ index' = [index EXCEPT ![h.run] = item]
             /\ UNCHANGED <<runs, events, keys, reflections, sessions, generation>>
        BY <1>4 DEF PersistIndex, documents, item
    <2>4. UNCHANGED documents \/ Indexed(h.run, item)
        BY <2>2, <2>3 DEF Indexed
    <2> QED BY <1>1, <1>2, <2>1, <2>2, <2>4, SamePurged DEF DocumentStep
<1> QED BY <1>2, <1>3, <1>4 DEF Enqueueing, ReadIndex, ReadParent, CheckTask, CreateTask,
        PersistFails, Undo

LEMMA RemovingIsAStep ==
    ASSUME HandlersInv, NEW p \in Procs, Removing(p), UNCHANGED serviceVars
    PROVE  DocumentStep
<1> DEFINE h == procs[p]
<1>1. UNCHANGED purged
    BY DEF serviceVars
<1>2. CASE UNCHANGED documents
    BY <1>1, <1>2, SamePurged DEF DocumentStep
<1>3. CASE Unindex(p)
    <2>1. h.run \in RunIds
        BY <1>3, SoundHandler DEF Unindex, At, RemovalSteps
    <2>2. Indexed(h.run, NoItem) \/ UNCHANGED documents
        BY <1>3 DEF Unindex, DeleteMatching, Indexed, documents
    <2> QED BY <1>1, <1>2, <2>1, <2>2, SamePurged DEF DocumentStep
<1> QED BY <1>2, <1>3 DEF Removing, ListItems, Untask

LEMMA RequestIsAStep ==
    ASSUME DocumentsInv, HandlersInv, NEW p \in Procs, Request(p)
    PROVE  DocumentStep
<1>1. ASSUME NEW r \in RunIds, SubmitAgain(p, r) PROVE DocumentStep
    BY <1>1, SamePurged DEF SubmitAgain, serviceVars, DocumentStep
<1>2. ASSUME NEW r \in RunIds, NEW s \in Sessions, Submit(p, r, s) PROVE DocumentStep
    BY <1>2, SamePurged DEF Submit, serviceVars, DocumentStep
<1>3. ASSUME NEW r \in RunIds, NEW old, Cancel(p, r, old) PROVE DocumentStep
    <2>1. UNCHANGED purged
        BY <1>3 DEF Cancel, serviceVars
    <2>2. (\E b \in Runs : Logged(r, b)) \/ UNCHANGED documents
        BY <1>3, FlagIsLogged DEF Cancel
    <2> QED BY <2>1, <2>2, SamePurged DEF DocumentStep
<1> QED BY <1>1, <1>2, <1>3, EnqueueingIsAStep, RemovingIsAStep DEF Request

LEMMA DeliveryIsAStep ==
    ASSUME DocumentsInv, HandlersInv, NEW p \in Procs, Delivery(p)
    PROVE  DocumentStep
<1> DEFINE h == procs[p]
<1>1. ASSUME UNCHANGED documents, UNCHANGED serviceVars PROVE DocumentStep
    BY <1>1, SamePurged DEF DocumentStep, serviceVars
<1>2. ASSUME NEW b \in Runs, Logged(h.run, b) \/ Silent(h.run, b), h.run \in RunIds,
             UNCHANGED serviceVars
      PROVE  DocumentStep
    BY <1>2, SamePurged DEF DocumentStep, serviceVars
<1>3. ASSUME NEW n \in TaskNames, Deliver(p, n) PROVE DocumentStep
    BY <1>1, <1>3 DEF Deliver
<1>4. ASSUME NEW granted, Admit(p, granted) PROVE DocumentStep
    BY <1>1, <1>4 DEF Admit
<1>5. CASE Inspect(p)
    BY <1>1, <1>5 DEF Inspect, serviceVars
<1>6. ASSUME NEW old, Claim(p, old) PROVE DocumentStep
    <2>1. h.run \in RunIds
        BY <1>6, SoundHandler DEF Claim, At, DeliverySteps
    <2>2. ClaimRun(h.run, h.gen, old) \/ UNCHANGED documents
        BY <1>6 DEF Claim
    <2>3. UNCHANGED serviceVars
        BY <1>6 DEF Claim, serviceVars
    <2> QED BY <1>1, <1>2, <2>1, <2>2, <2>3, ClaimIsLogged
<1>7. ASSUME NEW old, Heartbeat(p, old) PROVE DocumentStep
    <2>1. h.run \in RunIds
        BY <1>7, SoundHandler DEF Heartbeat, At, DeliverySteps
    <2>2. RenewRun(h.run, h.attempt, old) \/ UNCHANGED documents
        BY <1>7 DEF Heartbeat
    <2>3. UNCHANGED serviceVars
        BY <1>7 DEF Heartbeat, serviceVars
    <2> QED BY <1>1, <1>2, <2>1, <2>2, <2>3, RenewIsSilent
<1>8. ASSUME NEW next, NEW payload, NEW old, WriteResult(p, next, payload, old)
      PROVE  DocumentStep
    <2>1. h.run \in RunIds
        BY <1>8, SoundHandler DEF WriteResult, At, DeliverySteps
    <2>2. UpdateRun(h.run, h.version, next, payload, h.attempt, old) \/ UNCHANGED documents
        BY <1>8 DEF WriteResult
    <2>3. UNCHANGED serviceVars /\ next \in {"completed", "failed"}
        BY <1>8 DEF WriteResult, serviceVars
    <2> QED BY <1>1, <1>2, <2>1, <2>2, <2>3, UpdateIsLogged
<1>9. ASSUME NEW old, WriteCancellation(p, old) PROVE DocumentStep
    <2>1. h.run \in RunIds
        BY <1>9, SoundHandler DEF WriteCancellation, At, DeliverySteps
    <2>2. UpdateRun(h.run, h.version, "cancelled", NoPayload, h.attempt, old)
          \/ UNCHANGED documents
        BY <1>9 DEF WriteCancellation
    <2>3. UNCHANGED serviceVars
        BY <1>9 DEF WriteCancellation, serviceVars
    <2> QED BY <1>1, <1>2, <2>1, <2>2, <2>3, UpdateIsLogged
<1> QED BY <1>3, <1>4, <1>5, <1>6, <1>7, <1>8, <1>9 DEF Delivery

LEMMA DeletionIsAStep ==
    ASSUME DocumentsInv, HandlersInv, NEW p \in Procs, Deletion(p)
    PROVE  DocumentStep
<1> DEFINE r == procs[p].run
           s == emptied[p]
<1>1. ASSUME UNCHANGED documents, UNCHANGED purged PROVE DocumentStep
    BY <1>1, SamePurged DEF DocumentStep
<1>2. CASE (\E x \in Sessions : Delete(p, x)) \/ NextChild(p)
    BY <1>1, <1>2 DEF Delete, NextChild, serviceVars
<1>3. CASE Purge(p)
    <2>1. r \in RunIds
        BY <1>3, SoundHandler DEF Purge, At, PurgeSteps
    <2>2. CASE /\ At(p, "purging_events")
               /\ \E batch \in Batches(events[r]) : PurgeEvents(r, batch)
               /\ purged' = IF Exists(r) THEN purged \cup {r} ELSE purged
        <3>1. PICK batch \in SUBSET events[r] : PurgeEvents(r, batch)
            BY <2>2 DEF Batches
        <3>2. /\ purged' \subseteq RunIds /\ purged \subseteq purged'
              /\ Exists(r) => r \in purged'
            BY <2>1, <2>2 DEF HandlersInv
        <3> QED BY <2>1, <3>1, <3>2 DEF DocumentStep
    <2>3. CASE PurgeItem(r) /\ UNCHANGED purged
        <3>1. Indexed(r, NoItem)
            BY <2>3 DEF PurgeItem, Indexed
        <3> QED BY <2>1, <2>3, <3>1, SamePurged DEF DocumentStep
    <2> QED BY <1>3, <2>2, <2>3 DEF Purge
<1>4. CASE Remove(p)
    <2>1. r \in RunIds
        BY <1>4, SoundHandler DEF Remove, At, PurgeSteps
    <2>2. CASE RemoveRun(r) /\ purged' = purged \ {r}
        <3>1. runs'[r] = NoRun
            BY <2>1, <2>2 DEF RemoveRun, DocumentsInv, DocumentTypes
        <3>2. purged' \subseteq RunIds /\ \A x \in purged : x \in purged' \/ runs'[x] = NoRun
            BY <2>2, <3>1 DEF HandlersInv
        <3> QED BY <2>1, <2>2, <3>2 DEF DocumentStep
    <2> QED BY <1>1, <1>4, <2>2 DEF Remove
<1>5. CASE Finish(p)
    <2>1. UNCHANGED purged /\ s \in Sessions
        BY <1>5 DEF Finish, serviceVars, HandlersInv
    <2>2. \/ \E batch \in Batches(ReflectionsOf(s)) : PurgeReflections(s, batch)
          \/ RemoveSession(s)
          \/ UNCHANGED documents
        BY <1>5 DEF Finish
    <2>3. Forgotten \/ RemoveSession(s) \/ UNCHANGED documents
        BY <2>2 DEF PurgeReflections, Forgotten
    <2> QED BY <2>1, <2>3, SamePurged DEF DocumentStep
<1> QED BY <1>2, <1>3, <1>4, <1>5 DEF Deletion

LEMMA NextIsAStep ==
    ASSUME DocumentsInv, HandlersInv, Next
    PROVE  DocumentStep
<1>1. ASSUME UNCHANGED documents, UNCHANGED purged PROVE DocumentStep
    BY <1>1, SamePurged DEF DocumentStep
<1>2. ASSUME NEW p \in Procs, Crash(p) PROVE DocumentStep
    BY <1>1, <1>2 DEF Crash, serviceVars
<1>3. ASSUME NEW r \in RunIds, Expire(r) PROVE DocumentStep
    <2>1. UNCHANGED purged
        BY <1>3 DEF Expire, serviceVars
    <2> QED BY <1>3, <2>1, ExpireIsSilent, SamePurged DEF DocumentStep
<1>4. ASSUME NEW n \in TaskNames, GiveUp(n) PROVE DocumentStep
    BY <1>1, <1>4 DEF GiveUp, serviceVars
<1>5. ASSUME NEW s \in Sessions, DeleteMemory(s) \/ Open(s) PROVE DocumentStep
    <2>1. UNCHANGED purged
        BY <1>5 DEF DeleteMemory, Open, serviceVars
    <2>2. Forgotten \/ PutSession(s)
        BY <1>5 DEF DeleteMemory, Open, PurgeReflections, Forgotten
    <2> QED BY <2>1, <2>2, SamePurged DEF DocumentStep
<1> QED BY <1>2, <1>3, <1>4, <1>5, RequestIsAStep, DeliveryIsAStep, DeletionIsAStep DEF Next

-----------------------------------------------------------------------------
\* Every action keeps the handlers sound.

\* One handler comes to a step; what it remembers then.
Moved(p, step, run, gen, task, item, then) ==
    /\ procs' \in [Procs -> Handlers]
    /\ \A q \in Procs : q # p => procs'[q] = procs[q]
    /\ procs'[p].step = step /\ procs'[p].run = run /\ procs'[p].gen = gen
    /\ procs'[p].task = task /\ procs'[p].item = item /\ procs'[p].then = then

\* It goes on with what it had.
Went(p, step) == Moved(p, step, procs[p].run, procs[p].gen, procs[p].task, procs[p].item,
                       procs[p].then)

AllSteps == {"idle"} \cup EnqueueSteps \cup RemovalSteps \cup DeliverySteps \cup DeletionSteps

LEMMA Becoming ==
    ASSUME HandlersInv, NEW p \in Procs, NEW h \in Handlers, Become(p, h)
    PROVE  Moved(p, h.step, h.run, h.gen, h.task, h.item, h.then)
BY DEF HandlersInv, Become, Moved

LEMMA IdleIsAHandler ==
    /\ Idle \in Handlers
    /\ Idle.step = "idle" /\ Idle.run = NoRun /\ Idle.gen = 0 /\ Idle.task = NoTask
    /\ Idle.item = NoItem /\ Idle.then = "answer"
BY CloudNumbers, QueueAssumption DEF Idle, Handlers, Versions

\* A handler that has finished.
LEMMA Finishing ==
    ASSUME HandlersInv, NEW p \in Procs, Become(p, Idle)
    PROVE  Moved(p, "idle", NoRun, 0, NoTask, NoItem, "answer")
BY Becoming, IdleIsAHandler

\* A handler that begins.
LEMMA Starting ==
    ASSUME HandlersInv, NEW p \in Procs, NEW step \in AllSteps, NEW run \in RunIds
    PROVE  /\ Become(p, [Idle EXCEPT !.step = step, !.run = run]) =>
                  Moved(p, step, run, 0, NoTask, NoItem, "answer")
           /\ \A gen \in 0..MaxGeneration :
                /\ Become(p, [Idle EXCEPT !.step = step, !.run = run, !.gen = gen]) =>
                       Moved(p, step, run, gen, NoTask, NoItem, "answer")
                /\ \A round \in 0..MaxRounds :
                       Become(p, [Idle EXCEPT !.step = step, !.run = run, !.gen = gen,
                                              !.round = round]) =>
                           Moved(p, step, run, gen, NoTask, NoItem, "answer")
                /\ \A task \in TaskNames :
                       Become(p, [Idle EXCEPT !.step = step, !.run = run, !.gen = gen,
                                              !.task = task]) =>
                           Moved(p, step, run, gen, task, NoItem, "answer")
<1>1. ASSUME Become(p, [Idle EXCEPT !.step = step, !.run = run])
      PROVE  Moved(p, step, run, 0, NoTask, NoItem, "answer")
    <2> DEFINE h == [Idle EXCEPT !.step = step, !.run = run]
    <2>1. /\ h \in Handlers /\ h.step = step /\ h.run = run /\ h.gen = 0 /\ h.task = NoTask
          /\ h.item = NoItem /\ h.then = "answer"
        BY IdleIsAHandler DEF Handlers, AllSteps
    <2> HIDE DEF h
    <2> QED BY <1>1, <2>1, Becoming DEF h
<1>2. ASSUME NEW gen \in 0..MaxGeneration,
             Become(p, [Idle EXCEPT !.step = step, !.run = run, !.gen = gen])
      PROVE  Moved(p, step, run, gen, NoTask, NoItem, "answer")
    <2> DEFINE h == [Idle EXCEPT !.step = step, !.run = run, !.gen = gen]
    <2>1. /\ h \in Handlers /\ h.step = step /\ h.run = run /\ h.gen = gen /\ h.task = NoTask
          /\ h.item = NoItem /\ h.then = "answer"
        BY IdleIsAHandler DEF Handlers, AllSteps
    <2> HIDE DEF h
    <2> QED BY <1>2, <2>1, Becoming DEF h
<1>3. ASSUME NEW gen \in 0..MaxGeneration, NEW round \in 0..MaxRounds,
             Become(p, [Idle EXCEPT !.step = step, !.run = run, !.gen = gen, !.round = round])
      PROVE  Moved(p, step, run, gen, NoTask, NoItem, "answer")
    <2> DEFINE h == [Idle EXCEPT !.step = step, !.run = run, !.gen = gen, !.round = round]
    <2>1. /\ h \in Handlers /\ h.step = step /\ h.run = run /\ h.gen = gen /\ h.task = NoTask
          /\ h.item = NoItem /\ h.then = "answer"
        BY IdleIsAHandler DEF Handlers, AllSteps
    <2> HIDE DEF h
    <2> QED BY <1>3, <2>1, Becoming DEF h
<1>4. ASSUME NEW gen \in 0..MaxGeneration, NEW task \in TaskNames,
             Become(p, [Idle EXCEPT !.step = step, !.run = run, !.gen = gen, !.task = task])
      PROVE  Moved(p, step, run, gen, task, NoItem, "answer")
    <2> DEFINE h == [Idle EXCEPT !.step = step, !.run = run, !.gen = gen, !.task = task]
    <2>1. /\ h \in Handlers /\ h.step = step /\ h.run = run /\ h.gen = gen /\ h.task = task
          /\ h.item = NoItem /\ h.then = "answer"
        BY IdleIsAHandler DEF Handlers, AllSteps
    <2> HIDE DEF h
    <2> QED BY <1>4, <2>1, Becoming DEF h
<1> QED BY <1>1, <1>2, <1>3, <1>4

\* A handler that goes on: with another step only, document, task or answer.
LEMMA GoingOn ==
    ASSUME HandlersInv, NEW p \in Procs, NEW step \in AllSteps
    PROVE  LET h == procs[p] IN
           /\ GoTo(p, step) => Went(p, step)
           /\ \A item \in Items \cup {NoItem} :
                  Become(p, [h EXCEPT !.step = step, !.item = item]) =>
                      Moved(p, step, h.run, h.gen, h.task, item, h.then)
           /\ \A task \in TaskNames :
                  Become(p, [h EXCEPT !.step = step, !.task = task]) =>
                      Moved(p, step, h.run, h.gen, task, h.item, h.then)
<1> DEFINE h == procs[p]
<1>1. h \in Handlers
    BY DEF HandlersInv
<1>2. ASSUME GoTo(p, step) PROVE Went(p, step)
    <2> DEFINE k == [h EXCEPT !.step = step]
    <2>1. /\ k \in Handlers /\ k.step = step /\ k.run = h.run /\ k.gen = h.gen
          /\ k.task = h.task /\ k.item = h.item /\ k.then = h.then
        BY <1>1 DEF Handlers, AllSteps
    <2> HIDE DEF k
    <2> QED BY <1>2, <2>1, Becoming DEF k, GoTo, Went
<1>3. ASSUME NEW item \in Items \cup {NoItem}, Become(p, [h EXCEPT !.step = step, !.item = item])
      PROVE  Moved(p, step, h.run, h.gen, h.task, item, h.then)
    <2> DEFINE k == [h EXCEPT !.step = step, !.item = item]
    <2>1. /\ k \in Handlers /\ k.step = step /\ k.run = h.run /\ k.gen = h.gen
          /\ k.task = h.task /\ k.item = item /\ k.then = h.then
        BY ZenonT(60), <1>1 DEF Handlers, AllSteps
    <2> HIDE DEF k
    <2> QED BY <1>3, <2>1, Becoming DEF k
<1>4. ASSUME NEW task \in TaskNames, Become(p, [h EXCEPT !.step = step, !.task = task])
      PROVE  Moved(p, step, h.run, h.gen, task, h.item, h.then)
    <2> DEFINE k == [h EXCEPT !.step = step, !.task = task]
    <2>1. /\ k \in Handlers /\ k.step = step /\ k.run = h.run /\ k.gen = h.gen
          /\ k.task = task /\ k.item = h.item /\ k.then = h.then
        BY <1>1 DEF Handlers, AllSteps
    <2> HIDE DEF k
    <2> QED BY <1>4, <2>1, Becoming DEF k
<1> QED BY <1>2, <1>3, <1>4

\* A handler that goes on with its delivery; CleanUp is one of these.
LEMMA Delivering ==
    ASSUME HandlersInv, NEW p \in Procs, NEW step \in AllSteps
    PROVE  LET h == procs[p] IN
           /\ \A allowed \in BOOLEAN :
                  Become(p, [h EXCEPT !.step = step, !.allowed = allowed]) =>
                      Went(p, step)
           /\ \A allowed \in BOOLEAN, attempt \in Versions :
                  Become(p, [h EXCEPT !.step = step, !.allowed = allowed, !.attempt = attempt]) =>
                      Went(p, step)
           /\ \A version \in Versions :
                  Become(p, [h EXCEPT !.step = step, !.version = version]) =>
                      Went(p, step)
           /\ \A version \in Versions, attempt \in Versions :
                  Become(p, [h EXCEPT !.step = step, !.version = version, !.attempt = attempt]) =>
                      Went(p, step)
           /\ \A then \in {"answer", "ack"}, allowed \in BOOLEAN :
                  Become(p, [h EXCEPT !.step = step, !.then = then, !.allowed = allowed]) =>
                      Moved(p, step, h.run, h.gen, h.task, h.item, then)
           /\ \A version \in Versions, attempt \in Versions, then \in {"answer", "ack"} :
                  Become(p, [h EXCEPT !.step = step, !.version = version, !.attempt = attempt,
                                      !.then = then]) =>
                      Moved(p, step, h.run, h.gen, h.task, h.item, then)
           /\ \A then \in {"answer", "ack"} :
                  CleanUp(p, then) => Moved(p, "listing", h.run, h.gen, h.task, h.item, then)
<1> DEFINE h == procs[p]
           Like(k, s, t) == /\ k \in Handlers /\ k.step = s /\ k.run = h.run /\ k.gen = h.gen
                            /\ k.task = h.task /\ k.item = h.item /\ k.then = t
<1>1. h \in Handlers /\ 0 \in Versions
    BY CloudNumbers DEF HandlersInv, Versions
<1>2. ASSUME NEW k, NEW s, NEW t, Like(k, s, t), Become(p, k)
      PROVE  Moved(p, s, h.run, h.gen, h.task, h.item, t)
    BY <1>2, Becoming
<1>3. ASSUME NEW allowed \in BOOLEAN
      PROVE  Like([h EXCEPT !.step = step, !.allowed = allowed], step, h.then)
    BY ZenonT(60), <1>1, <1>3 DEF Handlers, AllSteps
<1>4. ASSUME NEW allowed \in BOOLEAN, NEW attempt \in Versions
      PROVE  Like([h EXCEPT !.step = step, !.allowed = allowed, !.attempt = attempt], step, h.then)
    BY ZenonT(60), <1>1, <1>4 DEF Handlers, AllSteps
<1>5. ASSUME NEW version \in Versions
      PROVE  Like([h EXCEPT !.step = step, !.version = version], step, h.then)
    BY <1>1, <1>5 DEF Handlers, AllSteps
<1>6. ASSUME NEW version \in Versions, NEW attempt \in Versions
      PROVE  Like([h EXCEPT !.step = step, !.version = version, !.attempt = attempt], step, h.then)
    BY <1>1, <1>6 DEF Handlers, AllSteps
<1>7. ASSUME NEW then \in {"answer", "ack"}, NEW allowed \in BOOLEAN
      PROVE  Like([h EXCEPT !.step = step, !.then = then, !.allowed = allowed], step, then)
    <2> DEFINE k == [h EXCEPT !.step = step, !.then = then]
    <2>1. Like(k, step, then)
        BY ZenonT(60), <1>1, <1>7 DEF Handlers, AllSteps
    <2>2. [h EXCEPT !.step = step, !.then = then, !.allowed = allowed]
              = [k EXCEPT !.allowed = allowed]
        BY <1>1 DEF Handlers
    <2> HIDE DEF k
    <2> QED BY <2>1, <2>2 DEF Handlers, AllSteps
<1>8. ASSUME NEW version \in Versions, NEW attempt \in Versions, NEW then \in {"answer", "ack"}
      PROVE  Like([h EXCEPT !.step = step, !.version = version, !.attempt = attempt,
                           !.then = then], step, then)
    BY ZenonT(60), <1>1, <1>8 DEF Handlers, AllSteps
<1>9. ASSUME NEW then \in {"answer", "ack"}
      PROVE  Like([h EXCEPT !.step = "listing", !.then = then, !.attempt = 0, !.version = 0],
                  "listing", then)
    BY <1>1, <1>9 DEF Handlers, RemovalSteps
<1> HIDE DEF Like
<1>10. /\ \A allowed \in BOOLEAN :
              Become(p, [h EXCEPT !.step = step, !.allowed = allowed]) => Went(p, step)
       /\ \A allowed \in BOOLEAN, attempt \in Versions :
              Become(p, [h EXCEPT !.step = step, !.allowed = allowed, !.attempt = attempt]) =>
                  Went(p, step)
    BY <1>2, <1>3, <1>4 DEF Went
<1>11. /\ \A version \in Versions :
              Become(p, [h EXCEPT !.step = step, !.version = version]) => Went(p, step)
       /\ \A version \in Versions, attempt \in Versions :
              Become(p, [h EXCEPT !.step = step, !.version = version, !.attempt = attempt]) =>
                  Went(p, step)
    BY <1>2, <1>5, <1>6 DEF Went
<1>12. ASSUME NEW then \in {"answer", "ack"}
       PROVE  CleanUp(p, then) => Moved(p, "listing", h.run, h.gen, h.task, h.item, then)
    BY <1>2, <1>9, <1>12 DEF CleanUp
<1> QED BY <1>2, <1>7, <1>8, <1>10, <1>11, <1>12

\* What else the invariant asks of a step that changes the tasks, the generations that
\* were accepted and the deletions that are under way.
QueueTyped ==
    /\ tasks' \in [TaskNames -> [run : RunIds, gen : Generations] \cup {NoTask}]
    /\ \A n \in TaskNames : tasks'[n] # NoTask => tasks'[n].gen <= generation'
    /\ accepted' \in [RunIds -> 0..MaxGeneration]
    /\ \A r \in RunIds : accepted'[r] <= generation'
    /\ purged' \subseteq RunIds
    /\ emptied' \in [Procs -> Sessions]

\* Generations only grow.
LEMMA GenerationGrows ==
    ASSUME DocumentsInv, DocumentStep
    PROVE  /\ generation \in Nat /\ generation' \in Nat /\ generation <= generation'
           /\ (\A r \in RunIds, s \in Sessions : ~CreateRun(r, s)) => generation' = generation
<1>1. generation \in Nat
    BY CloudNumbers DEF DocumentsInv, DocumentTypes
<1>2. \/ generation' = generation
      \/ \E r \in RunIds, s \in Sessions : CreateRun(r, s)
    BY DEF DocumentStep, documents, Logged, Silent, Indexed, PurgeEvents, RemoveRun, Forgotten,
        RemoveSession, PutSession
<1>3. ASSUME NEW r \in RunIds, NEW s \in Sessions, CreateRun(r, s)
      PROVE  generation' = generation + 1
    BY <1>3 DEF CreateRun
<1> QED BY <1>1, <1>2, <1>3

LEMMA OthersStaySound ==
    ASSUME DocumentsInv, HandlersInv, DocumentStep, QueueTyped,
           NEW p \in Procs, procs' \in [Procs -> Handlers],
           \A q \in Procs : q # p => procs'[q] = procs[q],
           Sound(p)'
    PROVE  HandlersInv'
<1>1. ASSUME NEW q \in Procs, q # p PROVE Sound(q)'
    <2>1. procs'[q] = procs[q] /\ procs[q].gen <= generation /\ procs[q].gen \in 0..MaxGeneration
        BY <1>1, SoundHandler
    <2>2. procs[q].gen <= generation'
        BY <2>1, GenerationGrows, CloudNumbers
    <2> QED BY <2>1, <2>2 DEF HandlersInv, Sound, SoundAt
<1> QED BY <1>1 DEF HandlersInv, QueueTyped

LEMMA MoveKeepsHandlers ==
    ASSUME DocumentsInv, HandlersInv, DocumentStep, QueueTyped, NEW p \in Procs,
           NEW step, NEW run, NEW gen, NEW task, NEW item, NEW then,
           Moved(p, step, run, gen, task, item, then),
           SoundAt(step, run, gen, task, item, then, generation')
    PROVE  HandlersInv'
<1>1. Sound(p)'
    BY DEF Moved, Sound
<1> QED BY <1>1, OthersStaySound DEF Moved

LEMMA SameHandlers ==
    ASSUME DocumentsInv, HandlersInv, DocumentStep, QueueTyped, UNCHANGED procs
    PROVE  HandlersInv'
<1>1. ASSUME NEW q \in Procs PROVE Sound(q)'
    <2>1. procs'[q] = procs[q] /\ procs[q].gen <= generation /\ procs[q].gen \in 0..MaxGeneration
        BY <1>1, SoundHandler
    <2>2. procs[q].gen <= generation'
        BY <2>1, GenerationGrows, CloudNumbers
    <2> QED BY <2>1, <2>2 DEF HandlersInv, Sound, SoundAt
<1> QED BY <1>1 DEF HandlersInv, QueueTyped

LEMMA FinishingKeepsHandlers ==
    ASSUME DocumentsInv, HandlersInv, DocumentStep, QueueTyped, NEW p \in Procs, Become(p, Idle)
    PROVE  HandlersInv'
<1>1. SoundAt("idle", NoRun, 0, NoTask, NoItem, "answer", generation')
    BY GenerationGrows DEF SoundAt, EnqueueSteps, RemovalSteps, DeliverySteps, PurgeSteps,
        MakingSteps
<1> QED BY <1>1, Finishing, MoveKeepsHandlers

\* Removing tasks and changing nothing else of the queue is sound.
LEMMA QueueStaysTyped ==
    ASSUME DocumentsInv, HandlersInv, DocumentStep,
           \A n \in TaskNames : tasks'[n] = tasks[n] \/ tasks'[n] = NoTask,
           tasks' \in [TaskNames -> [run : RunIds, gen : Generations] \cup {NoTask}],
           accepted' \in [RunIds -> 0..MaxGeneration],
           \A r \in RunIds : accepted'[r] = accepted[r] \/ accepted'[r] <= generation,
           emptied' \in [Procs -> Sessions]
    PROVE  QueueTyped
<1>1. purged' \subseteq RunIds
    BY DEF DocumentStep
<1>2. ASSUME NEW n \in TaskNames, tasks'[n] # NoTask PROVE tasks'[n].gen <= generation'
    <2>1. /\ tasks'[n] = tasks[n] /\ tasks[n].gen <= generation
          /\ tasks[n] \in [run : RunIds, gen : Generations]
        BY <1>2 DEF HandlersInv
    <2>2. tasks[n].gen \in Nat
        BY <2>1, CloudNumbers
    <2> QED BY <2>1, <2>2, GenerationGrows
<1>3. ASSUME NEW r \in RunIds PROVE accepted'[r] <= generation'
    <2>1. accepted'[r] \in Nat /\ accepted'[r] <= generation
        BY CloudNumbers DEF HandlersInv
    <2> QED BY <2>1, GenerationGrows
<1> QED BY <1>1, <1>2, <1>3 DEF QueueTyped

LEMMA QueueUnchanged ==
    ASSUME DocumentsInv, HandlersInv, DocumentStep, UNCHANGED <<tasks, accepted>>,
           emptied' \in [Procs -> Sessions]
    PROVE  QueueTyped
<1>1. /\ \A n \in TaskNames : tasks'[n] = tasks[n]
      /\ \A r \in RunIds : accepted'[r] = accepted[r]
      /\ tasks' \in [TaskNames -> [run : RunIds, gen : Generations] \cup {NoTask}]
      /\ accepted' \in [RunIds -> 0..MaxGeneration]
    BY DEF HandlersInv
<1> QED BY <1>1, QueueStaysTyped

LEMMA GenerationsStayDrawn ==
    ASSUME DocumentsInv, HandlersInv, DocumentStep, NEW p \in Procs
    PROVE  procs[p].gen <= generation'
<1>1. procs[p].gen \in Nat /\ procs[p].gen <= generation
    BY SoundHandler, CloudNumbers
<1> QED BY <1>1, GenerationGrows

LEMMA EnqueueingKeepsHandlers ==
    ASSUME DocumentsInv, HandlersInv, DocumentStep, NEW p \in Procs, Enqueueing(p),
           UNCHANGED serviceVars
    PROVE  HandlersInv'
<1> DEFINE h == procs[p]
<1>1. emptied' \in [Procs -> Sessions]
    BY DEF serviceVars, HandlersInv
<1>2. h.gen <= generation'
    BY GenerationsStayDrawn
<1>3. h.step \in EnqueueSteps
    BY DEF Enqueueing, ReadIndex, ReadParent, CheckTask, Repair, CreateTask, PersistIndex,
        PersistFails, Undo, At, EnqueueSteps
<1>4. /\ h.run \in RunIds /\ h.gen \in Generations /\ h.then # "ack"
      /\ h.step \in MakingSteps => h.task \in TaskNames
      /\ h.step \in {"checking", "repairing"} => h.item \in Items /\ h.item.gen = h.gen
      /\ h \in Handlers
    BY <1>3, SoundHandler DEF EnqueueSteps, RemovalSteps
<1>5. ASSUME NEW step \in EnqueueSteps, NEW task, NEW item,
             task \in TaskNames \/ step \notin MakingSteps,
             step \in {"checking", "repairing"} => item \in Items /\ item.gen = h.gen
      PROVE  SoundAt(step, h.run, h.gen, task, item, h.then, generation')
    BY <1>2, <1>4, <1>5 DEF SoundAt, EnqueueSteps, DeliverySteps, PurgeSteps, MakingSteps
<1>6. EnqueueSteps \subseteq AllSteps
    BY DEF AllSteps
<1>7. CASE ReadIndex(p)
    <2>1. Moved(p, "parent", h.run, h.gen, h.task, index[h.run], h.then)
        BY <1>4, <1>6, <1>7, GoingOn DEF ReadIndex, EnqueueSteps, DocumentsInv, DocumentTypes
    <2>2. QueueTyped
        BY <1>1, <1>7, QueueUnchanged DEF ReadIndex
    <2>3. "parent" \in EnqueueSteps /\ "parent" \notin MakingSteps
        BY DEF EnqueueSteps, MakingSteps
    <2> QED BY <1>5, <2>1, <2>2, <2>3, MoveKeepsHandlers
<1>8. CASE ReadParent(p)
    <2>1. QueueTyped
        BY <1>1, <1>8, QueueUnchanged DEF ReadParent
    <2>2. \/ Become(p, Idle)
          \/ GoTo(p, "creating")
          \/ GoTo(p, "checking") /\ h.item \in Items /\ h.item.gen = h.gen
        <3>1. h.item \in Items \cup {NoItem}
            BY <1>4 DEF Handlers
        <3> QED BY <1>8, <3>1 DEF ReadParent
    <2>3. CASE GoTo(p, "creating")
        <3>1. Went(p, "creating") /\ "creating" \in EnqueueSteps /\ "creating" \notin MakingSteps
            BY <1>6, <2>3, GoingOn DEF EnqueueSteps, MakingSteps
        <3> QED BY <1>5, <2>1, <3>1, MoveKeepsHandlers DEF Went
    <2>4. CASE GoTo(p, "checking") /\ h.item \in Items /\ h.item.gen = h.gen
        <3>1. Went(p, "checking") /\ "checking" \in EnqueueSteps /\ "checking" \notin MakingSteps
            BY <1>6, <2>4, GoingOn DEF EnqueueSteps, MakingSteps
        <3> QED BY <1>5, <2>1, <2>4, <3>1, MoveKeepsHandlers DEF Went
    <2> QED BY <2>1, <2>2, <2>3, <2>4, FinishingKeepsHandlers
<1>9. ASSUME UNCHANGED tasks, Succeed(p) PROVE HandlersInv'
    <2>1. accepted' = [accepted EXCEPT ![h.run] = h.gen] /\ Become(p, Idle)
        BY <1>9 DEF Succeed
    <2>2. h.gen <= generation /\ h.gen \in 0..MaxGeneration
        BY SoundHandler
    <2>3. /\ accepted' \in [RunIds -> 0..MaxGeneration]
          /\ \A r \in RunIds : accepted'[r] = accepted[r] \/ accepted'[r] <= generation
        BY <2>1, <2>2 DEF HandlersInv
    <2>4. /\ \A n \in TaskNames : tasks'[n] = tasks[n]
          /\ tasks' \in [TaskNames -> [run : RunIds, gen : Generations] \cup {NoTask}]
        BY <1>9 DEF HandlersInv
    <2>5. QueueTyped
        BY <1>1, <2>3, <2>4, QueueStaysTyped
    <2> QED BY <2>1, <2>5, FinishingKeepsHandlers
<1>10. CASE CheckTask(p)
    <2>1. CASE GoTo(p, "repairing") /\ UNCHANGED accepted
        <3>1. QueueTyped
            BY <1>1, <1>10, <2>1, QueueUnchanged DEF CheckTask
        <3>2. Went(p, "repairing") /\ "repairing" \in EnqueueSteps /\ "repairing" \notin MakingSteps
            BY <1>6, <2>1, GoingOn DEF EnqueueSteps, MakingSteps
        <3>3. h.item \in Items /\ h.item.gen = h.gen
            BY <1>4, <1>10 DEF CheckTask, At
        <3> QED BY <1>5, <3>1, <3>2, <3>3, MoveKeepsHandlers DEF Went
    <2> QED BY <1>9, <1>10, <2>1 DEF CheckTask
<1>11. ASSUME NextRound(p), QueueTyped PROVE HandlersInv'
    <2>1. CASE Become(p, Idle)
        BY <1>11, <2>1, FinishingKeepsHandlers
    <2>2. CASE /\ h.round < MaxRounds
               /\ Become(p, [Idle EXCEPT !.step = "reading", !.run = h.run, !.gen = h.gen,
                                         !.round = h.round + 1])
        <3>1. h.round \in 0..MaxRounds
            BY <1>4 DEF Handlers
        <3>2. h.round + 1 \in 0..MaxRounds /\ h.gen \in 0..MaxGeneration
            BY <2>2, <3>1, QueueAssumption, SoundHandler
        <3>3. Moved(p, "reading", h.run, h.gen, NoTask, NoItem, "answer")
            BY <1>4, <1>6, <2>2, <3>2, Starting DEF EnqueueSteps
        <3>4. SoundAt("reading", h.run, h.gen, NoTask, NoItem, "answer", generation')
            BY <1>2, <1>4 DEF SoundAt, PurgeSteps, MakingSteps, DeliverySteps
        <3> QED BY <1>11, <3>3, <3>4, MoveKeepsHandlers
    <2> QED BY <1>11, <2>1, <2>2 DEF NextRound
<1>12. CASE Repair(p)
    <2>1. QueueTyped
        BY <1>1, <1>12, QueueUnchanged DEF Repair
    <2>2. CASE Become(p, [h EXCEPT !.step = "creating", !.item = NoItem])
        <3>1. "creating" \in EnqueueSteps /\ "creating" \notin MakingSteps
            BY DEF EnqueueSteps, MakingSteps
        <3>2. Moved(p, "creating", h.run, h.gen, h.task, NoItem, h.then)
            BY <1>6, <2>2, <3>1, GoingOn
        <3> QED BY <1>5, <2>1, <3>1, <3>2, MoveKeepsHandlers
    <2> QED BY <1>11, <1>12, <2>1, <2>2 DEF Repair
<1>13. ASSUME NEW n \in TaskNames, CreateTask(p, n) PROVE HandlersInv'
    <2> DEFINE task == [run |-> h.run, gen |-> h.gen]
    <2>1. task \in [run : RunIds, gen : Generations] /\ task.gen <= generation'
        BY <1>2, <1>4
    <2> HIDE DEF task
    <2>2. tasks' = [tasks EXCEPT ![n] = task] /\ UNCHANGED accepted
        BY <1>13 DEF CreateTask, task
    <2>3. /\ tasks' \in [TaskNames -> [run : RunIds, gen : Generations] \cup {NoTask}]
          /\ tasks'[n] = task
          /\ \A m \in TaskNames : m # n => tasks'[m] = tasks[m]
        BY <2>1, <2>2 DEF HandlersInv
    <2>4. \A m \in TaskNames : tasks[m] # NoTask => tasks[m].gen <= generation'
        <3> SUFFICES ASSUME NEW m \in TaskNames, tasks[m] # NoTask
                     PROVE  tasks[m].gen <= generation'
            OBVIOUS
        <3>1. tasks[m].gen \in Nat /\ tasks[m].gen <= generation
            BY CloudNumbers DEF HandlersInv
        <3> QED BY <3>1, GenerationGrows
    <2>5. \A r \in RunIds : accepted[r] <= generation'
        <3> SUFFICES ASSUME NEW r \in RunIds PROVE accepted[r] <= generation'
            OBVIOUS
        <3>1. accepted[r] \in Nat /\ accepted[r] <= generation
            BY CloudNumbers DEF HandlersInv
        <3> QED BY <3>1, GenerationGrows
    <2>6. purged' \subseteq RunIds /\ accepted' \in [RunIds -> 0..MaxGeneration]
        BY <2>2 DEF DocumentStep, HandlersInv
    <2>7. QueueTyped
        BY <1>1, <2>1, <2>2, <2>3, <2>4, <2>5, <2>6 DEF QueueTyped
    <2>8. CASE Become(p, [h EXCEPT !.step = "indexing", !.task = n])
        <3>1. "indexing" \in EnqueueSteps
            BY DEF EnqueueSteps
        <3>2. Moved(p, "indexing", h.run, h.gen, n, h.item, h.then)
            BY <1>6, <2>8, <3>1, GoingOn
        <3> QED BY <1>5, <2>7, <3>1, <3>2, MoveKeepsHandlers
    <2> QED BY <1>13, <2>7, <2>8, FinishingKeepsHandlers DEF CreateTask
<1>14. ASSUME h.step = "indexing", GoTo(p, "undoing") \/ GoTo(p, "undoing_for_good"),
              UNCHANGED <<tasks, accepted>>
       PROVE  HandlersInv'
    <2>1. h.task \in TaskNames
        BY <1>4, <1>14 DEF MakingSteps
    <2>2. QueueTyped
        BY <1>1, <1>14, QueueUnchanged
    <2>3. PICK step \in {"undoing", "undoing_for_good"} : Went(p, step)
        BY <1>6, <1>14, GoingOn DEF EnqueueSteps
    <2>4. step \in EnqueueSteps /\ step \notin {"checking", "repairing"}
        BY DEF EnqueueSteps
    <2> QED BY <1>5, <2>1, <2>2, <2>3, <2>4, MoveKeepsHandlers DEF Went
<1>15. CASE PersistIndex(p) \/ PersistFails(p)
    BY <1>9, <1>14, <1>15 DEF PersistIndex, PersistFails, At
<1>16. CASE Undo(p)
    <2>1. tasks' = [tasks EXCEPT ![h.task] = NoTask] /\ UNCHANGED accepted
        BY <1>16 DEF Undo
    <2>2. /\ \A n \in TaskNames : tasks'[n] = tasks[n] \/ tasks'[n] = NoTask
          /\ tasks' \in [TaskNames -> [run : RunIds, gen : Generations] \cup {NoTask}]
          /\ accepted' \in [RunIds -> 0..MaxGeneration]
          /\ \A r \in RunIds : accepted'[r] = accepted[r]
        BY <2>1 DEF HandlersInv
    <2>3. QueueTyped
        BY <1>1, <2>2, QueueStaysTyped
    <2> QED BY <1>11, <1>16, <2>3, FinishingKeepsHandlers DEF Undo
<1> QED BY <1>7, <1>8, <1>10, <1>12, <1>13, <1>15, <1>16 DEF Enqueueing

LEMMA AnsweringKeepsHandlers ==
    ASSUME DocumentsInv, HandlersInv, DocumentStep, NEW p \in Procs, NEW queue,
           queue \in [TaskNames -> [run : RunIds, gen : Generations] \cup {NoTask}],
           \A n \in TaskNames : queue[n] = tasks[n] \/ queue[n] = NoTask,
           Answered(p, queue), UNCHANGED <<accepted, emptied>>
    PROVE  HandlersInv'
<1>1. /\ tasks' = queue \/ tasks' = [queue EXCEPT ![procs[p].task] = NoTask]
      /\ Become(p, Idle)
    BY DEF Answered
<1>2. /\ \A n \in TaskNames : tasks'[n] = tasks[n] \/ tasks'[n] = NoTask
      /\ tasks' \in [TaskNames -> [run : RunIds, gen : Generations] \cup {NoTask}]
    BY <1>1
<1>3. /\ accepted' \in [RunIds -> 0..MaxGeneration]
      /\ \A r \in RunIds : accepted'[r] = accepted[r]
      /\ emptied' \in [Procs -> Sessions]
    BY DEF HandlersInv
<1>4. QueueTyped
    BY <1>2, <1>3, QueueStaysTyped
<1> QED BY <1>1, <1>4, FinishingKeepsHandlers

\* A handler that goes on and leaves the tasks alone.
LEMMA GoingOnKeepsHandlers ==
    ASSUME DocumentsInv, HandlersInv, DocumentStep, UNCHANGED <<tasks, accepted>>,
           emptied' \in [Procs -> Sessions], NEW p \in Procs, NEW step, NEW item, NEW then,
           Moved(p, step, procs[p].run, procs[p].gen, procs[p].task, item, then),
           step \in EnqueueSteps \cup RemovalSteps \cup DeliverySteps =>
               procs[p].run \in RunIds /\ procs[p].gen \in Generations,
           step \in PurgeSteps => procs[p].run \in RunIds,
           step \in MakingSteps \cup DeliverySteps => procs[p].task \in TaskNames,
           then = "ack" =>
               procs[p].task \in TaskNames /\ step \in RemovalSteps \cup {"cancelling"},
           step \in {"checking", "repairing", "unindexing", "untasking"} =>
               item \in Items /\ item.gen = procs[p].gen
    PROVE  HandlersInv'
<1>1. SoundAt(step, procs[p].run, procs[p].gen, procs[p].task, item, then, generation')
    BY GenerationsStayDrawn DEF SoundAt
<1>2. QueueTyped
    BY QueueUnchanged
<1> QED BY <1>1, <1>2, MoveKeepsHandlers

LEMMA RemovingKeepsHandlers ==
    ASSUME DocumentsInv, HandlersInv, DocumentStep, NEW p \in Procs, Removing(p),
           UNCHANGED serviceVars
    PROVE  HandlersInv'
<1> DEFINE h == procs[p]
<1>1. emptied' \in [Procs -> Sessions] /\ UNCHANGED emptied
    BY DEF serviceVars, HandlersInv
<1>2. h.step \in RemovalSteps
    BY DEF Removing, ListItems, Unindex, Untask, At, RemovalSteps
<1>3. /\ h.run \in RunIds /\ h.gen \in Generations
      /\ h.then = "ack" => h.task \in TaskNames
      /\ h.step \in {"unindexing", "untasking"} => h.item \in Items /\ h.item.gen = h.gen
    BY <1>2, SoundHandler
<1>4. /\ {"unindexing", "untasking"} \subseteq RemovalSteps \cap AllSteps
      /\ RemovalSteps \cap (PurgeSteps \cup MakingSteps \cup DeliverySteps) = {}
    BY DEF RemovalSteps, AllSteps, PurgeSteps, MakingSteps, DeliverySteps
<1>5. tasks \in [TaskNames -> [run : RunIds, gen : Generations] \cup {NoTask}]
    BY DEF HandlersInv
<1>6. ASSUME Answered(p, tasks), UNCHANGED accepted PROVE HandlersInv'
    BY <1>1, <1>5, <1>6, AnsweringKeepsHandlers
<1>7. CASE ListItems(p)
    <2>1. CASE Answered(p, tasks)
        BY <1>6, <1>7, <2>1 DEF ListItems
    <2>2. CASE /\ Listed(h) /\ UNCHANGED tasks
               /\ Become(p, [h EXCEPT !.step = "unindexing", !.item = index[h.run]])
        <3>1. index[h.run] \in Items /\ index[h.run].gen = h.gen
            BY <1>3, <2>2 DEF Listed, DocumentsInv, DocumentTypes
        <3>2. Moved(p, "unindexing", h.run, h.gen, h.task, index[h.run], h.then)
            BY <1>4, <2>2, <3>1, GoingOn
        <3>3. UNCHANGED <<tasks, accepted>>
            BY <1>7, <2>2 DEF ListItems
        <3>4. /\ "unindexing" \in RemovalSteps
              /\ "unindexing" \notin PurgeSteps
              /\ "unindexing" \notin MakingSteps \cup DeliverySteps
            BY <1>4
        <3> QED BY <1>1, <1>3, <3>1, <3>2, <3>3, <3>4, GoingOnKeepsHandlers
    <2> QED BY <1>7, <2>1, <2>2 DEF ListItems, Matches
<1>8. CASE Unindex(p)
    <2>1. CASE GoTo(p, "untasking") /\ UNCHANGED tasks
        <3>1. Went(p, "untasking")
            BY <1>4, <2>1, GoingOn
        <3>2. UNCHANGED accepted /\ h.step = "unindexing"
            BY <1>8 DEF Unindex, At
        <3> QED BY ZenonT(60), <1>1, <1>3, <1>4, <2>1, <3>1, <3>2, GoingOnKeepsHandlers DEF Went
    <2> QED BY <1>6, <1>8, <2>1 DEF Unindex
<1>9. CASE Untask(p)
    <2> DEFINE queue == [tasks EXCEPT ![h.item.task] = NoTask]
    <2>1. /\ queue \in [TaskNames -> [run : RunIds, gen : Generations] \cup {NoTask}]
          /\ \A n \in TaskNames : queue[n] = tasks[n] \/ queue[n] = NoTask
        BY <1>5
    <2>2. Answered(p, queue) /\ UNCHANGED accepted
        BY <1>9 DEF Untask
    <2> HIDE DEF queue
    <2> QED BY <1>1, <2>1, <2>2, AnsweringKeepsHandlers
<1> QED BY <1>7, <1>8, <1>9 DEF Removing

LEMMA RequestKeepsHandlers ==
    ASSUME DocumentsInv, HandlersInv, DocumentStep, NEW p \in Procs, Request(p)
    PROVE  HandlersInv'
<1>1. ASSUME UNCHANGED serviceVars PROVE emptied' \in [Procs -> Sessions]
    BY <1>1 DEF serviceVars, HandlersInv
<1>2. 1 \in 0..MaxRounds
    BY QueueAssumption
<1>3. ASSUME NEW r \in RunIds, NEW g \in Generations, g <= generation', Enqueue(p, r, g),
             UNCHANGED <<tasks, accepted, serviceVars>>
      PROVE  HandlersInv'
    <2>0. g \in 0..MaxGeneration /\ "reading" \in AllSteps
        BY CloudNumbers DEF Generations, AllSteps, EnqueueSteps
    <2>1. Moved(p, "reading", r, g, NoTask, NoItem, "answer")
        BY <1>2, <1>3, <2>0, Starting DEF Enqueue
    <2>2. QueueTyped
        BY <1>1, <1>3, QueueUnchanged
    <2>3. SoundAt("reading", r, g, NoTask, NoItem, "answer", generation')
        BY <1>3 DEF SoundAt, PurgeSteps, MakingSteps, DeliverySteps
    <2> QED BY <2>1, <2>2, <2>3, MoveKeepsHandlers
<1>4. ASSUME NEW r \in RunIds, SubmitAgain(p, r) PROVE HandlersInv'
    <2>1. r \in keys /\ Enqueue(p, r, runs[r].gen)
          /\ UNCHANGED <<documents, tasks, accepted, serviceVars>>
        BY <1>4 DEF SubmitAgain
    <2>2. Exists(r) /\ runs[r] \in Runs /\ runs[r].gen <= generation
        BY <2>1 DEF DocumentsInv, DocumentTypes, RunsAreSound, Belong, Exists
    <2>3. runs[r].gen \in Generations /\ generation' = generation
        BY <2>1, <2>2, RunFields DEF documents
    <2> QED BY <1>3, <2>1, <2>2, <2>3
<1>5. ASSUME NEW r \in RunIds, NEW s \in Sessions, Submit(p, r, s) PROVE HandlersInv'
    <2>1. /\ CreateRun(r, s) /\ Enqueue(p, r, generation + 1)
          /\ UNCHANGED <<tasks, accepted, serviceVars>>
        BY <1>5 DEF Submit
    <2>2. generation \in 0..MaxGeneration /\ generation < MaxGeneration
          /\ generation' = generation + 1
        BY <2>1 DEF CreateRun, DocumentsInv, DocumentTypes
    <2>3. generation + 1 \in Generations /\ generation + 1 <= generation'
        BY <2>2, CloudNumbers DEF Generations
    <2> QED BY <1>3, <2>1, <2>3
<1>6. ASSUME NEW r \in RunIds, NEW old, Cancel(p, r, old) PROVE HandlersInv'
    <2> DEFINE g == runs[r].gen
    <2>1. UNCHANGED <<tasks, accepted, serviceVars>> /\ Exists(r)
        BY <1>6 DEF Cancel, FlagRun
    <2>2. QueueTyped
        BY <1>1, <2>1, QueueUnchanged
    <2>3. CASE UNCHANGED procs
        BY <2>2, <2>3, SameHandlers
    <2>4. CASE Become(p, [Idle EXCEPT !.step = "listing", !.run = r, !.gen = g])
        <3>1. runs[r] \in Runs /\ g <= generation
            BY <2>1 DEF DocumentsInv, DocumentTypes, RunsAreSound, Exists
        <3>2. g \in Generations
            BY <3>1, RunFields
        <3>3. g \in 0..MaxGeneration /\ g \in Nat
            BY <3>2, CloudNumbers DEF Generations
        <3>4. g <= generation'
            BY <3>1, <3>3, GenerationGrows
        <3>5. Moved(p, "listing", r, g, NoTask, NoItem, "answer")
            BY <2>4, <3>3, Starting DEF AllSteps, RemovalSteps
        <3>6. SoundAt("listing", r, g, NoTask, NoItem, "answer", generation')
            BY <3>2, <3>4 DEF SoundAt, PurgeSteps, MakingSteps, DeliverySteps
        <3> QED BY <2>2, <3>5, <3>6, MoveKeepsHandlers
    <2> QED BY <1>6, <2>3, <2>4 DEF Cancel
<1> QED BY <1>4, <1>5, <1>6, EnqueueingKeepsHandlers, RemovingKeepsHandlers DEF Request

LEMMA DeliveryKeepsHandlers ==
    ASSUME DocumentsInv, HandlersInv, DocumentStep, NEW p \in Procs, Delivery(p)
    PROVE  HandlersInv'
<1> DEFINE h == procs[p]
           run == runs[h.run]
<1>1. UNCHANGED <<accepted, emptied>> /\ emptied' \in [Procs -> Sessions]
    BY DEF Delivery, Deliver, Admit, Inspect, Claim, Heartbeat, WriteCancellation, WriteResult,
        serviceVars, HandlersInv
<1>2. ASSUME NEW n \in TaskNames, Deliver(p, n) PROVE HandlersInv'
    <2> DEFINE r == tasks[n].run
               g == tasks[n].gen
    <2>1. r \in RunIds /\ g \in Generations /\ g <= generation
        BY <1>2 DEF Deliver, HandlersInv
    <2>2. g \in 0..MaxGeneration /\ g \in Nat /\ "admitting" \in AllSteps
        BY <2>1, CloudNumbers DEF Generations, AllSteps, DeliverySteps
    <2>3. g <= generation'
        BY <2>1, <2>2, GenerationGrows
    <2>4. Moved(p, "admitting", r, g, n, NoItem, "answer")
        BY <1>2, <2>1, <2>2, Starting DEF Deliver
    <2>5. QueueTyped
        BY <1>1, <1>2, QueueUnchanged DEF Deliver
    <2>6. SoundAt("admitting", r, g, n, NoItem, "answer", generation')
        BY <2>1, <2>3 DEF SoundAt, PurgeSteps, MakingSteps
    <2> QED BY <2>4, <2>5, <2>6, MoveKeepsHandlers
<1>3. ASSUME h.step \in DeliverySteps
      PROVE  /\ h.run \in RunIds /\ h.gen \in Generations /\ h.task \in TaskNames
             /\ h.then \in {"answer", "ack"} /\ (h.then = "ack" => h.step = "cancelling")
             /\ h \in Handlers
    <2>1. h.step \notin RemovalSteps
        BY <1>3 DEF DeliverySteps, RemovalSteps
    <2>2. h.then \in {"answer", "ack"}
        BY SoundHandler DEF Handlers
    <2> QED BY <1>3, <2>1, <2>2, SoundHandler
<1>4. ASSUME h.step \in DeliverySteps, UNCHANGED tasks,
             NEW step \in DeliverySteps \cup RemovalSteps, NEW then \in {"answer", "ack"},
             then = "ack" => step \in RemovalSteps \cup {"cancelling"},
             step \in {"unindexing", "untasking"} => FALSE,
             Moved(p, step, h.run, h.gen, h.task, h.item, then)
      PROVE  HandlersInv'
    <2>1. step \notin PurgeSteps /\ step \notin {"checking", "repairing", "unindexing", "untasking"}
        BY <1>4 DEF PurgeSteps, DeliverySteps, RemovalSteps
    <2> QED BY <1>1, <1>3, <1>4, <2>1, GoingOnKeepsHandlers
<1>5. ASSUME h.step \in DeliverySteps, UNCHANGED tasks, h.step # "cancelling",
             NEW step \in DeliverySteps, Went(p, step)
      PROVE  HandlersInv'
    <2>1. step \notin RemovalSteps
        BY DEF DeliverySteps, RemovalSteps
    <2>2. h.then = "answer"
        BY <1>3, <1>5
    <2>3. step \notin {"unindexing", "untasking"}
        BY DEF DeliverySteps
    <2> QED BY <1>4, <1>5, <2>2, <2>3 DEF Went
<1>6. ASSUME h.step \in DeliverySteps, UNCHANGED tasks, NEW then \in {"answer", "ack"},
             CleanUp(p, then)
      PROVE  HandlersInv'
    <2>1. Moved(p, "listing", h.run, h.gen, h.task, h.item, then)
        BY <1>6, Delivering DEF AllSteps
    <2>2. "listing" \in RemovalSteps
        BY DEF RemovalSteps
    <2> QED BY <1>4, <1>6, <2>1, <2>2
<1>7. DeliverySteps \subseteq AllSteps /\ "discarding" \in AllSteps /\ "discarding" \in RemovalSteps
    BY DEF AllSteps, RemovalSteps
<1>8. ASSUME UNCHANGED tasks, UNCHANGED procs \/ Become(p, Idle) PROVE HandlersInv'
    <2>1. QueueTyped
        BY <1>1, <1>8, QueueUnchanged
    <2> QED BY <1>8, <2>1, SameHandlers, FinishingKeepsHandlers
<1>9. ASSUME h.step \in DeliverySteps
      PROVE  /\ run # NoRun => run.version \in Versions
             /\ run # NoRun /\ run.lease # NoLease => run.lease.attempt \in Versions
    <2> SUFFICES ASSUME run # NoRun
                 PROVE  /\ run.version \in Versions
                        /\ run.lease # NoLease => run.lease.attempt \in Versions
        OBVIOUS
    <2>1. run \in Runs
        BY <1>3, <1>9 DEF DocumentsInv, DocumentTypes
    <2> HIDE DEF run
    <2>2. run.version \in Versions /\ run.lease \in Leases \cup {NoLease}
        BY <2>1, RunFields
    <2> QED BY <2>2 DEF Leases
<1>10. ASSUME NEW granted \in BOOLEAN, Admit(p, granted) PROVE HandlersInv'
    <2>1. h.step = "admitting" /\ UNCHANGED tasks
          /\ Become(p, [h EXCEPT !.step = "claiming", !.allowed = granted])
        BY <1>10 DEF Admit, At
    <2>2. h.step \in DeliverySteps /\ h.step # "cancelling" /\ "claiming" \in DeliverySteps
        BY <2>1 DEF DeliverySteps
    <2>3. Went(p, "claiming")
        BY <1>7, <2>1, <2>2, Delivering
    <2> QED BY <1>5, <2>1, <2>2, <2>3
<1>11. ASSUME NEW old, Claim(p, old) PROVE HandlersInv'
    <2>1. /\ h.step = "claiming" /\ h.step \in DeliverySteps /\ h.step # "cancelling"
          /\ UNCHANGED tasks
        BY <1>11 DEF Claim, At, Refuse, DeliverySteps
    <2>2. \/ Become(p, Idle)
          \/ /\ run # NoRun
             /\ Become(p, [h EXCEPT !.step = "executing", !.allowed = FALSE,
                                    !.attempt = run.version])
          \/ Become(p, [h EXCEPT !.step = "discarding", !.then = "ack", !.allowed = FALSE])
        BY <1>11, ClaimAnswers DEF Claim, Refuse
    <2>3. CASE /\ run # NoRun
               /\ Become(p, [h EXCEPT !.step = "executing", !.allowed = FALSE,
                                      !.attempt = run.version])
        <3>1. run.version \in Versions /\ "executing" \in DeliverySteps
            BY <1>9, <2>1, <2>3 DEF DeliverySteps
        <3>2. Went(p, "executing")
            BY <1>7, <2>3, <3>1, Delivering
        <3> QED BY <1>5, <2>1, <3>1, <3>2
    <2>4. CASE Become(p, [h EXCEPT !.step = "discarding", !.then = "ack", !.allowed = FALSE])
        <3>1. Moved(p, "discarding", h.run, h.gen, h.task, h.item, "ack")
            BY <1>7, <2>4, Delivering
        <3> QED BY <1>4, <1>7, <2>1, <3>1
    <2> QED BY <1>8, <2>1, <2>2, <2>3, <2>4
<1>12. ASSUME h.step \in DeliverySteps, h.step # "cancelling", UNCHANGED tasks, run # NoRun,
              \/ Become(p, [h EXCEPT !.step = "cancelling", !.version = run.version])
              \/ Become(p, [h EXCEPT !.step = "writing", !.version = run.version])
              \/ /\ run.lease # NoLease
                 /\ \/ Become(p, [h EXCEPT !.step = "cancelling", !.version = run.version,
                                           !.attempt = run.lease.attempt])
                    \/ Become(p, [h EXCEPT !.step = "cancelling", !.version = run.version,
                                           !.attempt = run.lease.attempt, !.then = "ack"])
       PROVE  HandlersInv'
    <2>1. run.version \in Versions /\ (run.lease # NoLease => run.lease.attempt \in Versions)
        BY <1>9, <1>12
    <2>2. {"cancelling", "writing"} \subseteq DeliverySteps
        BY DEF DeliverySteps
    <2> HIDE DEF run
    <2>3. \/ Went(p, "cancelling") \/ Went(p, "writing")
          \/ Moved(p, "cancelling", h.run, h.gen, h.task, h.item, "ack")
        BY <1>7, <1>12, <2>1, <2>2, Delivering
    <2> QED BY <1>4, <1>5, <1>12, <2>2, <2>3
<1>13. ASSUME NEW old, Heartbeat(p, old) PROVE HandlersInv'
    <2>1. /\ h.step = "executing" /\ h.step \in DeliverySteps /\ h.step # "cancelling"
          /\ UNCHANGED tasks
        BY <1>13 DEF Heartbeat, At, Refuse, DeliverySteps
    <2>2. \/ UNCHANGED procs \/ Become(p, Idle) \/ CleanUp(p, "ack")
          \/ /\ RenewAnswer(run, h.attempt, old) = "cancellation_requested"
             /\ Become(p, [h EXCEPT !.step = "cancelling", !.version = run.version,
                                    !.attempt = run.lease.attempt, !.then = "ack"])
        BY <1>13 DEF Heartbeat, Refuse
    <2>3. ASSUME RenewAnswer(run, h.attempt, old) = "cancellation_requested"
          PROVE  run # NoRun /\ run.lease # NoLease
        <3>1. run # NoRun /\ ~Over(run) /\ run.flagged
            BY <2>3, OwnerAnswers
        <3> QED BY <1>3, <2>1, <3>1 DEF DocumentsInv, RunsAreSound, Exists, Told
    <2> QED BY <1>6, <1>8, <1>12, <2>1, <2>2, <2>3
<1>14. CASE Inspect(p)
    <2>1. /\ h.step = "executing" /\ h.step \in DeliverySteps /\ h.step # "cancelling"
          /\ UNCHANGED tasks
        BY <1>14 DEF Inspect, At, Refuse, DeliverySteps
    <2>2. \/ Become(p, Idle) \/ CleanUp(p, "answer")
          \/ /\ run # NoRun
             /\ \/ /\ run.lease # NoLease
                   /\ Become(p, [h EXCEPT !.step = "cancelling", !.version = run.version,
                                          !.attempt = run.lease.attempt])
                \/ Become(p, [h EXCEPT !.step = "writing", !.version = run.version])
        BY <1>14 DEF Inspect, Refuse
    <2> QED BY <1>6, <1>8, <1>12, <2>1, <2>2
<1>15. ASSUME NEW next, NEW payload, NEW old, WriteResult(p, next, payload, old)
       PROVE  HandlersInv'
    <2>1. /\ h.step = "writing" /\ h.step \in DeliverySteps /\ h.step # "cancelling"
          /\ UNCHANGED tasks
        BY <1>15 DEF WriteResult, At, Refuse, DeliverySteps
    <2>2. \/ Become(p, Idle) \/ CleanUp(p, "answer") \/ CleanUp(p, "ack")
          \/ /\ run # NoRun
             /\ Become(p, [h EXCEPT !.step = "cancelling", !.version = run.version])
        BY <1>15 DEF WriteResult, Refuse
    <2> QED BY <1>6, <1>8, <1>12, <2>1, <2>2
<1>16. ASSUME NEW old, WriteCancellation(p, old) PROVE HandlersInv'
    <2>1. h.step = "cancelling" /\ h.step \in DeliverySteps
        BY <1>16 DEF WriteCancellation, At, DeliverySteps
    <2>2. CASE CleanUp(p, h.then) /\ UNCHANGED tasks
        BY <1>3, <1>6, <2>1, <2>2
    <2>3. CASE Answered(p, tasks)
        <3>1. tasks \in [TaskNames -> [run : RunIds, gen : Generations] \cup {NoTask}]
            BY DEF HandlersInv
        <3> QED BY <1>1, <2>3, <3>1, AnsweringKeepsHandlers
    <2> QED BY <1>16, <2>2, <2>3 DEF WriteCancellation
<1> QED BY <1>2, <1>10, <1>11, <1>13, <1>14, <1>15, <1>16 DEF Delivery

LEMMA DeletionKeepsHandlers ==
    ASSUME DocumentsInv, HandlersInv, DocumentStep, NEW p \in Procs, Deletion(p)
    PROVE  HandlersInv'
<1> DEFINE h == procs[p]
<1>1. UNCHANGED tasks /\ emptied' \in [Procs -> Sessions]
    BY DEF Deletion, Delete, NextChild, Purge, Remove, Finish, serviceVars, HandlersInv
<1>2. PurgeSteps \subseteq AllSteps /\ DeletionSteps \subseteq AllSteps
    BY DEF AllSteps, PurgeSteps, DeletionSteps
<1>3. h.then = "ack" => h.step \in RemovalSteps \cup {"cancelling"}
    BY SoundHandler
<1>4. ASSUME QueueTyped, h.then # "ack", NEW step \in DeletionSteps, GoTo(p, step),
             step \in PurgeSteps => h.run \in RunIds
      PROVE  HandlersInv'
    <2>1. Moved(p, step, h.run, h.gen, h.task, h.item, h.then)
        BY <1>2, <1>4, GoingOn DEF Went
    <2>2. SoundAt(step, h.run, h.gen, h.task, h.item, h.then, generation')
        BY <1>4, GenerationsStayDrawn DEF SoundAt, DeletionSteps, EnqueueSteps, RemovalSteps,
            DeliverySteps, MakingSteps
    <2> QED BY <1>4, <2>1, <2>2, MoveKeepsHandlers
<1>5. ASSUME UNCHANGED accepted PROVE QueueTyped
    BY <1>1, <1>5, QueueUnchanged
<1>6. /\ h.step \in DeletionSteps \cup {"idle"} => h.then # "ack"
      /\ h.step \in PurgeSteps => h.run \in RunIds
    BY <1>3, SoundHandler DEF DeletionSteps, RemovalSteps
<1>7. ASSUME NEW x \in Sessions, Delete(p, x) PROVE HandlersInv'
    <2>1. QueueTyped /\ h.then # "ack" /\ GoTo(p, "emptying")
        BY <1>5, <1>6, <1>7 DEF Delete, At
    <2>2. "emptying" \in DeletionSteps /\ "emptying" \notin PurgeSteps
        BY DEF DeletionSteps, PurgeSteps
    <2> QED BY <1>4, <2>1, <2>2
<1>8. CASE NextChild(p)
    <2>1. QueueTyped /\ h.then # "ack"
        BY <1>5, <1>6, <1>8 DEF NextChild, At, DeletionSteps
    <2>2. ASSUME NEW r \in RunIds, Become(p, [Idle EXCEPT !.step = "purging_events", !.run = r])
          PROVE  HandlersInv'
        <3>1. "purging_events" \in AllSteps
            BY DEF AllSteps, DeletionSteps
        <3>2. Moved(p, "purging_events", r, 0, NoTask, NoItem, "answer")
            BY <2>2, <3>1, Starting
        <3>3. SoundAt("purging_events", r, 0, NoTask, NoItem, "answer", generation')
            BY GenerationGrows DEF SoundAt, EnqueueSteps, RemovalSteps, DeliverySteps, MakingSteps
        <3> QED BY <2>1, <3>2, <3>3, MoveKeepsHandlers
    <2>3. "purging_reflections" \in DeletionSteps /\ "purging_reflections" \notin PurgeSteps
        BY DEF DeletionSteps, PurgeSteps
    <2>4. \/ \E r \in RunIds : Become(p, [Idle EXCEPT !.step = "purging_events", !.run = r])
          \/ GoTo(p, "purging_reflections")
        BY <1>8 DEF NextChild, RunsOf
    <2> QED BY <1>4, <2>1, <2>2, <2>3, <2>4
<1>9. CASE Purge(p)
    <2>1. h.step \in PurgeSteps /\ h.step \in DeletionSteps /\ UNCHANGED accepted
        BY <1>9 DEF Purge, At, PurgeSteps, DeletionSteps
    <2>2. \E step \in PurgeSteps : GoTo(p, step)
        BY <1>9 DEF Purge, PurgeSteps
    <2>3. PurgeSteps \subseteq DeletionSteps
        BY DEF PurgeSteps, DeletionSteps
    <2> QED BY <1>4, <1>5, <1>6, <2>1, <2>2, <2>3
<1>10. CASE Remove(p)
    <2>1. h.step \in PurgeSteps /\ h.step \in DeletionSteps
        BY <1>10 DEF Remove, At, PurgeSteps, DeletionSteps
    <2>2. GoTo(p, "emptying") \/ GoTo(p, "purging_events")
        BY <1>10 DEF Remove
    <2>3. {"emptying", "purging_events"} \subseteq DeletionSteps
        BY DEF DeletionSteps
    <2>4. \/ UNCHANGED accepted \/ accepted' = [accepted EXCEPT ![h.run] = 0]
        BY <1>10 DEF Remove
    <2>5. /\ accepted' \in [RunIds -> 0..MaxGeneration]
          /\ \A r \in RunIds : accepted'[r] = accepted[r] \/ accepted'[r] <= generation
        <3>1. 0 \in 0..MaxGeneration /\ 0 <= generation
            BY CloudNumbers, GenerationGrows
        <3>2. accepted \in [RunIds -> 0..MaxGeneration]
            BY DEF HandlersInv
        <3> QED BY <2>4, <3>1, <3>2
    <2>6. /\ \A n \in TaskNames : tasks'[n] = tasks[n]
          /\ tasks' \in [TaskNames -> [run : RunIds, gen : Generations] \cup {NoTask}]
        BY <1>1 DEF HandlersInv
    <2>7. QueueTyped
        BY <1>1, <2>5, <2>6, QueueStaysTyped
    <2> QED BY <1>4, <1>6, <2>1, <2>2, <2>3, <2>7
<1>11. CASE Finish(p)
    <2>1. h.then # "ack" /\ QueueTyped
        BY <1>5, <1>6, <1>11 DEF Finish, At, DeletionSteps
    <2>2. \/ GoTo(p, "removing_session") \/ GoTo(p, "emptying")
          \/ UNCHANGED procs \/ Become(p, Idle)
        BY <1>11 DEF Finish
    <2>3. {"emptying", "removing_session"} \subseteq DeletionSteps \ PurgeSteps
        BY DEF DeletionSteps, PurgeSteps
    <2> QED BY <1>4, <2>1, <2>2, <2>3, SameHandlers, FinishingKeepsHandlers
<1> QED BY <1>7, <1>8, <1>9, <1>10, <1>11 DEF Deletion

LEMMA NextKeepsHandlers ==
    ASSUME DocumentsInv, HandlersInv, Next
    PROVE  HandlersInv'
<1>1. DocumentStep
    BY NextIsAStep
<1>2. ASSUME UNCHANGED <<tasks, accepted, emptied>> PROVE QueueTyped
    <2>1. emptied' \in [Procs -> Sessions]
        BY <1>2 DEF HandlersInv
    <2> QED BY <1>1, <1>2, <2>1, QueueUnchanged
<1>3. ASSUME NEW p \in Procs, Crash(p) PROVE HandlersInv'
    BY <1>1, <1>2, <1>3, FinishingKeepsHandlers DEF Crash, serviceVars
<1>4. ASSUME NEW r \in RunIds, Expire(r) PROVE HandlersInv'
    BY <1>1, <1>2, <1>4, SameHandlers DEF Expire, queueVars, serviceVars
<1>5. ASSUME NEW n \in TaskNames, GiveUp(n) PROVE HandlersInv'
    <2> DEFINE r == tasks[n].run
    <2>1. /\ tasks' = [tasks EXCEPT ![n] = NoTask]
          /\ UNCHANGED <<procs, emptied>>
        BY <1>5 DEF GiveUp, serviceVars
    <2>2. accepted' = accepted \/ accepted' = [accepted EXCEPT ![r] = 0]
        <3>1. accepted \in [RunIds -> 0..MaxGeneration]
            BY DEF HandlersInv
        <3>2. accepted' = [accepted EXCEPT
                  ![r] = IF index[r] = NoItem \/ index[r].task = n THEN 0 ELSE @]
            BY <1>5 DEF GiveUp
        <3> QED BY <3>1, <3>2
    <2>3. /\ accepted' \in [RunIds -> 0..MaxGeneration]
          /\ \A q \in RunIds : accepted'[q] = accepted[q] \/ accepted'[q] <= generation
        <3>1. 0 \in 0..MaxGeneration /\ 0 <= generation
            BY <1>1, CloudNumbers, GenerationGrows
        <3>2. accepted \in [RunIds -> 0..MaxGeneration]
            BY DEF HandlersInv
        <3> QED BY <2>2, <3>1, <3>2
    <2>4. /\ \A m \in TaskNames : tasks'[m] = tasks[m] \/ tasks'[m] = NoTask
          /\ tasks' \in [TaskNames -> [run : RunIds, gen : Generations] \cup {NoTask}]
          /\ emptied' \in [Procs -> Sessions]
        BY <2>1 DEF HandlersInv
    <2>5. QueueTyped
        BY <1>1, <2>3, <2>4, QueueStaysTyped
    <2> QED BY <1>1, <2>1, <2>5, SameHandlers
<1>6. ASSUME NEW s \in Sessions, DeleteMemory(s) \/ Open(s) PROVE HandlersInv'
    BY <1>1, <1>2, <1>6, SameHandlers DEF DeleteMemory, Open, queueVars, serviceVars
<1> QED BY <1>1, <1>3, <1>4, <1>5, <1>6, RequestKeepsHandlers, DeliveryKeepsHandlers,
        DeletionKeepsHandlers DEF Next

-----------------------------------------------------------------------------
\* What holds in every state.

CloudInv == DocumentsInv /\ HandlersInv

LEMMA CloudStarts == Init => CloudInv
<1> SUFFICES ASSUME Init PROVE CloudInv
    OBVIOUS
<1>1. /\ runs = [r \in RunIds |-> NoRun] /\ events = [r \in RunIds |-> {}]
      /\ keys = {} /\ reflections = {} /\ index = [r \in RunIds |-> NoItem]
      /\ sessions = Sessions /\ generation = 0
    BY DEF Init, StoreInit
<1>2. /\ tasks = [n \in TaskNames |-> NoTask] /\ procs = [p \in Procs |-> Idle]
      /\ accepted = [r \in RunIds |-> 0] /\ purged = {} /\ emptied \in [Procs -> Sessions]
    BY DEF Init, QueueInit
<1>3. DocumentTypes
    <2>1. \A r \in RunIds : IsFiniteSet(events[r])
        BY <1>1, FS_EmptySet
    <2> QED BY <1>1, <2>1, CloudNumbers DEF DocumentTypes
<1>4. RunsAreSound /\ Belong /\ LogsAreWhole
    BY <1>1 DEF RunsAreSound, Belong, LogsAreWhole, Exists
<1>5. \A p \in Procs : Sound(p)
    <2>1. \A p \in Procs : procs[p] = Idle
        BY <1>2
    <2>2. SoundAt("idle", NoRun, 0, NoTask, NoItem, "answer", 0)
        BY DEF SoundAt, EnqueueSteps, RemovalSteps, DeliverySteps, PurgeSteps, MakingSteps
    <2> QED BY <1>1, <2>1, <2>2, IdleIsAHandler DEF Sound
<1>6. HandlersInv
    BY <1>1, <1>2, <1>5, IdleIsAHandler, CloudNumbers DEF HandlersInv
<1> QED BY <1>3, <1>4, <1>6 DEF CloudInv, DocumentsInv

LEMMA CloudStays == CloudInv /\ [Next]_vars => CloudInv'
<1> SUFFICES ASSUME CloudInv, [Next]_vars PROVE CloudInv'
    OBVIOUS
<1>1. DocumentsInv /\ HandlersInv
    BY DEF CloudInv
<1>2. CASE Next
    BY <1>1, <1>2, NextIsAStep, DocumentsKept, NextKeepsHandlers DEF CloudInv
<1>3. CASE UNCHANGED vars
    <2>1. UNCHANGED <<tasks, procs, accepted, purged, emptied, generation>> /\ UNCHANGED documents
        BY <1>3 DEF vars, queueVars, documents
    <2>2. DocumentsInv'
        BY <1>1, <2>1, SameDocuments
    <2>3. HandlersInv'
        BY <1>1, <2>1 DEF HandlersInv, Sound, SoundAt
    <2> QED BY <2>2, <2>3 DEF CloudInv
<1> QED BY <1>2, <1>3

THEOREM CloudInvariance == Spec => []CloudInv
BY CloudStarts, CloudStays, PTL DEF Spec

\* Every variable has its type, however the transactions of the handlers interleave.
THEOREM CloudTypes == Spec => []CloudTypeOK
<1>1. CloudInv => CloudTypeOK
    BY DEF CloudInv, DocumentsInv, DocumentTypes, HandlersInv, CloudTypeOK
<1> QED BY <1>1, CloudInvariance, PTL

\* Deletion in pieces leaves nothing of a run without the run, and nothing of a session
\* without the session, whatever is written meanwhile (delete_run, delete_session).
THEOREM NothingStaysBehind == Spec => []NothingIsLeftBehind
<1>1. CloudInv => NothingIsLeftBehind
    <2> SUFFICES ASSUME DocumentTypes, Belong PROVE NothingIsLeftBehind
        BY DEF CloudInv, DocumentsInv
    <2>1. \A x \in reflections : Exists(x[2]) /\ x[1] \in sessions
        <3> SUFFICES ASSUME NEW x \in reflections PROVE Exists(x[2]) /\ x[1] \in sessions
            OBVIOUS
        <3>1. x[2] \in RunIds /\ Exists(x[2]) /\ x[1] = runs[x[2]].session
            BY DEF DocumentTypes, Belong
        <3> QED BY <3>1 DEF Belong
    <2> QED BY <2>1 DEF Belong, NothingIsLeftBehind
<1> QED BY <1>1, CloudInvariance, PTL

\* The events of a run are numbered from one without gaps and the last ends it, unless
\* its deletion has begun (_next_event_sequence, _append_event).
THEOREM LogsStayWhole == Spec => []LogIsWhole
<1>1. CloudInv => LogIsWhole
    <2> SUFFICES ASSUME LogsAreWhole, NEW r \in RunIds, Exists(r), r \notin purged
                 PROVE  LET last == Cardinality(events[r])
                        IN /\ {e.sequence : e \in events[r]} = 1..last
                           /\ \A e \in events[r] :
                                  e.kind = "end" <=> e.sequence = last /\ Over(runs[r])
        BY DEF CloudInv, DocumentsInv, LogIsWhole
    <2>1. PICK n \in Nat : Whole(events[r], n, Over(runs[r]))
        BY DEF LogsAreWhole
    <2>2. Cardinality(events[r]) = n /\ {e.sequence : e \in events[r]} = 1..n
        BY <2>1, WholeLogCounts
    <2> QED BY <2>1, <2>2 DEF Whole
<1> QED BY <1>1, CloudInvariance, PTL

-----------------------------------------------------------------------------
\* Refinement: what a transaction shows of the runs is a step of RunPromise or none.

ResultOf(run) == IF run # NoRun THEN run.payload ELSE NoPayload

LEMMA PromiseStarts == Init => Promise!Init
BY DEF Init, StoreInit, Promise!Init, PhaseOf, Exists, NoPayload, Promise!NoPayload

\* A write accepts a cancellation, ends the run, or shows nothing.
LEMMA WritePromises ==
    ASSUME NEW a \in Runs, NEW b \in Runs, a.payload = NoPayload, RunStep(a, b)
    PROVE  /\ ResultOf(a) = NoPayload
           /\ PhaseOf(a) \in {"pending", "cancelling"}
           /\ \/ PhaseOf(b) = PhaseOf(a) /\ ResultOf(b) = NoPayload
              \/ /\ PhaseOf(a) = "pending" /\ PhaseOf(b) = "cancelling"
                 /\ ResultOf(b) = NoPayload
              \/ /\ PhaseOf(b) \in TerminalStates
                 /\ PhaseOf(a) = "pending" \/ PhaseOf(b) = "cancelled"
                 /\ ResultOf(b) \in Payloads(PhaseOf(b))
<1>1. a # NoRun /\ b # NoRun /\ ~Over(a)
    BY RunFields DEF RunStep
<1>2. CASE Over(b)
    BY <1>1, <1>2 DEF PhaseOf, ResultOf, RunStep, Over
<1>3. CASE ~Over(b)
    BY <1>1, <1>3 DEF PhaseOf, ResultOf, RunStep
<1> QED BY <1>2, <1>3

LEMMA WriteKeepsPromise ==
    ASSUME DocumentsInv, NEW r \in RunIds, NEW b \in Runs, Exists(r), RunStep(runs[r], b),
           runs' = [runs EXCEPT ![r] = b]
    PROVE  Promise!Next \/ UNCHANGED Promise!promiseVars
<1> DEFINE phase == [q \in RunIds |-> PhaseOf(runs[q])]
           result == [q \in RunIds |-> IF Exists(q) THEN runs[q].payload ELSE NoPayload]
<1>1. runs[r] \in Runs /\ runs[r].payload = NoPayload
    BY OpenRun DEF RunStep
<1>2. runs'[r] = b /\ b # NoRun /\ \A q \in RunIds : q # r => runs'[q] = runs[q]
    BY OneRunWritten DEF DocumentsInv
<1>3. /\ phase' = [phase EXCEPT ![r] = PhaseOf(b)]
      /\ result' = [result EXCEPT ![r] = ResultOf(b)]
    <2>1. \A q \in RunIds : PhaseOf(runs'[q]) = IF q = r THEN PhaseOf(b) ELSE PhaseOf(runs[q])
        BY <1>2
    <2>2. \A q \in RunIds :
              (IF runs'[q] # NoRun THEN runs'[q].payload ELSE NoPayload)
                  = IF q = r THEN ResultOf(b)
                    ELSE IF runs[q] # NoRun THEN runs[q].payload ELSE NoPayload
        BY <1>2 DEF ResultOf
    <2>3. phase' = [q \in RunIds |-> IF q = r THEN PhaseOf(b) ELSE PhaseOf(runs[q])]
        BY <2>1, Zenon
    <2>4. result' = [q \in RunIds |-> IF q = r THEN ResultOf(b)
                         ELSE IF runs[q] # NoRun THEN runs[q].payload ELSE NoPayload]
        BY <2>2, Zenon DEF Exists
    <2> QED BY <2>3, <2>4 DEF Exists
<1>4. phase[r] = PhaseOf(runs[r]) /\ result[r] = ResultOf(runs[r])
    BY DEF Exists, ResultOf
<1>5. /\ ResultOf(b) = NoPayload => result' = result
      /\ PhaseOf(b) = PhaseOf(runs[r]) => phase' = phase
    <2>1. NoPayload = result[r] /\ PhaseOf(runs[r]) = phase[r]
        BY <1>1, <1>4, WritePromises
    <2>2. /\ [phase EXCEPT ![r] = phase[r]] = phase
          /\ [result EXCEPT ![r] = result[r]] = result
        OBVIOUS
    <2> HIDE DEF phase, result
    <2> QED BY <1>3, <2>1, <2>2
<1>6. CASE PhaseOf(b) = PhaseOf(runs[r]) /\ ResultOf(b) = NoPayload
    BY <1>5, <1>6 DEF Promise!promiseVars
<1>7. CASE /\ PhaseOf(runs[r]) = "pending" /\ PhaseOf(b) = "cancelling"
           /\ ResultOf(b) = NoPayload
    <2>1. Promise!AskToCancel(r)
        BY <1>3, <1>4, <1>5, <1>7 DEF Promise!AskToCancel
    <2> QED BY <2>1 DEF Promise!Next
<1>8. CASE /\ PhaseOf(b) \in TerminalStates
           /\ PhaseOf(runs[r]) = "pending" \/ PhaseOf(b) = "cancelled"
           /\ ResultOf(b) \in Payloads(PhaseOf(b))
    <2>1. Promise!End(r, PhaseOf(b), ResultOf(b))
        BY <1>1, <1>3, <1>4, <1>8, WritePromises DEF Promise!End
    <2>2. /\ PhaseOf(b) \in Promise!TerminalStates
          /\ ResultOf(b) \in Promise!Payloads(PhaseOf(b))
        BY <1>8 DEF Promise!TerminalStates, TerminalStates, Promise!Payloads, Payloads,
            Promise!NoPayload, NoPayload
    <2> QED BY <2>1, <2>2 DEF Promise!Next
<1> QED BY <1>1, <1>6, <1>7, <1>8, WritePromises

LEMMA CreationPromises ==
    ASSUME DocumentsInv, NEW r \in RunIds, NEW s \in Sessions, CreateRun(r, s)
    PROVE  Promise!Next
<1> DEFINE phase == [q \in RunIds |-> PhaseOf(runs[q])]
           result == [q \in RunIds |-> IF Exists(q) THEN runs[q].payload ELSE NoPayload]
           run == [gen |-> generation + 1, session |-> s, state |-> "queued", version |-> 0,
                   flagged |-> FALSE, lease |-> NoLease, payload |-> NoPayload]
<1>1. runs[r] = NoRun /\ runs' = [runs EXCEPT ![r] = run] /\ generation < MaxGeneration
    BY DEF CreateRun, Exists
<1>2. run \in Runs
    <2>1. generation \in 0..MaxGeneration
        BY DEF DocumentsInv, DocumentTypes
    <2> QED BY <1>1, <2>1, CloudNumbers
            DEF Runs, Generations, States, OwnedStates, TerminalStates, Versions
<1>3. PhaseOf(run) = "pending" /\ run.payload = NoPayload
    <2>1. run # NoRun
        BY <1>2, RunFields
    <2> QED BY <2>1 DEF PhaseOf, Over, TerminalStates
<1> HIDE DEF run
<1>4. runs'[r] = run /\ run # NoRun /\ \A q \in RunIds : q # r => runs'[q] = runs[q]
    BY <1>1, <1>2, OneRunWritten DEF DocumentsInv
<1>5. phase' = [phase EXCEPT ![r] = "pending"] /\ phase[r] = "absent"
    <2>1. phase' = [phase EXCEPT ![r] = PhaseOf(run)]
        BY <1>4
    <2>2. phase[r] = "absent"
        BY <1>1 DEF PhaseOf
    <2> HIDE DEF phase
    <2> QED BY <1>3, <2>1, <2>2
<1>6. result' = result
    BY <1>1, <1>3, <1>4 DEF Exists
<1>7. Promise!Accept(r)
    BY <1>5, <1>6 DEF Promise!Accept
<1> QED BY <1>7 DEF Promise!Next

LEMMA RemovalPromises ==
    ASSUME DocumentsInv, NEW r \in RunIds, RemoveRun(r)
    PROVE  Promise!Next
<1>1. runs'[r] = NoRun /\ \A q \in RunIds : q # r => runs'[q] = runs[q]
    BY DEF RemoveRun, DocumentsInv, DocumentTypes
<1>2. Promise!Forget({r})
    BY <1>1 DEF Promise!Forget, PhaseOf, Exists, NoPayload, Promise!NoPayload
<1> QED BY <1>2 DEF Promise!Next

LEMMA StepPromises ==
    ASSUME DocumentsInv, DocumentStep
    PROVE  Promise!Next \/ UNCHANGED Promise!promiseVars
<1>1. CASE UNCHANGED runs
    BY <1>1 DEF Promise!promiseVars, Exists
<1>2. ASSUME NEW r \in RunIds, NEW b \in Runs, Logged(r, b) \/ Silent(r, b)
      PROVE  Promise!Next \/ UNCHANGED Promise!promiseVars
    BY <1>2, WriteKeepsPromise DEF Logged, Silent
<1>3. \/ UNCHANGED runs
      \/ \E r \in RunIds, s \in Sessions : CreateRun(r, s)
      \/ \E r \in RunIds, b \in Runs : Logged(r, b) \/ Silent(r, b)
      \/ \E r \in RunIds : RemoveRun(r)
    BY DEF DocumentStep, documents, Indexed, PurgeEvents, Forgotten, RemoveSession, PutSession
<1> QED BY <1>1, <1>2, <1>3, CreationPromises, RemovalPromises

\* The cloud adapters keep the promise of RunPromise: a run is pending until it ends once,
\* in a state and with a result that fit, and as cancelled after its cancellation was
\* accepted; leases, retries and duplicate deliveries are not seen (claim, renew_lease,
\* compare_and_set, request_cancellation, delete_run).
THEOREM CloudKeepsThePromise == Spec => CloudPromiseKept
<1>1. CloudInv /\ [Next]_vars => [Promise!Next]_(Promise!promiseVars)
    <2> SUFFICES ASSUME CloudInv, [Next]_vars
                 PROVE  Promise!Next \/ UNCHANGED Promise!promiseVars
        OBVIOUS
    <2>1. CASE UNCHANGED vars
        BY <2>1 DEF vars, documents, Promise!promiseVars, Exists
    <2>2. CASE Next
        BY <2>2, NextIsAStep, StepPromises DEF CloudInv
    <2> QED BY <2>1, <2>2
<1> QED BY <1>1, PromiseStarts, CloudInvariance, PTL DEF Spec, Promise!Spec, CloudPromiseKept

-----------------------------------------------------------------------------
\* The queue: index documents, cloud tasks and handlers, while no call both takes
\* effect and is reported as failed.

Wanted(r, g) == Exists(r) /\ runs[r].gen = g /\ ~Over(runs[r]) /\ ~runs[r].flagged

CarriesAtMost(n, r, g) == tasks[n] = NoTask \/ (tasks[n].run = r /\ tasks[n].gen = g)

\* A handler that made a task which is not the item's yet, or will not be.
Making(p) == procs[p].step \in MakingSteps

Settled(n) == \A p \in Procs : Making(p) => procs[p].task # n

\* The task of an index document was made for its item, and nobody will undo it.
IndexIsKept ==
    \A r \in RunIds : index[r] # NoItem =>
        CarriesAtMost(index[r].task, r, index[r].gen) /\ Settled(index[r].task)

MakersDiffer ==
    \A p, q \in Procs : Making(p) /\ Making(q) /\ procs[p].task = procs[q].task => p = q

\* What a handler knows of the task and the document it remembers: a removal is of a run
\* that is not wanted; the task that will be indexed is there; the one that is repaired is
\* not; and an index document that came after the reading has its task.
Knows(h) ==
    LET stored == index[h.run]
    IN /\ h.task # NoTask => CarriesAtMost(h.task, h.run, h.gen)
       /\ h.item # NoItem =>
              CarriesAtMost(h.item.task, h.run, h.item.gen) /\ Settled(h.item.task)
       /\ h.step \in RemovalSteps \cup {"cancelling"} => ~Wanted(h.run, h.gen)
       /\ h.step = "indexing" /\ Wanted(h.run, h.gen) => Carries(h.task, h.run, h.gen)
       /\ h.step = "repairing" => tasks[h.item.task] = NoTask
       /\ /\ h.step \in {"parent", "checking"}
          /\ stored # NoItem /\ stored # h.item /\ Wanted(h.run, stored.gen)
          => Carries(stored.task, h.run, stored.gen)

\* A run whose submission was answered has a task, which is its document's if it has one.
Dispatched(r, g) ==
    \E n \in TaskNames :
        Carries(n, r, g) /\ Settled(n) /\ (index[r] # NoItem => index[r].task = n)

Fulfilled(r) == Wanted(r, accepted[r]) => Dispatched(r, accepted[r])

QueueInv ==
    /\ IndexIsKept /\ MakersDiffer
    /\ \A p \in Procs : Knows(procs[p])
    /\ \A r \in RunIds : Fulfilled(r)

-----------------------------------------------------------------------------
\* What a step may do to the queue.

\* The queue gives a task up: no handler came with it and no request for its run is under
\* way; if it was the item's, the submission does not count any more.
Abandoned(n) ==
    /\ \A q \in Procs : /\ procs[q].task # n
                        /\ procs[q].run = tasks[n].run => procs[q].step \notin EnqueueSteps
    /\ \/ accepted'[tasks[n].run] = 0
       \/ index[tasks[n].run] # NoItem /\ index[tasks[n].run].task # n

\* A task may go if its run is not wanted, if it is undone by its maker, or given up.
Goes(n, movers) ==
    /\ tasks[n] # NoTask /\ tasks'[n] = NoTask
    /\ \/ ~Wanted(tasks[n].run, tasks[n].gen)
       \/ \E q \in movers : Making(q) /\ procs[q].task = n
       \/ Abandoned(n)

\* A handler writes the document of the task it made.
Indexes(q, r) ==
    /\ procs[q].step = "indexing" /\ procs[q].run = r
    /\ index'[r] = [gen |-> procs[q].gen, task |-> procs[q].task]
    /\ procs'[q].step \notin MakingSteps
    /\ \A n \in TaskNames : tasks'[n] = tasks[n]

QueueStep(movers) ==
    /\ \A q \in Procs : q \notin movers => procs'[q] = procs[q]
    /\ \A q \in movers : procs'[q].step \in MakingSteps =>
           \/ Making(q) /\ procs'[q].task = procs[q].task
           \/ \E n \in TaskNames : FreshName(n) /\ procs'[q].task = n
    /\ \A n \in TaskNames : tasks'[n] = tasks[n] \/ FreshName(n) \/ Goes(n, movers)
    /\ \A r \in RunIds : \/ index'[r] \in {index[r], NoItem}
                         \/ \E q \in movers : Indexes(q, r)
    /\ \A r \in RunIds : \/ Fulfilled(r)'
                         \/ accepted'[r] = 0
                         \/ accepted'[r] = accepted[r] /\ index'[r] \in {index[r], NoItem}

\* No transaction makes a run wanted that was created before.
LEMMA NothingIsWantedAgain ==
    ASSUME DocumentsInv, DocumentStep, NEW r \in RunIds, NEW g \in Nat, g <= generation,
           Wanted(r, g)'
    PROVE  Wanted(r, g)
<1>1. runs'[r] # NoRun /\ runs'[r].gen = g /\ ~Over(runs'[r]) /\ ~runs'[r].flagged
    BY DEF Wanted, Exists, Over
<1>2. CASE runs'[r] = runs[r]
    BY <1>1, <1>2 DEF Wanted, Exists, Over
<1>3. ASSUME NEW q \in RunIds, NEW b \in Runs, Logged(q, b) \/ Silent(q, b) PROVE Wanted(r, g)
    <2>1. Exists(q) /\ RunStep(runs[q], b) /\ runs' = [runs EXCEPT ![q] = b]
        BY <1>3 DEF Logged, Silent
    <2>2. runs'[q] = b /\ (r # q => runs'[r] = runs[r])
        BY <2>1, OneRunWritten DEF DocumentsInv
    <2>3. CASE r = q
        BY <1>1, <2>1, <2>2, <2>3 DEF Wanted, RunStep
    <2> QED BY <1>2, <2>2, <2>3
<1>4. ASSUME NEW q \in RunIds, NEW s \in Sessions, CreateRun(q, s) PROVE Wanted(r, g)
    <2>1. generation \in Nat
        BY CloudNumbers DEF DocumentsInv, DocumentTypes
    <2>2. runs'[q].gen = generation + 1 /\ (r # q => runs'[r] = runs[r])
        BY <1>4 DEF CreateRun, DocumentsInv, DocumentTypes
    <2> QED BY <1>1, <1>2, <2>1, <2>2
<1>5. ASSUME NEW q \in RunIds, RemoveRun(q) PROVE Wanted(r, g)
    <2>1. runs'[q] = NoRun /\ (r # q => runs'[r] = runs[r])
        BY <1>5 DEF RemoveRun, DocumentsInv, DocumentTypes
    <2> QED BY <1>1, <1>2, <2>1
<1>6. \/ UNCHANGED runs
      \/ \E q \in RunIds, s \in Sessions : CreateRun(q, s)
      \/ \E q \in RunIds, b \in Runs : Logged(q, b) \/ Silent(q, b)
      \/ \E q \in RunIds : RemoveRun(q)
    BY DEF DocumentStep, documents, Indexed, PurgeEvents, Forgotten, RemoveSession, PutSession
<1> QED BY <1>2, <1>3, <1>4, <1>5, <1>6

LEMMA NameStays ==
    ASSUME NEW movers, QueueStep(movers), NEW n \in TaskNames, ~FreshName(n),
           NEW r, NEW g, CarriesAtMost(n, r, g)
    PROVE  CarriesAtMost(n, r, g)'
BY DEF QueueStep, Goes, CarriesAtMost

LEMMA StaysSettled ==
    ASSUME NEW movers, movers \subseteq Procs, QueueStep(movers), NEW n \in TaskNames,
           ~FreshName(n), Settled(n)
    PROVE  Settled(n)'
<1> SUFFICES ASSUME NEW q \in Procs, procs'[q].step \in MakingSteps
             PROVE  procs'[q].task # n
    BY DEF Settled, Making
<1> QED BY DEF QueueStep, Settled, Making

LEMMA StaysCarried ==
    ASSUME DocumentsInv, DocumentStep, NEW movers, QueueStep(movers), NEW n \in TaskNames,
           NEW r \in RunIds, NEW g \in Nat, g <= generation, Carries(n, r, g), Wanted(r, g)',
           \A q \in movers : Making(q) => procs[q].task # n, ~Abandoned(n)
    PROVE  Carries(n, r, g)'
<1>1. Wanted(r, g)
    BY NothingIsWantedAgain
<1>2. ~FreshName(n) /\ tasks[n].run = r /\ tasks[n].gen = g /\ tasks[n] # NoTask
    BY DEF Carries, FreshName
<1>3. tasks'[n] = tasks[n]
    BY <1>1, <1>2 DEF QueueStep, Goes
<1> QED BY <1>2, <1>3 DEF Carries

\* What the invariants say of the numbers and names in use.
LEMMA IndexFacts ==
    ASSUME DocumentsInv, NEW r \in RunIds, index[r] # NoItem
    PROVE  /\ index[r].task \in TaskNames /\ ~FreshName(index[r].task)
           /\ index[r].gen \in Nat /\ index[r].gen <= generation
<1>1. index[r] \in Items /\ Exists(r) /\ index[r].gen = runs[r].gen
    BY DEF DocumentsInv, DocumentTypes, Belong
<1>2. index[r].task \in TaskNames /\ index[r].gen \in Nat
    BY <1>1, CloudNumbers DEF Items
<1> QED BY <1>1, <1>2 DEF DocumentsInv, RunsAreSound, FreshName

LEMMA HandlerFacts ==
    ASSUME HandlersInv, DocumentsInv, NEW p \in Procs
    PROVE  LET h == procs[p] IN
           /\ h.gen \in Nat /\ h.gen <= generation
           /\ h.task # NoTask => h.task \in TaskNames /\ ~FreshName(h.task)
           /\ h.item # NoItem => h.item.task \in TaskNames /\ ~FreshName(h.item.task)
           /\ Making(p) => h.task # NoTask
           /\ h.step \in EnqueueSteps \cup RemovalSteps \cup {"cancelling"} => h.run \in RunIds
           /\ h.step = "repairing" => h.item # NoItem
<1> DEFINE h == procs[p]
<1>1. h \in Handlers /\ h.gen \in Nat /\ h.gen <= generation
    BY SoundHandler, CloudNumbers
<1>2. h.task \in TaskNames \cup {NoTask} /\ h.item \in Items \cup {NoItem}
    BY <1>1 DEF Handlers
<1>3. h.item # NoItem => h.item.task \in TaskNames
    BY <1>2 DEF Items
<1>4. Making(p) => h.task # NoTask
    BY SoundHandler, QueueAssumption DEF Making
<1>5. /\ h.step \in EnqueueSteps \cup RemovalSteps \cup {"cancelling"} => h.run \in RunIds
      /\ h.step = "repairing" => h.item # NoItem
    BY SoundHandler, CloudSentinels DEF DeliverySteps
<1> QED BY <1>1, <1>2, <1>3, <1>4, <1>5 DEF FreshName

\* Whoever does not move still knows what it knew: first, of an index document that came
\* after its reading.
LEMMA StoredStays ==
    ASSUME DocumentsInv, HandlersInv, QueueInv, DocumentStep, NEW movers, movers \subseteq Procs,
           QueueStep(movers), NEW p \in Procs, NEW h, h = procs[p],
           h.step \in {"parent", "checking"}, NEW stored, stored = index'[h.run],
           stored # NoItem, stored # h.item, NEW g, g = stored.gen, Wanted(h.run, g)'
    PROVE  Carries(stored.task, h.run, g)'
<1>1. h.run \in RunIds /\ h.step \in EnqueueSteps
    BY HandlerFacts DEF EnqueueSteps
<1>2. CASE stored = index[h.run]
    <2>1. /\ stored.task \in TaskNames /\ g \in Nat /\ g <= generation
          /\ Settled(stored.task)
        BY <1>1, <1>2, IndexFacts DEF QueueInv, IndexIsKept
    <2>2. Wanted(h.run, g)
        BY <1>1, <2>1, NothingIsWantedAgain
    <2>3. Carries(stored.task, h.run, g)
        BY <1>2, <2>2 DEF QueueInv, Knows
    <2>4. ~Abandoned(stored.task)
        BY <1>1, <2>3 DEF Abandoned, Carries
    <2>5. \A q \in movers : Making(q) => procs[q].task # stored.task
        BY <2>1 DEF Settled
    <2> QED BY <1>1, <2>1, <2>3, <2>4, <2>5, StaysCarried
<1>3. ASSUME NEW q \in movers, Indexes(q, h.run) PROVE Carries(stored.task, h.run, g)'
    <2>1. /\ procs[q].step = "indexing" /\ procs[q].run = h.run
          /\ g = procs[q].gen /\ stored.task = procs[q].task
          /\ \A n \in TaskNames : tasks'[n] = tasks[n]
        BY <1>3 DEF Indexes
    <2>2. g \in Nat /\ g <= generation /\ stored.task \in TaskNames
        BY <2>1, HandlerFacts DEF Making, MakingSteps
    <2>3. Wanted(h.run, g)
        BY <1>1, <2>2, NothingIsWantedAgain
    <2>4. Carries(stored.task, h.run, g)
        BY <2>1, <2>3 DEF QueueInv, Knows
    <2> QED BY <2>1, <2>2, <2>4 DEF Carries
<1> QED BY <1>1, <1>2, <1>3 DEF QueueStep

LEMMA OthersStillKnow ==
    ASSUME DocumentsInv, HandlersInv, QueueInv, DocumentStep, NEW movers, movers \subseteq Procs,
           QueueStep(movers), NEW p \in Procs, p \notin movers, NEW h, h = procs[p]
    PROVE  Knows(h)'
<1>1. Knows(h)
    BY DEF QueueInv
<1>2. \A q \in movers : Making(q) => procs[q].task # h.task \/ ~Making(p)
    BY DEF QueueInv, MakersDiffer
<1>3. ASSUME h.task # NoTask PROVE CarriesAtMost(h.task, h.run, h.gen)'
    BY <1>1, <1>3, NameStays, HandlerFacts DEF Knows
<1>4. ASSUME h.item # NoItem
      PROVE  CarriesAtMost(h.item.task, h.run, h.item.gen)' /\ Settled(h.item.task)'
    BY <1>1, <1>4, NameStays, StaysSettled, HandlerFacts DEF Knows
<1>5. ASSUME h.step \in RemovalSteps \cup {"cancelling"} PROVE ~Wanted(h.run, h.gen)'
    BY <1>1, <1>5, NothingIsWantedAgain, HandlerFacts DEF Knows
<1>6. ASSUME h.step = "indexing", Wanted(h.run, h.gen)' PROVE Carries(h.task, h.run, h.gen)'
    <2>1. h.run \in RunIds /\ h.gen \in Nat /\ h.gen <= generation /\ Making(p)
          /\ h.task \in TaskNames
        BY <1>6, HandlerFacts DEF EnqueueSteps, Making, MakingSteps
    <2>2. Wanted(h.run, h.gen) /\ Carries(h.task, h.run, h.gen)
        BY <1>1, <1>6, <2>1, NothingIsWantedAgain DEF Knows
    <2>3. ~Abandoned(h.task)
        BY DEF Abandoned
    <2> QED BY <1>2, <1>6, <2>1, <2>2, <2>3, StaysCarried
<1>7. ASSUME h.step = "repairing" PROVE tasks'[h.item.task] = NoTask
    <2>1. h.item.task \in TaskNames /\ ~FreshName(h.item.task) /\ tasks[h.item.task] = NoTask
        BY <1>1, <1>7, HandlerFacts DEF Knows
    <2> QED BY <2>1 DEF QueueStep, Goes
<1>8. ASSUME NEW stored, stored = index'[h.run], h.step \in {"parent", "checking"},
             stored # NoItem, stored # h.item, Wanted(h.run, stored.gen)'
      PROVE  Carries(stored.task, h.run, stored.gen)'
    BY <1>8, StoredStays
<1> QED BY <1>3, <1>4, <1>5, <1>6, <1>7, <1>8 DEF Knows

\* The index documents that are there afterwards have their tasks.
LEMMA IndexStaysKept ==
    ASSUME DocumentsInv, HandlersInv, QueueInv, NEW movers, movers \subseteq Procs,
           \A a, b \in movers : a = b, QueueStep(movers)
    PROVE  IndexIsKept'
<1> SUFFICES ASSUME NEW r \in RunIds, NEW stored, stored = index'[r], stored # NoItem
             PROVE  CarriesAtMost(stored.task, r, stored.gen)' /\ Settled(stored.task)'
    BY DEF IndexIsKept
<1>1. CASE stored = index[r]
    BY <1>1, IndexFacts, NameStays, StaysSettled DEF QueueInv, IndexIsKept
<1>2. ASSUME NEW q \in movers, Indexes(q, r)
      PROVE  CarriesAtMost(stored.task, r, stored.gen)' /\ Settled(stored.task)'
    <2> DEFINE k == procs[q]
    <2>1. /\ k.step = "indexing" /\ k.run = r /\ stored.gen = k.gen /\ stored.task = k.task
          /\ procs'[q].step \notin MakingSteps /\ \A n \in TaskNames : tasks'[n] = tasks[n]
        BY <1>2 DEF Indexes
    <2>2. Making(q) /\ k.task # NoTask /\ k.task \in TaskNames
        BY <2>1, HandlerFacts DEF Making, MakingSteps
    <2>3. CarriesAtMost(stored.task, r, stored.gen)'
        BY <2>1, <2>2 DEF QueueInv, Knows, CarriesAtMost
    <2>4. ASSUME NEW a \in Procs, procs'[a].step \in MakingSteps PROVE procs'[a].task # stored.task
        <3>1. a # q /\ a \notin movers
            BY <2>1, <2>4
        <3>2. procs'[a] = procs[a] /\ Making(a)
            BY <2>4, <3>1 DEF QueueStep, Making
        <3> QED BY <2>1, <2>2, <3>1, <3>2 DEF QueueInv, MakersDiffer
    <2> QED BY <2>3, <2>4 DEF Settled, Making
<1> QED BY <1>1, <1>2 DEF QueueStep

LEMMA MakersStayDifferent ==
    ASSUME QueueInv, NEW movers, movers \subseteq Procs, \A a, b \in movers : a = b,
           QueueStep(movers)
    PROVE  MakersDiffer'
<1>1. ASSUME NEW a \in Procs, procs'[a].step \in MakingSteps
      PROVE  \/ Making(a) /\ procs'[a].task = procs[a].task
             \/ a \in movers /\ \A b \in Procs : procs[b].task # procs'[a].task
    BY <1>1 DEF QueueStep, Making, FreshName
<1>2. ASSUME NEW a \in Procs, NEW b \in Procs, procs'[a].step \in MakingSteps,
             procs'[b].step \in MakingSteps, procs'[a].task = procs'[b].task
      PROVE  a = b
    BY <1>1, <1>2 DEF QueueInv, MakersDiffer
<1> QED BY <1>2 DEF MakersDiffer, Making

LEMMA AcceptedStayDispatched ==
    ASSUME DocumentsInv, HandlersInv, QueueInv, DocumentStep, NEW movers, movers \subseteq Procs,
           QueueStep(movers), NEW r \in RunIds
    PROVE  Fulfilled(r)'
<1>1. accepted[r] \in Nat /\ accepted[r] <= generation /\ generation \in Nat
    BY CloudNumbers DEF HandlersInv, DocumentsInv, DocumentTypes
<1>2. CASE accepted'[r] = 0
    <2>1. ~Wanted(r, 0)
        <3> SUFFICES ASSUME Wanted(r, 0) PROVE FALSE
            OBVIOUS
        <3>1. runs[r] \in Runs /\ runs[r].gen = 0
            BY DEF Wanted, Exists, DocumentsInv, DocumentTypes
        <3> QED BY <3>1, RunFields, CloudNumbers
    <2>2. ~Wanted(r, 0)'
        BY <1>1, <2>1, NothingIsWantedAgain
    <2> QED BY <1>2, <2>2 DEF Fulfilled, Wanted
<1>3. CASE accepted'[r] = accepted[r] /\ accepted[r] # 0 /\ index'[r] \in {index[r], NoItem}
    <2> SUFFICES ASSUME NEW g, g = accepted[r], Wanted(r, g)' PROVE Dispatched(r, g)'
        BY <1>3 DEF Fulfilled, Wanted, Dispatched, Carries
    <2>1. Wanted(r, g)
        BY <1>1, NothingIsWantedAgain
    <2>2. PICK n \in TaskNames :
              Carries(n, r, g) /\ Settled(n) /\ (index[r] # NoItem => index[r].task = n)
        BY <2>1 DEF QueueInv, Fulfilled, Dispatched
    <2>3. ~FreshName(n) /\ tasks[n].run = r
        BY <2>2 DEF Carries, FreshName
    <2>4. ~Abandoned(n)
        BY <1>3, <2>2, <2>3 DEF Abandoned
    <2>5. \A q \in movers : Making(q) => procs[q].task # n
        BY <2>2 DEF Settled
    <2>6. Carries(n, r, g)'
        BY <1>1, <2>2, <2>4, <2>5, StaysCarried
    <2>7. Settled(n)'
        BY <2>2, <2>3, StaysSettled
    <2> QED BY <1>3, <2>2, <2>6, <2>7 DEF Dispatched
<1> QED BY <1>2, <1>3 DEF QueueStep

\* It is enough, then, that the handler that moves knows what it has to know.
LEMMA QueueKept ==
    ASSUME DocumentsInv, HandlersInv, QueueInv, DocumentStep, NEW movers, movers \subseteq Procs,
           \A a, b \in movers : a = b, QueueStep(movers),
           \A q \in movers : Knows(procs[q])'
    PROVE  QueueInv'
<1>1. ASSUME NEW p \in Procs, p \notin movers PROVE Knows(procs[p])'
    <2>1. PICK h : h = procs[p]
        OBVIOUS
    <2>2. Knows(h)' /\ procs'[p] = h
        BY <1>1, <2>1, OthersStillKnow DEF QueueStep
    <2> QED BY <2>2
<1>2. IndexIsKept' /\ MakersDiffer' /\ \A r \in RunIds : Fulfilled(r)'
    BY IndexStaysKept, MakersStayDifferent, AcceptedStayDispatched
<1> QED BY <1>1, <1>2 DEF QueueInv

\* A step that adds nothing to the queue and removes only tasks that are not wanted.
Plain ==
    /\ \A n \in TaskNames :
           \/ tasks'[n] = tasks[n]
           \/ /\ tasks[n] # NoTask /\ tasks'[n] = NoTask
              /\ ~Wanted(tasks[n].run, tasks[n].gen)
    /\ \A r \in RunIds : index'[r] \in {index[r], NoItem} /\ accepted'[r] \in {accepted[r], 0}

LEMMA PlainStep ==
    ASSUME Plain, NEW p \in Procs, NEW step, NEW run, NEW gen, NEW task, NEW item, NEW then,
           Moved(p, step, run, gen, task, item, then),
           step \in MakingSteps => Making(p) /\ task = procs[p].task
    PROVE  QueueStep({p})
BY DEF Plain, Moved, QueueStep, Goes

\* A handler that keeps its task and its document, or begins with none.
LEMMA MoverKnows ==
    ASSUME DocumentsInv, HandlersInv, QueueInv, DocumentStep, NEW p \in Procs, QueueStep({p}),
           NEW step, NEW run, NEW gen, NEW task, NEW item, NEW then,
           Moved(p, step, run, gen, task, item, then),
           \/ task = procs[p].task /\ run = procs[p].run /\ gen = procs[p].gen
           \/ task = NoTask,
           \/ item = procs[p].item /\ run = procs[p].run
           \/ item = NoItem,
           step \notin {"indexing", "repairing", "parent", "checking"},
           step \in RemovalSteps \cup {"cancelling"} => ~Wanted(run, gen)'
    PROVE  Knows(procs[p])'
<1>1. PICK h : h = procs[p]
    OBVIOUS
<1>2. Knows(h)
    BY <1>1 DEF QueueInv
<1>3. ASSUME task # NoTask PROVE CarriesAtMost(task, run, gen)'
    BY <1>1, <1>2, <1>3, NameStays, HandlerFacts DEF Knows
<1>4. ASSUME item # NoItem PROVE CarriesAtMost(item.task, run, item.gen)' /\ Settled(item.task)'
    BY <1>1, <1>2, <1>4, NameStays, StaysSettled, HandlerFacts DEF Knows
<1>5. PICK k : k = procs'[p]
    OBVIOUS
<1>6. k.step = step /\ k.run = run /\ k.gen = gen /\ k.task = task /\ k.item = item
    BY <1>5 DEF Moved
<1>7. Knows(k)'
    BY <1>3, <1>4, <1>6 DEF Knows
<1> QED BY <1>5, <1>7

\* The three lemmas together: for any step, and for one that removes at most.
LEMMA MoveKeepsQueue ==
    ASSUME DocumentsInv, HandlersInv, QueueInv, DocumentStep, NEW p \in Procs, QueueStep({p}),
           NEW step, NEW run, NEW gen, NEW task, NEW item, NEW then,
           Moved(p, step, run, gen, task, item, then),
           \/ task = procs[p].task /\ run = procs[p].run /\ gen = procs[p].gen
           \/ task = NoTask,
           \/ item = procs[p].item /\ run = procs[p].run
           \/ item = NoItem,
           step \notin {"indexing", "repairing", "parent", "checking"},
           step \in RemovalSteps \cup {"cancelling"} => ~Wanted(run, gen)'
    PROVE  QueueInv'
<1>1. Knows(procs[p])'
    BY MoverKnows
<1> QED BY <1>1, QueueKept

LEMMA PlainMoveKeepsQueue ==
    ASSUME DocumentsInv, HandlersInv, QueueInv, DocumentStep, Plain, NEW p \in Procs,
           NEW step, NEW run, NEW gen, NEW task, NEW item, NEW then,
           Moved(p, step, run, gen, task, item, then),
           \/ task = procs[p].task /\ run = procs[p].run /\ gen = procs[p].gen
           \/ task = NoTask,
           \/ item = procs[p].item /\ run = procs[p].run
           \/ item = NoItem,
           step \notin {"indexing", "repairing", "parent", "checking"},
           step \in MakingSteps => Making(p) /\ task = procs[p].task,
           step \in RemovalSteps \cup {"cancelling"} => ~Wanted(run, gen)'
    PROVE  QueueInv'
<1>1. QueueStep({p})
    BY PlainStep
<1> QED BY <1>1, MoveKeepsQueue

LEMMA SameQueueIsPlain ==
    ASSUME UNCHANGED <<tasks, accepted>>, \A r \in RunIds : index'[r] \in {index[r], NoItem}
    PROVE  Plain
BY DEF Plain

LEMMA FinishingKeepsQueue ==
    ASSUME DocumentsInv, HandlersInv, QueueInv, DocumentStep, NEW p \in Procs,
           QueueStep({p}) \/ Plain, Become(p, Idle)
    PROVE  QueueInv'
<1>1. Moved(p, "idle", NoRun, 0, NoTask, NoItem, "answer")
    BY Finishing
<1>2. "idle" \notin RemovalSteps \cup MakingSteps
    BY DEF RemovalSteps, MakingSteps
<1>3. QueueStep({p})
    BY <1>1, <1>2, PlainStep
<1> QED BY <1>1, <1>2, <1>3, MoveKeepsQueue

LEMMA NextRoundKeepsQueue ==
    ASSUME DocumentsInv, HandlersInv, QueueInv, DocumentStep, NEW p \in Procs,
           procs[p].step \in EnqueueSteps, QueueStep({p}) \/ Plain, NextRound(p)
    PROVE  QueueInv'
<1> DEFINE h == procs[p]
<1>1. CASE Become(p, Idle)
    BY <1>1, FinishingKeepsQueue
<1>2. CASE /\ h.round < MaxRounds
           /\ Become(p, [Idle EXCEPT !.step = "reading", !.run = h.run, !.gen = h.gen,
                                     !.round = h.round + 1])
    <2>1. h.round \in 0..MaxRounds /\ h.run \in RunIds /\ h.gen \in 0..MaxGeneration
        BY SoundHandler DEF Handlers
    <2>2. h.round + 1 \in 0..MaxRounds /\ "reading" \in AllSteps
        BY <1>2, <2>1, QueueAssumption DEF AllSteps, EnqueueSteps
    <2>3. Moved(p, "reading", h.run, h.gen, NoTask, NoItem, "answer")
        BY <1>2, <2>1, <2>2, Starting
    <2>4. "reading" \notin RemovalSteps \cup MakingSteps
        BY DEF RemovalSteps, MakingSteps
    <2>5. QueueStep({p})
        BY <2>3, <2>4, PlainStep
    <2> QED BY <2>3, <2>4, <2>5, MoveKeepsQueue
<1> QED BY <1>1, <1>2 DEF NextRound

\* The document that is read: its task is the item's, as nobody has come in between.
LEMMA ReadIndexKeepsQueue ==
    ASSUME DocumentsInv, HandlersInv, QueueInv, DocumentStep, NEW p \in Procs, ReadIndex(p)
    PROVE  QueueInv'
<1> PICK h : h = procs[p]
    OBVIOUS
<1> PICK item : item = index[h.run]
    OBVIOUS
<1>1. /\ h.step = "reading"
      /\ Become(p, [procs[p] EXCEPT !.step = "parent", !.item = index[procs[p].run]])
      /\ UNCHANGED <<tasks, accepted>> /\ UNCHANGED index
    BY DEF ReadIndex, At, documents
<1>2. h.run \in RunIds
    BY <1>1, HandlerFacts DEF EnqueueSteps
<1>3. item \in Items \cup {NoItem}
    BY <1>2 DEF DocumentsInv, DocumentTypes
<1>4. Moved(p, "parent", h.run, h.gen, h.task, item, h.then)
    <2>1. "parent" \in AllSteps
        BY DEF AllSteps, EnqueueSteps
    <2> QED BY <1>1, <1>3, <2>1, GoingOn
<1>5. QueueStep({p})
    <2>1. "parent" \notin MakingSteps
        BY DEF MakingSteps
    <2> QED BY <1>1, <1>4, <2>1, SameQueueIsPlain, PlainStep
<1>6. ASSUME h.task # NoTask PROVE CarriesAtMost(h.task, h.run, h.gen)'
    BY <1>5, <1>6, NameStays, HandlerFacts DEF QueueInv, Knows
<1>7. ASSUME item # NoItem PROVE CarriesAtMost(item.task, h.run, item.gen)' /\ Settled(item.task)'
    BY <1>2, <1>5, <1>7, IndexFacts, NameStays, StaysSettled DEF QueueInv, IndexIsKept
<1>8. PICK k : k = procs'[p]
    OBVIOUS
<1>9. /\ k.step = "parent" /\ k.run = h.run /\ k.gen = h.gen /\ k.task = h.task
      /\ k.item = item /\ index'[h.run] = item
    BY <1>1, <1>4, <1>8 DEF Moved
<1>10. Knows(k)'
    BY <1>6, <1>7, <1>9 DEF Knows, RemovalSteps
<1> QED BY <1>5, <1>8, <1>10, QueueKept

LEMMA ReadParentKeepsQueue ==
    ASSUME DocumentsInv, HandlersInv, QueueInv, DocumentStep, NEW p \in Procs, ReadParent(p)
    PROVE  QueueInv'
<1> PICK h : h = procs[p]
    OBVIOUS
<1>1. /\ h.step = "parent" /\ UNCHANGED <<tasks, accepted>> /\ UNCHANGED <<runs, index>>
      /\ Become(p, Idle) \/ GoTo(p, "creating") \/ GoTo(p, "checking")
    BY DEF ReadParent, At, documents
<1>2. Plain
    BY <1>1, SameQueueIsPlain
<1>3. {"creating", "checking"} \subseteq AllSteps \ (MakingSteps \cup RemovalSteps)
    BY DEF AllSteps, EnqueueSteps, MakingSteps, RemovalSteps
<1>4. CASE GoTo(p, "creating")
    <2>1. Moved(p, "creating", h.run, h.gen, h.task, h.item, h.then)
        BY <1>3, <1>4, GoingOn DEF Went
    <2> QED BY <1>2, <1>3, <2>1, PlainMoveKeepsQueue
<1>5. CASE GoTo(p, "checking")
    <2>1. Moved(p, "checking", h.run, h.gen, h.task, h.item, h.then)
        BY <1>3, <1>5, GoingOn DEF Went
    <2>2. QueueStep({p})
        BY <1>2, <1>3, <2>1, PlainStep
    <2>3. ASSUME h.task # NoTask PROVE CarriesAtMost(h.task, h.run, h.gen)'
        BY <2>2, <2>3, NameStays, HandlerFacts DEF QueueInv, Knows
    <2>4. ASSUME h.item # NoItem
          PROVE  CarriesAtMost(h.item.task, h.run, h.item.gen)' /\ Settled(h.item.task)'
        BY <2>2, <2>4, NameStays, StaysSettled, HandlerFacts DEF QueueInv, Knows
    <2>5. PICK k : k = procs'[p]
        OBVIOUS
    <2>6. /\ k.step = "checking" /\ k.run = h.run /\ k.gen = h.gen /\ k.task = h.task
          /\ k.item = h.item
        BY <2>1, <2>5 DEF Moved
    <2>7. ASSUME NEW stored, stored = index[h.run], stored # NoItem, stored # h.item,
                 Wanted(h.run, stored.gen)
          PROVE  Carries(stored.task, h.run, stored.gen)
        BY <1>1, <2>7 DEF QueueInv, Knows
    <2>8. Knows(k)'
        BY <1>1, <1>3, <2>3, <2>4, <2>6, <2>7 DEF Knows, Carries, Wanted, Exists, Over
    <2> QED BY <2>2, <2>5, <2>8, QueueKept
<1> QED BY <1>1, <1>2, <1>4, <1>5, FinishingKeepsQueue

\* A handler that reports its submission done, which is dispatched then.
LEMMA SucceedingKeepsQueue ==
    ASSUME DocumentsInv, HandlersInv, QueueInv, DocumentStep, NEW p \in Procs, Succeed(p),
           UNCHANGED tasks, NEW run \in RunIds, run = procs[p].run,
           UNCHANGED index \/ Indexes(p, run),
           \A r \in RunIds : r # run => index'[r] = index[r], Fulfilled(run)'
    PROVE  QueueInv'
<1>1. Become(p, Idle) /\ accepted' = [accepted EXCEPT ![run] = procs[p].gen]
    BY DEF Succeed
<1>2. \A q \in Procs : q # p => procs'[q] = procs[q]
    BY <1>1, Finishing DEF Moved
<1>3. procs'[p].step \notin MakingSteps
    BY <1>1, Finishing DEF Moved, MakingSteps
<1>4. \A r \in RunIds : r # run => accepted'[r] = accepted[r]
    BY <1>1 DEF HandlersInv
<1>5. \A r \in RunIds : index'[r] \in {index[r], NoItem} \/ Indexes(p, r)
    OBVIOUS
<1>6. \A r \in RunIds : \/ Fulfilled(r)'
                        \/ accepted'[r] = accepted[r] /\ index'[r] \in {index[r], NoItem}
    BY <1>4
<1>7. QueueStep({p})
    BY <1>2, <1>3, <1>5, <1>6 DEF QueueStep
<1> QED BY <1>1, <1>7, FinishingKeepsQueue

\* The item's task is there: as nobody knows of another document of the run, or the one
\* that came since has its task, the run is dispatched.
LEMMA CheckTaskKeepsQueue ==
    ASSUME DocumentsInv, HandlersInv, QueueInv, DocumentStep, NEW p \in Procs, CheckTask(p)
    PROVE  QueueInv'
<1> PICK h : h = procs[p]
    OBVIOUS
<1>1. h.step = "checking" /\ UNCHANGED <<tasks, index, runs>>
    BY DEF CheckTask, At, documents
<1>2. h.run \in RunIds /\ h.gen \in Nat /\ h.item \in Items /\ h.item.gen = h.gen
    BY <1>1, SoundHandler, CloudNumbers DEF EnqueueSteps
<1>3. h.item # NoItem /\ h.item.task \in TaskNames /\ Knows(h)
    BY <1>2, CloudSentinels DEF Items, QueueInv
<1>4. CASE tasks[h.item.task] # NoTask /\ Succeed(p)
    <2>1. accepted'[h.run] = h.gen /\ procs'[p].step \notin MakingSteps
          /\ \A q \in Procs : q # p => procs'[q] = procs[q]
        BY <1>2, <1>4, Finishing DEF Succeed, HandlersInv, Moved, MakingSteps
    <2>2. ASSUME NEW n \in TaskNames, Settled(n) PROVE Settled(n)'
        BY <2>1, <2>2 DEF Settled, Making
    <2>3. ASSUME Wanted(h.run, h.gen)
          PROVE  \E n \in TaskNames : Carries(n, h.run, h.gen) /\ Settled(n)
                     /\ (index[h.run] # NoItem => index[h.run].task = n)
        <3>1. CASE index[h.run] = NoItem \/ index[h.run] = h.item
            BY <1>2, <1>3, <1>4, <3>1 DEF Knows, CarriesAtMost, Carries
        <3>2. CASE index[h.run] # NoItem /\ index[h.run] # h.item
            <4>1. index[h.run].gen = h.gen /\ index[h.run].task \in TaskNames
                BY <1>2, <2>3, <3>2, IndexFacts DEF DocumentsInv, Belong, Wanted
            <4>2. Carries(index[h.run].task, h.run, h.gen)
                BY <1>1, <1>3, <2>3, <3>2, <4>1 DEF Knows
            <4>3. Settled(index[h.run].task)
                BY <1>2, <3>2 DEF QueueInv, IndexIsKept
            <4> QED BY <4>1, <4>2, <4>3
        <3> QED BY <3>1, <3>2
    <2>4. Wanted(h.run, h.gen)' => Wanted(h.run, h.gen)
        BY <1>1 DEF Wanted, Exists, Over
    <2>5. \A n \in TaskNames : Carries(n, h.run, h.gen) => Carries(n, h.run, h.gen)'
        BY <1>1 DEF Carries
    <2>6. Wanted(h.run, h.gen)' => Dispatched(h.run, h.gen)'
        BY <1>1, <2>2, <2>3, <2>4, <2>5 DEF Dispatched
    <2>7. Fulfilled(h.run)'
        BY <2>1, <2>6 DEF Fulfilled, Wanted, Dispatched, Carries
    <2> QED BY <1>1, <1>2, <1>4, <2>7, SucceedingKeepsQueue
<1>5. CASE tasks[h.item.task] = NoTask /\ GoTo(p, "repairing") /\ UNCHANGED accepted
    <2>1. "repairing" \in AllSteps \ (MakingSteps \cup RemovalSteps)
        BY DEF AllSteps, EnqueueSteps, MakingSteps, RemovalSteps
    <2>2. Moved(p, "repairing", h.run, h.gen, h.task, h.item, h.then)
        BY <1>5, <2>1, GoingOn DEF Went
    <2>3. QueueStep({p})
        BY <1>1, <1>5, <2>1, <2>2, SameQueueIsPlain, PlainStep
    <2>4. ASSUME h.task # NoTask PROVE CarriesAtMost(h.task, h.run, h.gen)'
        BY <1>3, <2>3, <2>4, NameStays, HandlerFacts DEF Knows
    <2>5. CarriesAtMost(h.item.task, h.run, h.item.gen)' /\ Settled(h.item.task)'
        BY <1>3, <2>3, NameStays, StaysSettled, HandlerFacts DEF Knows
    <2>6. PICK k : k = procs'[p]
        OBVIOUS
    <2>7. /\ k.step = "repairing" /\ k.run = h.run /\ k.gen = h.gen /\ k.task = h.task
          /\ k.item = h.item
        BY <2>2, <2>6 DEF Moved
    <2>8. tasks'[h.item.task] = NoTask
        BY <1>1, <1>5
    <2>9. Knows(k)'
        BY <2>1, <2>4, <2>5, <2>7, <2>8 DEF Knows
    <2> QED BY <2>3, <2>6, <2>9, QueueKept
<1> QED BY <1>1, <1>4, <1>5 DEF CheckTask

LEMMA RepairKeepsQueue ==
    ASSUME DocumentsInv, HandlersInv, QueueInv, DocumentStep, NEW p \in Procs, Repair(p)
    PROVE  QueueInv'
<1> PICK h : h = procs[p]
    OBVIOUS
<1>1. h.step = "repairing" /\ UNCHANGED <<tasks, accepted>>
    BY DEF Repair, At
<1>2. \A r \in RunIds : index'[r] \in {index[r], NoItem}
    BY DEF Repair, DeleteMatching, DocumentsInv, DocumentTypes
<1>3. Plain
    BY <1>1, <1>2, SameQueueIsPlain
<1>4. CASE Become(p, [h EXCEPT !.step = "creating", !.item = NoItem])
    <2>1. "creating" \in AllSteps \ (MakingSteps \cup RemovalSteps)
        BY DEF AllSteps, EnqueueSteps, MakingSteps, RemovalSteps
    <2>2. Moved(p, "creating", h.run, h.gen, h.task, NoItem, h.then)
        BY <1>4, <2>1, GoingOn
    <2> QED BY <1>3, <2>1, <2>2, PlainMoveKeepsQueue
<1>5. CASE NextRound(p)
    BY <1>1, <1>3, <1>5, NextRoundKeepsQueue DEF EnqueueSteps
<1> QED BY <1>4, <1>5 DEF Repair

\* The task that is made has a name nobody knew.
LEMMA CreateTaskKeepsQueue ==
    ASSUME DocumentsInv, HandlersInv, QueueInv, DocumentStep, NEW p \in Procs,
           NEW n \in TaskNames, CreateTask(p, n)
    PROVE  QueueInv'
<1> PICK h : h = procs[p]
    OBVIOUS
<1>1. /\ h.step = "creating" /\ FreshName(n) /\ UNCHANGED <<index, accepted>>
      /\ tasks' = [tasks EXCEPT ![n] = [run |-> h.run, gen |-> h.gen]]
      /\ Become(p, [h EXCEPT !.step = "indexing", !.task = n]) \/ Become(p, Idle)
    BY DEF CreateTask, At, documents
<1>2. h.run \in RunIds /\ h.gen \in Generations /\ "indexing" \in AllSteps \ RemovalSteps
    BY <1>1, SoundHandler DEF AllSteps, EnqueueSteps, RemovalSteps
<1>3. /\ tasks'[n] = [run |-> h.run, gen |-> h.gen]
      /\ \A m \in TaskNames : m # n => tasks'[m] = tasks[m]
    BY <1>1 DEF HandlersInv
<1>4. tasks'[n] # NoTask
    BY <1>2, <1>3, QueueAssumption
<1>5. CASE Become(p, Idle)
    <2>1. \A q \in Procs : q # p => procs'[q] = procs[q]
        BY <1>5, Finishing DEF Moved
    <2>2. procs'[p].step \notin MakingSteps
        BY <1>5, Finishing DEF Moved, MakingSteps
    <2>3. QueueStep({p})
        BY <1>1, <1>3, <2>1, <2>2 DEF QueueStep
    <2> QED BY <1>5, <2>3, FinishingKeepsQueue
<1>6. CASE Become(p, [h EXCEPT !.step = "indexing", !.task = n])
    <2>1. Moved(p, "indexing", h.run, h.gen, n, h.item, h.then)
        BY <1>2, <1>6, GoingOn
    <2>2. QueueStep({p})
        BY <1>1, <1>3, <2>1 DEF QueueStep, Moved
    <2>3. ASSUME h.item # NoItem
          PROVE  CarriesAtMost(h.item.task, h.run, h.item.gen)' /\ Settled(h.item.task)'
        BY <2>2, <2>3, NameStays, StaysSettled, HandlerFacts DEF QueueInv, Knows
    <2>4. Carries(n, h.run, h.gen)' /\ CarriesAtMost(n, h.run, h.gen)'
        BY <1>3, <1>4 DEF Carries, CarriesAtMost
    <2>5. PICK k : k = procs'[p]
        OBVIOUS
    <2>6. /\ k.step = "indexing" /\ k.run = h.run /\ k.gen = h.gen /\ k.task = n
          /\ k.item = h.item
        BY <2>1, <2>5 DEF Moved
    <2>7. Knows(k)'
        BY <1>2, <2>3, <2>4, <2>6 DEF Knows
    <2> QED BY <2>2, <2>5, <2>7, QueueKept
<1> QED BY <1>1, <1>5, <1>6

\* A task that will be undone is still its maker's alone.
LEMMA GivingUpKeepsQueue ==
    ASSUME DocumentsInv, HandlersInv, QueueInv, DocumentStep, NEW p \in Procs,
           procs[p].step = "indexing", UNCHANGED <<tasks, accepted, index>>,
           GoTo(p, "undoing") \/ GoTo(p, "undoing_for_good")
    PROVE  QueueInv'
<1> PICK h : h = procs[p]
    OBVIOUS
<1>1. Plain /\ Making(p)
    BY SameQueueIsPlain DEF Making, MakingSteps
<1>2. {"undoing", "undoing_for_good"} \subseteq AllSteps \ RemovalSteps
    BY DEF AllSteps, EnqueueSteps, RemovalSteps
<1>3. PICK step \in {"undoing", "undoing_for_good"} : GoTo(p, step)
    OBVIOUS
<1>4. Moved(p, step, h.run, h.gen, h.task, h.item, h.then)
    BY <1>2, <1>3, GoingOn DEF Went
<1> QED BY <1>1, <1>2, <1>4, PlainMoveKeepsQueue

\* The first document wins: its task is there if the run is wanted.
LEMMA PersistIndexKeepsQueue ==
    ASSUME DocumentsInv, HandlersInv, QueueInv, DocumentStep, NEW p \in Procs, PersistIndex(p),
           ~InDoubt
    PROVE  QueueInv'
<1> PICK h : h = procs[p]
    OBVIOUS
<1> DEFINE run == h.run
<1>1. h.step = "indexing" /\ UNCHANGED <<tasks, runs>> /\ Making(p)
    BY DEF PersistIndex, At, Making, MakingSteps
<1>2. run \in RunIds /\ h.gen \in Nat /\ h.task \in TaskNames
    BY <1>1, SoundHandler, CloudNumbers DEF EnqueueSteps, MakingSteps
<1>3. CASE UNCHANGED <<index, accepted>> /\ (GoTo(p, "undoing") \/ GoTo(p, "undoing_for_good"))
    BY <1>1, <1>3, GivingUpKeepsQueue
<1>4. CASE /\ Succeed(p)
           /\ index' = [index EXCEPT ![run] = [gen |-> h.gen, task |-> h.task]]
    <2>1. index'[run] = [gen |-> h.gen, task |-> h.task]
          /\ \A r \in RunIds : r # run => index'[r] = index[r]
        BY <1>2, <1>4 DEF DocumentsInv, DocumentTypes
    <2>2. accepted'[run] = h.gen /\ procs'[p].step \notin MakingSteps
          /\ \A q \in Procs : q # p => procs'[q] = procs[q]
        BY <1>2, <1>4, Finishing DEF Succeed, HandlersInv, Moved, MakingSteps
    <2>3. Indexes(p, run)
        BY <1>1, <2>1, <2>2 DEF Indexes
    <2>4. Settled(h.task)'
        BY <1>1, <2>2 DEF Settled, Making, QueueInv, MakersDiffer
    <2>5. Wanted(run, h.gen) => Carries(h.task, run, h.gen)
        BY <1>1 DEF QueueInv, Knows
    <2>6. Wanted(run, h.gen)' => Carries(h.task, run, h.gen)'
        BY <1>1, <2>5 DEF Wanted, Exists, Over, Carries
    <2>7. Wanted(run, h.gen)' => Dispatched(run, h.gen)'
        BY <1>2, <2>1, <2>4, <2>6 DEF Dispatched
    <2>8. Fulfilled(run)'
        BY <2>2, <2>7 DEF Fulfilled, Wanted, Dispatched, Carries
    <2> QED BY <1>1, <1>2, <1>4, <2>1, <2>3, <2>8, SucceedingKeepsQueue
<1> QED BY <1>3, <1>4 DEF PersistIndex

LEMMA UndoKeepsQueue ==
    ASSUME DocumentsInv, HandlersInv, QueueInv, DocumentStep, NEW p \in Procs, Undo(p)
    PROVE  QueueInv'
<1> PICK h : h = procs[p]
    OBVIOUS
<1>1. /\ h.step \in {"undoing", "undoing_for_good"} /\ UNCHANGED <<index, accepted>>
      /\ NextRound(p) \/ Become(p, Idle)
      /\ tasks' = [tasks EXCEPT ![h.task] = NoTask]
    BY DEF Undo, At, documents
<1>2. Making(p) /\ h.task \in TaskNames /\ h.step \in EnqueueSteps
    BY <1>1, SoundHandler DEF Making, MakingSteps, EnqueueSteps
<1>3. procs' \in [Procs -> Handlers] /\ procs'[p].step \notin MakingSteps
      /\ \A q \in Procs : q # p => procs'[q] = procs[q]
    <2>1. CASE Become(p, Idle)
        BY <2>1, Finishing DEF Moved, MakingSteps
    <2>2. CASE /\ h.round < MaxRounds
               /\ Become(p, [Idle EXCEPT !.step = "reading", !.run = h.run, !.gen = h.gen,
                                         !.round = h.round + 1])
        <3>1. h.round \in 0..MaxRounds /\ h.run \in RunIds /\ h.gen \in 0..MaxGeneration
            BY <1>2, SoundHandler DEF Handlers
        <3>2. h.round + 1 \in 0..MaxRounds /\ "reading" \in AllSteps
            BY <2>2, <3>1, QueueAssumption DEF AllSteps, EnqueueSteps
        <3>3. Moved(p, "reading", h.run, h.gen, NoTask, NoItem, "answer")
            BY <2>2, <3>1, <3>2, Starting
        <3> QED BY <3>3 DEF Moved, MakingSteps
    <2> QED BY <1>1, <2>1, <2>2 DEF NextRound
<1>4. \A n \in TaskNames : tasks'[n] = tasks[n] \/ Goes(n, {p})
    BY <1>1, <1>2 DEF HandlersInv, Goes
<1>5. QueueStep({p})
    BY <1>1, <1>3, <1>4 DEF QueueStep
<1> QED BY <1>1, <1>2, <1>5, NextRoundKeepsQueue, FinishingKeepsQueue

LEMMA EnqueueingKeepsQueue ==
    ASSUME DocumentsInv, HandlersInv, QueueInv, DocumentStep, NEW p \in Procs, Enqueueing(p),
           ~InDoubt
    PROVE  QueueInv'
<1>1. CASE PersistFails(p)
    BY <1>1, GivingUpKeepsQueue DEF PersistFails, At, documents
<1> QED BY <1>1, ReadIndexKeepsQueue, ReadParentKeepsQueue, CheckTaskKeepsQueue,
           RepairKeepsQueue, CreateTaskKeepsQueue, PersistIndexKeepsQueue, UndoKeepsQueue
        DEF Enqueueing

\* The answer to a delivery, and the removal of an item, take only tasks of a run that is
\* not wanted.
LEMMA AnsweringKeepsQueue ==
    ASSUME DocumentsInv, HandlersInv, QueueInv, DocumentStep, NEW p \in Procs,
           procs[p].step \in RemovalSteps \cup {"cancelling"},
           NEW queue, Answered(p, queue), UNCHANGED accepted,
           \A r \in RunIds : index'[r] \in {index[r], NoItem},
           \/ queue = tasks
           \/ /\ procs[p].step = "untasking"
              /\ queue = [tasks EXCEPT ![procs[p].item.task] = NoTask]
    PROVE  QueueInv'
<1> PICK h : h = procs[p]
    OBVIOUS
<1>1. Become(p, Idle)
    BY DEF Answered
<1>2. ~Wanted(h.run, h.gen) /\ Knows(h)
    BY DEF QueueInv, Knows
<1>3. \/ \A n \in TaskNames : queue[n] = tasks[n]
      \/ /\ h.item \in Items /\ h.item.gen = h.gen
         /\ queue[h.item.task] = NoTask
         /\ \A n \in TaskNames : n # h.item.task => queue[n] = tasks[n]
    BY SoundHandler DEF HandlersInv, Items
<1>4. queue \in [TaskNames -> [run : RunIds, gen : Generations] \cup {NoTask}]
    BY DEF HandlersInv
<1>5. \A n \in TaskNames : tasks'[n] = queue[n] \/ (n = h.task /\ tasks'[n] = NoTask)
    BY <1>4 DEF Answered
<1>6. \A n \in TaskNames : tasks'[n] # NoTask => tasks'[n] = tasks[n]
    BY <1>3, <1>5
<1>7. ASSUME NEW n \in TaskNames, tasks'[n] # tasks[n]
      PROVE  /\ tasks[n] # NoTask /\ tasks'[n] = NoTask
             /\ ~Wanted(tasks[n].run, tasks[n].gen)
    <2>1. n = h.task \/ (h.item \in Items /\ h.item.gen = h.gen /\ n = h.item.task)
        BY <1>3, <1>5, <1>7
    <2>2. tasks'[n] = NoTask /\ tasks[n] # NoTask
        BY <1>6, <1>7
    <2>3. n # NoTask
        BY QueueAssumption
    <2>4. tasks[n].run = h.run /\ tasks[n].gen = h.gen
        BY <1>2, <2>1, <2>2, <2>3, CloudSentinels DEF Knows, CarriesAtMost
    <2> QED BY <1>2, <2>2, <2>4
<1>8. Plain
    BY <1>7 DEF Plain
<1> QED BY <1>1, <1>8, FinishingKeepsQueue

LEMMA ListItemsKeepsQueue ==
    ASSUME DocumentsInv, HandlersInv, QueueInv, DocumentStep, NEW p \in Procs, ListItems(p)
    PROVE  QueueInv'
<1> PICK h : h = procs[p]
    OBVIOUS
<1> PICK item : item = index[h.run]
    OBVIOUS
<1>1. /\ h.step \in RemovalSteps /\ UNCHANGED <<index, accepted, runs>>
      /\ \/ /\ item # NoItem /\ item.gen = h.gen /\ UNCHANGED tasks
            /\ Become(p, [h EXCEPT !.step = "unindexing", !.item = item])
         \/ Answered(p, tasks)
    BY DEF ListItems, At, documents, Listed, Matches, RemovalSteps
<1>2. h.run \in RunIds
    BY <1>1, HandlerFacts
<1>3. CASE Answered(p, tasks)
    BY <1>1, <1>3, AnsweringKeepsQueue
<1>4. CASE /\ item # NoItem /\ item.gen = h.gen /\ UNCHANGED tasks
           /\ Become(p, [h EXCEPT !.step = "unindexing", !.item = item])
    <2>1. item \in Items /\ "unindexing" \in AllSteps \ (MakingSteps \cup EnqueueSteps)
        BY <1>2, <1>4 DEF DocumentsInv, DocumentTypes, AllSteps, EnqueueSteps, MakingSteps,
                          RemovalSteps
    <2>2. Moved(p, "unindexing", h.run, h.gen, h.task, item, h.then)
        BY <1>4, <2>1, GoingOn
    <2>3. QueueStep({p})
        BY <1>1, <1>4, <2>1, <2>2, SameQueueIsPlain, PlainStep
    <2>4. ASSUME h.task # NoTask PROVE CarriesAtMost(h.task, h.run, h.gen)'
        BY <2>3, <2>4, NameStays, HandlerFacts DEF QueueInv, Knows
    <2>5. CarriesAtMost(item.task, h.run, item.gen)' /\ Settled(item.task)'
        BY <1>2, <1>4, <2>3, IndexFacts, NameStays, StaysSettled DEF QueueInv, IndexIsKept
    <2>6. ~Wanted(h.run, h.gen)'
        BY <1>1 DEF QueueInv, Knows, Wanted, Exists, Over
    <2>7. PICK k : k = procs'[p]
        OBVIOUS
    <2>8. /\ k.step = "unindexing" /\ k.run = h.run /\ k.gen = h.gen /\ k.task = h.task
          /\ k.item = item
        BY <2>2, <2>7 DEF Moved
    <2>9. Knows(k)'
        BY <2>4, <2>5, <2>6, <2>8 DEF Knows
    <2> QED BY <2>3, <2>7, <2>9, QueueKept
<1> QED BY <1>1, <1>3, <1>4

LEMMA RemovingKeepsQueue ==
    ASSUME DocumentsInv, HandlersInv, QueueInv, DocumentStep, NEW p \in Procs, Removing(p)
    PROVE  QueueInv'
<1> PICK h : h = procs[p]
    OBVIOUS
<1>1. CASE Untask(p)
    <2>1. /\ h.step = "untasking" /\ UNCHANGED <<index, accepted>>
          /\ Answered(p, [tasks EXCEPT ![h.item.task] = NoTask])
        BY <1>1 DEF Untask, At, documents
    <2> QED BY <2>1, AnsweringKeepsQueue DEF RemovalSteps
<1>2. CASE Unindex(p)
    <2>1. h.step = "unindexing" /\ UNCHANGED <<runs, accepted>>
        BY <1>2 DEF Unindex, At
    <2>2. \A r \in RunIds : index'[r] \in {index[r], NoItem}
        BY <1>2 DEF Unindex, DeleteMatching, DocumentsInv, DocumentTypes
    <2>3. CASE Answered(p, tasks)
        BY <2>1, <2>2, <2>3, AnsweringKeepsQueue DEF RemovalSteps
    <2>4. CASE GoTo(p, "untasking") /\ UNCHANGED tasks
        <3>1. "untasking" \in AllSteps \ (MakingSteps \cup EnqueueSteps)
            BY DEF AllSteps, EnqueueSteps, MakingSteps, RemovalSteps
        <3>2. Moved(p, "untasking", h.run, h.gen, h.task, h.item, h.then)
            BY <2>4, <3>1, GoingOn DEF Went
        <3>3. ~Wanted(h.run, h.gen)'
            BY <2>1 DEF QueueInv, Knows, Wanted, Exists, Over, RemovalSteps
        <3>4. Plain
            BY <2>1, <2>2, <2>4, SameQueueIsPlain
        <3> QED BY <3>1, <3>2, <3>3, <3>4, PlainMoveKeepsQueue
    <2> QED BY <1>2, <2>3, <2>4 DEF Unindex
<1> QED BY <1>1, <1>2, ListItemsKeepsQueue DEF Removing

\* A step of the documents alone.
LEMMA StandingKeepsQueue ==
    ASSUME DocumentsInv, HandlersInv, QueueInv, DocumentStep, Plain, UNCHANGED procs
    PROVE  QueueInv'
<1>1. QueueStep({})
    BY DEF Plain, QueueStep, Goes
<1> QED BY <1>1, QueueKept

\* A submission begins with nothing; a cancellation that took effect cleans up a run that
\* is not wanted any more.
LEMMA RequestKeepsQueue ==
    ASSUME DocumentsInv, HandlersInv, QueueInv, DocumentStep, NEW p \in Procs, Request(p),
           ~InDoubt
    PROVE  QueueInv'
<1>1. 1 \in 0..MaxRounds
    BY QueueAssumption
<1>2. ASSUME NEW r \in RunIds, NEW g \in Generations, Enqueue(p, r, g),
             UNCHANGED <<tasks, accepted, index>>
      PROVE  QueueInv'
    <2>1. g \in 0..MaxGeneration /\ "reading" \in AllSteps \ (MakingSteps \cup RemovalSteps)
        BY CloudNumbers DEF Generations, AllSteps, EnqueueSteps, MakingSteps, RemovalSteps
    <2>2. Moved(p, "reading", r, g, NoTask, NoItem, "answer")
        BY <1>1, <1>2, <2>1, Starting DEF Enqueue
    <2>3. Plain
        BY <1>2, SameQueueIsPlain
    <2> QED BY <2>1, <2>2, <2>3, PlainMoveKeepsQueue
<1>3. ASSUME NEW r \in RunIds, SubmitAgain(p, r) PROVE QueueInv'
    <2>1. r \in keys /\ Enqueue(p, r, runs[r].gen) /\ UNCHANGED <<tasks, accepted, index>>
        BY <1>3 DEF SubmitAgain, documents
    <2>2. runs[r] \in Runs
        BY <2>1 DEF DocumentsInv, DocumentTypes, Belong, Exists
    <2>3. runs[r].gen \in Generations
        BY <2>2, RunFields
    <2> QED BY <1>2, <2>1, <2>3
<1>4. ASSUME NEW r \in RunIds, NEW s \in Sessions, Submit(p, r, s) PROVE QueueInv'
    <2>1. CreateRun(r, s) /\ Enqueue(p, r, generation + 1) /\ UNCHANGED <<tasks, accepted, index>>
        BY <1>4 DEF Submit, CreateRun
    <2>2. generation \in 0..MaxGeneration /\ generation < MaxGeneration
        BY <2>1 DEF CreateRun, DocumentsInv, DocumentTypes
    <2>3. generation + 1 \in Generations
        BY <2>2, CloudNumbers DEF Generations
    <2> QED BY <1>2, <2>1, <2>3
<1>5. ASSUME NEW r \in RunIds, NEW old, Cancel(p, r, old) PROVE QueueInv'
    <2> PICK g : g = runs[r].gen
        OBVIOUS
    <2>1. UNCHANGED <<tasks, accepted, index>> /\ Exists(r)
        BY <1>5 DEF Cancel, FlagRun, documents
    <2>2. Plain
        BY <2>1, SameQueueIsPlain
    <2>3. CASE /\ runs'[r].state = "cancelled"
               /\ Become(p, [Idle EXCEPT !.step = "listing", !.run = r, !.gen = g])
        <3>1. runs[r] \in Runs
            BY <2>1 DEF DocumentsInv, DocumentTypes, Exists
        <3>2. g \in 0..MaxGeneration /\ "listing" \in AllSteps \ (MakingSteps \cup EnqueueSteps)
            BY <3>1, RunFields, CloudNumbers DEF Generations, AllSteps, RemovalSteps,
                MakingSteps, EnqueueSteps
        <3>3. Moved(p, "listing", r, g, NoTask, NoItem, "answer")
            BY <2>3, <3>2, Starting
        <3>4. ~Wanted(r, g)'
            BY <2>3 DEF Wanted, Over, TerminalStates
        <3> QED BY <2>2, <3>2, <3>3, <3>4, PlainMoveKeepsQueue
    <2> QED BY <1>5, <2>2, <2>3, StandingKeepsQueue DEF Cancel
<1> QED BY <1>3, <1>4, <1>5, EnqueueingKeepsQueue, RemovingKeepsQueue DEF Request

\* A delivery goes on: to the removal of its item only if the run is not wanted.
LEMMA GoingOnKeepsQueue ==
    ASSUME DocumentsInv, HandlersInv, QueueInv, DocumentStep, NEW p \in Procs, NEW h, h = procs[p],
           UNCHANGED <<tasks, accepted, index>>,
           NEW step \in DeliverySteps \cup {"listing", "discarding"}, NEW then,
           Moved(p, step, h.run, h.gen, h.task, h.item, then),
           step \in {"listing", "discarding", "cancelling"} => ~Wanted(h.run, h.gen)'
    PROVE  QueueInv'
<1>1. step \notin MakingSteps \cup EnqueueSteps
    BY DEF DeliverySteps, MakingSteps, EnqueueSteps
<1>2. step \in RemovalSteps \cup {"cancelling"} => step \in {"listing", "discarding", "cancelling"}
    BY DEF DeliverySteps, RemovalSteps
<1>3. step \notin {"indexing", "repairing", "parent", "checking"}
    BY <1>1 DEF MakingSteps, EnqueueSteps
<1>4. Plain
    BY SameQueueIsPlain
<1> QED BY <1>1, <1>2, <1>3, <1>4, PlainMoveKeepsQueue

LEMMA DeliverKeepsQueue ==
    ASSUME DocumentsInv, HandlersInv, QueueInv, DocumentStep, NEW p \in Procs,
           NEW n \in TaskNames, Deliver(p, n)
    PROVE  QueueInv'
<1> PICK r, g : r = tasks[n].run /\ g = tasks[n].gen
    OBVIOUS
<1>1. /\ tasks[n] # NoTask /\ UNCHANGED <<tasks, accepted, index>>
      /\ Become(p, [Idle EXCEPT !.step = "admitting", !.run = r, !.gen = g, !.task = n])
    BY DEF Deliver, documents
<1>2. r \in RunIds /\ g \in 0..MaxGeneration
    BY <1>1, CloudNumbers DEF HandlersInv, Generations
<1>3. "admitting" \in AllSteps \ (MakingSteps \cup RemovalSteps \cup EnqueueSteps)
    BY DEF AllSteps, DeliverySteps, MakingSteps, RemovalSteps, EnqueueSteps
<1>4. Moved(p, "admitting", r, g, n, NoItem, "answer")
    BY <1>1, <1>2, <1>3, Starting
<1>5. QueueStep({p})
    BY <1>1, <1>3, <1>4, SameQueueIsPlain, PlainStep
<1>6. CarriesAtMost(n, r, g)'
    BY <1>1 DEF CarriesAtMost
<1>7. PICK k : k = procs'[p]
    OBVIOUS
<1>8. k.step = "admitting" /\ k.run = r /\ k.gen = g /\ k.task = n /\ k.item = NoItem
    BY <1>4, <1>7 DEF Moved
<1>9. Knows(k)'
    BY <1>3, <1>6, <1>8 DEF Knows
<1> QED BY <1>5, <1>7, <1>9, QueueKept

LEMMA DeliveryKeepsQueue ==
    ASSUME DocumentsInv, HandlersInv, QueueInv, DocumentStep, NEW p \in Procs, Delivery(p)
    PROVE  QueueInv'
<1> PICK h : h = procs[p]
    OBVIOUS
<1> DEFINE run == runs[h.run]
<1>1. UNCHANGED <<accepted, index>>
    BY DEF Delivery, Deliver, Admit, Inspect, Claim, Heartbeat, WriteCancellation, WriteResult,
        documents, ClaimRun, RenewRun, UpdateRun
<1>2. ASSUME h.step \in DeliverySteps
      PROVE  /\ h.run \in RunIds /\ h.gen \in Nat /\ h.gen <= generation
             /\ run # NoRun => run.version \in Versions
             /\ run # NoRun /\ run.lease # NoLease => run.lease.attempt \in Versions
    <2>1. h.run \in RunIds /\ h.gen \in Nat /\ h.gen <= generation
        BY <1>2, SoundHandler, HandlerFacts
    <2>2. run # NoRun => run.version \in Versions /\ run.lease \in Leases \cup {NoLease}
        <3>1. run # NoRun => run \in Runs
            BY <2>1 DEF DocumentsInv, DocumentTypes
        <3> HIDE DEF run
        <3> QED BY <3>1, RunFields
    <2> HIDE DEF run
    <2> QED BY <2>1, <2>2 DEF Leases
<1>3. ASSUME h.step \in DeliverySteps, ~Wanted(h.run, h.gen) PROVE ~Wanted(h.run, h.gen)'
    BY <1>2, <1>3, NothingIsWantedAgain
<1>4. ASSUME UNCHANGED tasks, UNCHANGED procs \/ Become(p, Idle) PROVE QueueInv'
    BY <1>1, <1>4, SameQueueIsPlain, StandingKeepsQueue, FinishingKeepsQueue
<1>5. ASSUME UNCHANGED tasks, NEW then \in {"answer", "ack"}, CleanUp(p, then),
             ~Wanted(h.run, h.gen)'
      PROVE  QueueInv'
    <2>1. Moved(p, "listing", h.run, h.gen, h.task, h.item, then)
        BY <1>5, Delivering DEF AllSteps
    <2> QED BY <1>1, <1>5, <2>1, GoingOnKeepsQueue
<1>6. DeliverySteps \cup {"discarding"} \subseteq AllSteps
    BY DEF AllSteps, RemovalSteps
<1>7. ASSUME NEW granted \in BOOLEAN, Admit(p, granted) PROVE QueueInv'
    <2>1. Become(p, [h EXCEPT !.step = "claiming", !.allowed = granted]) /\ UNCHANGED tasks
        BY <1>7 DEF Admit
    <2>2. "claiming" \in DeliverySteps
        BY DEF DeliverySteps
    <2>3. Moved(p, "claiming", h.run, h.gen, h.task, h.item, h.then)
        BY <1>6, <2>1, <2>2, Delivering DEF Went
    <2> QED BY <1>1, <2>1, <2>2, <2>3, GoingOnKeepsQueue
<1>8. ASSUME NEW old, Claim(p, old) PROVE QueueInv'
    <2>1. h.step \in DeliverySteps /\ UNCHANGED tasks /\ "executing" \in DeliverySteps
        BY <1>8 DEF Claim, At, Refuse, DeliverySteps
    <2>2. \/ Become(p, Idle)
          \/ /\ run # NoRun
             /\ Become(p, [h EXCEPT !.step = "executing", !.allowed = FALSE,
                                    !.attempt = run.version])
          \/ /\ ClaimAnswer(run, h.gen, old)
                    \in {"stale", "terminal", "not_found", "cancellation_requested"}
             /\ Become(p, [h EXCEPT !.step = "discarding", !.then = "ack", !.allowed = FALSE])
        BY <1>8, ClaimAnswers DEF Claim, Refuse
    <2>3. CASE /\ run # NoRun
               /\ Become(p, [h EXCEPT !.step = "executing", !.allowed = FALSE,
                                      !.attempt = run.version])
        <3>1. run.version \in Versions
            BY <1>2, <2>1, <2>3
        <3>2. Moved(p, "executing", h.run, h.gen, h.task, h.item, h.then)
            BY <1>6, <2>1, <2>3, <3>1, Delivering DEF Went
        <3> QED BY <1>1, <2>1, <3>2, GoingOnKeepsQueue
    <2>4. CASE /\ ClaimAnswer(run, h.gen, old)
                      \in {"stale", "terminal", "not_found", "cancellation_requested"}
               /\ Become(p, [h EXCEPT !.step = "discarding", !.then = "ack", !.allowed = FALSE])
        <3>1. Moved(p, "discarding", h.run, h.gen, h.task, h.item, "ack")
            BY <1>6, <2>4, Delivering
        <3>2. ~Wanted(h.run, h.gen)
            BY <2>4, ClaimAnswers DEF Wanted, Exists
        <3> QED BY <1>1, <1>3, <2>1, <3>1, <3>2, GoingOnKeepsQueue
    <2> QED BY <1>4, <2>1, <2>2, <2>3, <2>4
<1>9. ASSUME h.step \in DeliverySteps, UNCHANGED tasks, run # NoRun,
             \/ Become(p, [h EXCEPT !.step = "writing", !.version = run.version])
             \/ /\ run.flagged
                /\ \/ Become(p, [h EXCEPT !.step = "cancelling", !.version = run.version])
                   \/ /\ run.lease # NoLease
                      /\ \/ Become(p, [h EXCEPT !.step = "cancelling", !.version = run.version,
                                                !.attempt = run.lease.attempt])
                         \/ Become(p, [h EXCEPT !.step = "cancelling", !.version = run.version,
                                                !.attempt = run.lease.attempt, !.then = "ack"])
      PROVE  QueueInv'
    <2>1. run.version \in Versions /\ (run.lease # NoLease => run.lease.attempt \in Versions)
        BY <1>2, <1>9
    <2>2. run.flagged => ~Wanted(h.run, h.gen)'
        BY <1>3, <1>9 DEF Wanted
    <2>3. {"cancelling", "writing"} \subseteq DeliverySteps
        BY DEF DeliverySteps
    <2> HIDE DEF run
    <2>4. \/ Moved(p, "writing", h.run, h.gen, h.task, h.item, h.then)
          \/ /\ run.flagged
             /\ \E then \in {h.then, "ack"} :
                    Moved(p, "cancelling", h.run, h.gen, h.task, h.item, then)
        BY <1>6, <1>9, <2>1, <2>3, Delivering DEF Went
    <2> QED BY <1>1, <1>9, <2>2, <2>3, <2>4, GoingOnKeepsQueue
<1>10. ASSUME NEW old, Heartbeat(p, old) PROVE QueueInv'
    <2>1. h.step \in DeliverySteps /\ UNCHANGED tasks
        BY <1>10 DEF Heartbeat, At, Refuse, DeliverySteps
    <2>2. \/ UNCHANGED procs \/ Become(p, Idle)
          \/ RenewAnswer(run, h.attempt, old) = "terminal" /\ CleanUp(p, "ack")
          \/ /\ RenewAnswer(run, h.attempt, old) = "cancellation_requested"
             /\ Become(p, [h EXCEPT !.step = "cancelling", !.version = run.version,
                                    !.attempt = run.lease.attempt, !.then = "ack"])
        BY <1>10 DEF Heartbeat, Refuse
    <2>3. RenewAnswer(run, h.attempt, old) = "terminal" => ~Wanted(h.run, h.gen)'
        BY <1>3, <2>1, OwnerAnswers DEF Wanted
    <2>4. ASSUME RenewAnswer(run, h.attempt, old) = "cancellation_requested"
          PROVE  run # NoRun /\ run.flagged /\ run.lease # NoLease
        <3>1. run # NoRun /\ ~Over(run) /\ run.flagged
            BY <2>4, OwnerAnswers
        <3> QED BY <1>2, <2>1, <3>1 DEF DocumentsInv, RunsAreSound, Exists, Told
    <2> QED BY <1>4, <1>5, <1>9, <2>1, <2>2, <2>3, <2>4
<1>11. CASE Inspect(p)
    <2>1. h.step \in DeliverySteps /\ UNCHANGED tasks
        BY <1>11 DEF Inspect, At, Refuse, DeliverySteps
    <2>2. \/ Become(p, Idle)
          \/ (run = NoRun \/ Over(run)) /\ CleanUp(p, "answer")
          \/ /\ run # NoRun
             /\ \/ /\ run.flagged /\ run.lease # NoLease
                   /\ Become(p, [h EXCEPT !.step = "cancelling", !.version = run.version,
                                          !.attempt = run.lease.attempt])
                \/ Become(p, [h EXCEPT !.step = "writing", !.version = run.version])
        BY <1>11 DEF Inspect, Refuse
    <2>3. run = NoRun \/ Over(run) => ~Wanted(h.run, h.gen)'
        BY <1>3, <2>1 DEF Wanted, Exists
    <2> QED BY <1>4, <1>5, <1>9, <2>1, <2>2, <2>3
<1>12. ASSUME h.step \in DeliverySteps, NEW next \in {"completed", "failed", "cancelled"},
              NEW payload, NEW old, UpdateRun(h.run, h.version, next, payload, h.attempt, old)
       PROVE  ~Wanted(h.run, h.gen)'
    <2>1. runs'[h.run].state = next
        BY <1>2, <1>12, UpdateIsLogged
    <2> QED BY <2>1 DEF Wanted, Over, TerminalStates
<1>13. ASSUME NEW next, NEW payload, NEW old, WriteResult(p, next, payload, old)
       PROVE  QueueInv'
    <2>1. h.step \in DeliverySteps /\ UNCHANGED tasks /\ next \in {"completed", "failed"}
        BY <1>13 DEF WriteResult, At, Refuse, DeliverySteps
    <2>2. \/ /\ UpdateRun(h.run, h.version, next, payload, h.attempt, old)
             /\ CleanUp(p, "ack")
          \/ Become(p, Idle)
          \/ Over(run) /\ CleanUp(p, "answer")
          \/ /\ run # NoRun /\ run.flagged
             /\ Become(p, [h EXCEPT !.step = "cancelling", !.version = run.version])
        BY <1>13 DEF WriteResult, Refuse
    <2>3. Over(run) => ~Wanted(h.run, h.gen)'
        BY <1>3, <2>1 DEF Wanted
    <2> QED BY <1>4, <1>5, <1>9, <1>12, <2>1, <2>2, <2>3
<1>14. ASSUME NEW old, WriteCancellation(p, old) PROVE QueueInv'
    <2>1. h.step = "cancelling" /\ h.step \in DeliverySteps
        BY <1>14 DEF WriteCancellation, At, DeliverySteps
    <2>2. CASE Answered(p, tasks)
        BY <1>1, <2>1, <2>2, AnsweringKeepsQueue
    <2>3. CASE /\ UNCHANGED tasks /\ CleanUp(p, h.then)
               /\ \/ UpdateRun(h.run, h.version, "cancelled", NoPayload, h.attempt, old)
                  \/ Over(run)
        <3>1. h.then \in {"answer", "ack"}
            BY SoundHandler DEF Handlers
        <3>2. Over(run) => ~Wanted(h.run, h.gen)'
            BY <1>3, <2>1 DEF Wanted
        <3> QED BY <1>5, <1>12, <2>1, <2>3, <3>1, <3>2
    <2> QED BY <1>14, <2>2, <2>3 DEF WriteCancellation
<1> QED BY <1>7, <1>8, <1>10, <1>11, <1>13, <1>14, DeliverKeepsQueue DEF Delivery

\* A deletion takes documents only.
LEMMA DeletionKeepsQueue ==
    ASSUME DocumentsInv, HandlersInv, QueueInv, DocumentStep, NEW p \in Procs, Deletion(p)
    PROVE  QueueInv'
<1> PICK h : h = procs[p]
    OBVIOUS
<1>1. UNCHANGED tasks
    BY DEF Deletion, Delete, NextChild, Purge, Remove, Finish
<1>2. \A r \in RunIds : accepted'[r] \in {accepted[r], 0}
    <2>1. UNCHANGED accepted \/ accepted' = [accepted EXCEPT ![h.run] = 0]
        BY DEF Deletion, Delete, NextChild, Purge, Remove, Finish
    <2> QED BY <2>1 DEF HandlersInv
<1>3. \A r \in RunIds : index'[r] \in {index[r], NoItem}
    <2>1. UNCHANGED index \/ index' = [index EXCEPT ![h.run] = NoItem]
        BY DEF Deletion, Delete, NextChild, Purge, Remove, Finish, documents, PurgeEvents,
            PurgeItem, RemoveRun, PurgeReflections, RemoveSession
    <2> QED BY <2>1 DEF DocumentsInv, DocumentTypes
<1>4. Plain
    BY <1>1, <1>2, <1>3 DEF Plain
<1>5. ASSUME NEW step \in DeletionSteps, GoTo(p, step) PROVE QueueInv'
    <2>1. step \in AllSteps \ (MakingSteps \cup RemovalSteps \cup EnqueueSteps \cup {"cancelling"})
        BY DEF AllSteps, DeletionSteps, MakingSteps, RemovalSteps, EnqueueSteps
    <2>2. step \notin {"indexing", "repairing", "parent", "checking"}
        BY DEF DeletionSteps
    <2>3. Moved(p, step, h.run, h.gen, h.task, h.item, h.then)
        BY <1>5, <2>1, GoingOn DEF Went
    <2> QED BY <1>4, <2>1, <2>2, <2>3, PlainMoveKeepsQueue
<1>6. ASSUME NEW r \in RunIds, Become(p, [Idle EXCEPT !.step = "purging_events", !.run = r])
      PROVE  QueueInv'
    <2>1. "purging_events" \in AllSteps \ (MakingSteps \cup RemovalSteps \cup EnqueueSteps)
        BY DEF AllSteps, DeletionSteps, MakingSteps, RemovalSteps, EnqueueSteps
    <2>2. Moved(p, "purging_events", r, 0, NoTask, NoItem, "answer")
        BY <1>6, <2>1, Starting
    <2> QED BY <1>4, <2>1, <2>2, PlainMoveKeepsQueue
<1>7. \/ \E step \in DeletionSteps : GoTo(p, step)
      \/ \E r \in RunIds : Become(p, [Idle EXCEPT !.step = "purging_events", !.run = r])
      \/ UNCHANGED procs \/ Become(p, Idle)
    BY DEF Deletion, Delete, NextChild, Purge, Remove, Finish, DeletionSteps, RunsOf
<1> QED BY <1>4, <1>5, <1>6, <1>7, StandingKeepsQueue, FinishingKeepsQueue

\* A task the queue gives up was its run's last chance, unless the document has another.
LEMMA GiveUpKeepsQueue ==
    ASSUME DocumentsInv, HandlersInv, QueueInv, DocumentStep, NEW n \in TaskNames, GiveUp(n)
    PROVE  QueueInv'
<1> PICK r : r = tasks[n].run
    OBVIOUS
<1>1. /\ tasks[n] # NoTask /\ UNCHANGED <<index, procs>>
      /\ \A q \in Procs : /\ procs[q].task # n
                          /\ procs[q].run = r => procs[q].step \notin EnqueueSteps
      /\ tasks' = [tasks EXCEPT ![n] = NoTask]
      /\ accepted' = [accepted EXCEPT
             ![r] = IF index[r] = NoItem \/ index[r].task = n THEN 0 ELSE @]
    BY DEF GiveUp, documents
<1>2. r \in RunIds
    BY <1>1 DEF HandlersInv
<1>3. Abandoned(n)
    BY <1>1, <1>2 DEF Abandoned, HandlersInv
<1>4. \A m \in TaskNames : tasks'[m] = tasks[m] \/ Goes(m, {})
    BY <1>1, <1>3 DEF HandlersInv, Goes
<1>5. \A q \in RunIds : accepted'[q] = 0 \/ accepted'[q] = accepted[q]
    BY <1>1 DEF HandlersInv
<1>6. QueueStep({})
    BY <1>1, <1>4, <1>5 DEF QueueStep
<1> QED BY <1>6, QueueKept

LEMMA NextKeepsQueue ==
    ASSUME DocumentsInv, HandlersInv, QueueInv, Next, ~InDoubt
    PROVE  QueueInv'
<1>1. DocumentStep
    BY NextIsAStep
<1>2. ASSUME NEW p \in Procs, Crash(p) PROVE QueueInv'
    BY <1>1, <1>2, SameQueueIsPlain, FinishingKeepsQueue DEF Crash, documents
<1>3. ASSUME \/ \E r \in RunIds : Expire(r)
             \/ \E s \in Sessions : DeleteMemory(s) \/ Open(s)
      PROVE  QueueInv'
    <2>1. UNCHANGED <<queueVars, index>>
        BY <1>3 DEF Expire, DeleteMemory, Open, PurgeReflections, PutSession, queueVars
    <2> QED BY <1>1, <2>1, SameQueueIsPlain, StandingKeepsQueue DEF queueVars
<1> QED BY <1>1, <1>2, <1>3, RequestKeepsQueue, DeliveryKeepsQueue, DeletionKeepsQueue,
        GiveUpKeepsQueue DEF Next

LEMMA QueueStarts == Init => QueueInv
<1> SUFFICES ASSUME Init PROVE QueueInv
    OBVIOUS
<1>1. /\ \A r \in RunIds : runs[r] = NoRun /\ index[r] = NoItem
      /\ \A p \in Procs : procs[p] = Idle
    BY DEF Init, StoreInit, QueueInit
<1>2. "idle" \notin RemovalSteps \cup MakingSteps
    BY DEF RemovalSteps, MakingSteps
<1>3. IndexIsKept /\ MakersDiffer /\ \A r \in RunIds : Fulfilled(r)
    BY <1>1, <1>2, IdleIsAHandler DEF IndexIsKept, MakersDiffer, Making, Fulfilled, Wanted, Exists
<1>4. Knows(Idle)
    BY <1>2, IdleIsAHandler DEF Knows
<1> QED BY <1>1, <1>3, <1>4 DEF QueueInv

\* What keeps an accepted run dispatched (enqueue, discard and cancel together with the
\* deliveries, deletions and stops that come between their calls).
THEOREM QueueInvariance == ~InDoubt => (Spec => [](CloudInv /\ QueueInv))
<1> SUFFICES ASSUME ~InDoubt PROVE Spec => [](CloudInv /\ QueueInv)
    OBVIOUS
<1>1. Init => CloudInv /\ QueueInv
    BY CloudStarts, QueueStarts
<1>2. CloudInv /\ QueueInv /\ [Next]_vars => CloudInv' /\ QueueInv'
    <2> SUFFICES ASSUME CloudInv, QueueInv, [Next]_vars PROVE CloudInv' /\ QueueInv'
        OBVIOUS
    <2>1. CASE UNCHANGED vars
        <3>1. UNCHANGED <<runs, index, tasks, procs, accepted>>
            BY <2>1 DEF vars, documents, queueVars
        <3>2. IndexIsKept' /\ MakersDiffer'
            BY <3>1 DEF QueueInv, IndexIsKept, MakersDiffer, CarriesAtMost, Settled, Making
        <3>3. \A p \in Procs : Knows(procs[p])'
            BY <3>1 DEF QueueInv, Knows, CarriesAtMost, Settled, Making, Wanted, Exists, Over,
                Carries
        <3>4. \A r \in RunIds : Fulfilled(r)'
            BY <3>1 DEF QueueInv, Fulfilled, Dispatched, Settled, Making, Wanted, Exists, Over,
                Carries
        <3> QED BY <2>1, <3>2, <3>3, <3>4, CloudStays DEF QueueInv
    <2>2. CASE Next
        BY <2>2, CloudStays, NextKeepsQueue DEF CloudInv
    <2> QED BY <2>1, <2>2
<1> QED BY <1>1, <1>2, PTL DEF Spec

\* Once a submission was answered its run has a cloud task until it is over, its
\* cancellation was asked for or the queue gave the task up; unless a call that took effect
\* may be reported as failed (CloudTasksWorkQueue.enqueue).
THEOREM WorkStaysDispatched == ~InDoubt => (Spec => []WorkIsDispatched)
<1> SUFFICES ASSUME ~InDoubt PROVE Spec => []WorkIsDispatched
    OBVIOUS
<1>1. CloudInv /\ QueueInv => WorkIsDispatched
    BY DEF QueueInv, Fulfilled, Wanted, Dispatched, WorkIsDispatched
<1>2. Spec => [](CloudInv /\ QueueInv)
    BY QueueInvariance
<1> QED BY <1>1, <1>2, PTL

=============================================================================

# Verification of the research agent platform

TLA+ models, TLC runs and TLAPS proofs for the research agent platform of this
repository: the API that accepts runs and executes them exactly as promised through
crashes, cancellations and expired leases (task 2), over SQLite and over Firestore and
Cloud Tasks, and the search agent that executes them (task 1). Paths below are relative
to `task-02-agent-api/src/agent_api/`, or with `agent:` in front to
`task-01-search-agent/src/search_agent/`; `docs/` is `task-02-agent-api/docs/`.

Contents: [inventory](#inventory), [plan](#plan), [modules](#modules-and-code),
[runs](#runs-and-bounds), [fairness](#fairness), [proofs](#proofs),
[disagreements](#disagreements-with-the-documents),
[observations](#observations), [not modelled](#what-is-not-modelled-and-why).

## Inventory

The repository has six packages. Tasks 1 to 3 form one platform: task 1 is the
research agent (one bounded asyncio task per run), task 2 the API and its durable
control plane, task 3 the deployment. Tasks 4 to 6 are separate data-science packages
(statistics, text similarity, a threshold function), sequential and without shared
state; they are listed in `PROJECT.json` and not modelled.

| Component | State | Operations | What makes it correct |
|---|---|---|---|
| Run repository (`storage/repositories.py`, `ports.py`) | `runs`, `run_events`, `idempotency_records`, `run_reflections`, `sessions` | create, claim, renew_lease, compare_and_set, request_cancellation, delete; one `BEGIN IMMEDIATE` transaction each | a run ends once, in a state and with a result that go together; leases do not overlap; a requested cancellation is honoured; rows, events and keys agree; nothing outlives its session |
| Work queue (same file) | `work_items` with a visibility time | enqueue, receive, discard, cancel | no item without its run, no run to be executed without its item |
| Local worker (`workers/local.py`, `lifecycle.py`) | the delivery in hand: item, row last seen, lease, outcome | one await after the other: receive, claim, execute and renew, inspect, write, discard | one execution at a time; results come from the lease holder; work survives crashes |
| Run service (`services/runs.py`) | requests under way | submit: admit, create, enqueue; cancel: flag, dequeue | requests in several transactions leave a repairable state |
| Sessions (`services/sessions.py`) | `sessions` | create, list by pages, delete (cascades) | a listing is complete and in order; nothing is left of a deleted session |
| Migrations (`storage/schema.py`, `migrations/`) | `schema_migrations` and every table | migrate, next to the command line that opens the same file | a file is wholly at one schema; no version number comes back |
| Quota admission (`security/limits.py`) | `quota_run_admissions` | admit_run, release_run | the day's budget and the queue's length hold; work is charged once |
| Quota leases and rate limit (`limits.py`, `cloud_state.py`) | token buckets, execution and stream leases | acquire, renew, release, expiry | no more permits than the limit; who was told it holds one does |
| Cloud ledger (`cloud_state.py`) | units of the day, pending admissions | admit_run, release_run | the ledger is the sum of its charges |
| API keys (`security/auth.py`, `key_admin.py`) | `api_key_hashes`, the file of a new key | create, rotate, revoke, publish | one successor at most; a failed publication leaves no secret behind |
| Event streams (`services/events.py`, `routes/events.py`) | cursor and batch of each stream | look up, read, send, heartbeat, renew permit | every event once and in order; streams end |
| Firestore repositories (`storage/cloud.py`) | documents of runs, events, items, sessions | the same ports over optimistic transactions; deletion in many of them | the same promise to clients; no orphans |
| Cloud Tasks queue (same file) | an index document and a task per item | enqueue in up to eight rounds, discard, cancel, deliver | an accepted run has a task |
| Reviewed memory (`agent:memory/`) | facts, versions, heads, pointers | propose, review, reopen, activate, delete | no two facts in force contradict each other; numbers are never reused |
| Memory context (`agent:memory/context.py`) | what was read of two stores | four readings | what a run is given was there at one instant |
| Research runner (`agent:runner.py`, `state.py`) | budget ledger, state graph, events | plan, search, fetch, extract, remember, synthesise, report | usage is paid for; stops are obeyed; it ends |
| Tools (`agent:tools/`, `security/`) | attempts, hops, bodies, parser marks, a worker process | search, fetch, extract | only permitted pages; what a page shows; no process left |
| Planner (`agent:planning.py`) | the plan and its repair | ask, repair, validate, reply | plans stay within what was asked |
| Evidence and answers (`agent:retrieval.py`, `evidence.py`, `answering.py`) | chunks, records, quotes, claims | select, build, validate | a claim is backed by a quote of the record it cites |

How they interact: `RunService.submit` calls the limiter, then the repository, then the
queue; each call is a transaction of its own and the process may die, or the request be
cancelled, between any two. `LocalWorker` gets an item from the polled table or from a
delivered cloud task, asks the limiter for a permit, claims the run under a lease, runs
the agent in a task while it renews both, and writes the result, with the reflection of
it, by a compare-and-set on the version it saw. Every write of a run appends its event in
the same transaction; `EventStreamService` polls those rows. Several processes may share
the database, and all of them bear the worker id `worker-local`. The agent reads the
reviewed memory and calls its tools one after the other, each behind a boundary that
checks budget, clock and cancellation before and after.

Hard behaviours, each listed with its line under `hazards` in `PROJECT.json`: leases that
expire under a running executor; clock readings taken before the transaction they are
used in; cancellation racing with completion; crashes between the halves of a request;
redelivery; calls that fail after they took effect; deletion in pieces under writers; an
admission released under a retry; permits that lapse on a silent stream; a file shared by
two programs and three releases; callers between the two halves of a review; an adapter
that never answers; redirects; elements hidden in hidden elements; repairs of a plan.

## Plan

Written, in this order:

1. `RunStore` with its abstract specification `RunPromise`, and proofs.
2. `WorkQueue`, `LocalWorker`, `LocalService` (each extends the one before, down to
   `RunStore`), and proofs.
3. `RunAdmission`, and proofs.
4. `EventLog` (an abstraction of `RunStore`) and `EventStream` on top of it, and proofs.
5. `CloudStore`, `CloudQueue`, `CloudService`: the same service over documents and tasks,
   shown to implement the same `RunPromise`.
6. `ApiKeys`, `CloudQuota`, `KeyPublication`.
7. `FactMemory`, `ProcedureMemory`, `MemoryReader`.
8. `ResearchLedger`, `ResearchRun`, `Reflections`.
9. `SitePolicy`, `WebSearch`, `WebFetch`, `PageBlocks`, `PageExtraction`, `PageText`,
   `Grounding`, `Planner`.
10. `Migrations`, `SessionPages`.

Each part has its theorems, in one module of proofs per deployment or program:
`RunStoreProofs` (1), `LocalServiceProofs` (2 and 10), `RunAdmissionProofs` (3),
`EventStreamProofs` (4), `CloudServiceProofs` (5), `CloudQuotaProofs` (6), `ResearchProofs`
(7, 8 and the `Planner`), `ToolProofs` (the rest of 9).

Every safety invariant and action property that a run checks is also a theorem. What could
come next is what the last section leaves out, and the liveness of the local worker over
an unbounded clock, for which a model and a prover are missing.

## Modules and code

| Module | Models | Correspondence |
|---|---|---|
| `RunStates` | `ports.py` | run states, transitions, and which payload a state may carry |
| `RunStore` | `SQLiteRunRepository`, session deletion | one action per operation that writes; `ClaimDisposition` and its siblings are the early returns, `ClaimedRow` and its siblings the rows written, `Log` the event appended with them. An answer that writes nothing is a stuttering step |
| `RunPromise` | what a client may rely on | abstract: accepted, asked to cancel, ended once with a result, forgotten. `RunStore`'s `PromiseKept` is the refinement |
| `WorkQueue` | `SQLiteWorkQueue` | one item per run (`work-<run id>`), due time as visibility, a cascade from `runs` |
| `LocalWorker` | `LocalWorker.process` | a delivery goes through `Steps`, one per await; `seen` is the row it read last, `lease` the lease it claimed with |
| `LocalService` | `RunService` and the composition | submit and cancel in two halves (`calls` are the second halves), session deletion, the clock |
| `RunAdmission` | `SQLiteQuotaLimiter.admit_run`, `release_run`, `RunService.submit` around them | admission, creation and release are three actions of a submission; `created` is `RunAdmission.created` |
| `EventLog` | the log as a reader may rely on it | abstract: begin, write, drop. `RunStore`'s `LogKept` is the refinement |
| `EventStream` | `EventStreamService`, the streaming route | one action per await of `_stream` and `_limited_stream`; the client resumes with `Last-Event-ID` |
| `CloudStore` | `FirestoreRunRepository`, `FirestoreSessionRepository` | documents; a transaction is an action, a deletion several of them; children are emptied in batches of `BatchSize` |
| `CloudQueue` | `CloudTasksWorkQueue` | an item is an index document and a task of a random name; every call and transaction of enqueue, discard and cancel is a step, and with `InDoubt` a call may take effect and be reported as failed |
| `CloudService` | requests, deliveries and deletions over the two | handlers `procs` that may stop between any two calls; a task is delivered at least once, and to several handlers at a time. `CloudPromiseKept` is the refinement of `RunPromise` |
| `ApiKeys` | `ApiKeyManager` over its repository | a rotation reads in one step and commits in another |
| `CloudQuota` | `FirestoreQuotaLimiter` | an acquisition reads leases in one step and commits in another, when what it read must be as it was (`Undisturbed`); the guard document makes two of them conflict |
| `KeyPublication` | `_write_plaintext_file` and its cleanup | one step per call of the operating system, each of which may fail, while other programs move files (`Meddle`) |
| `FactMemory` | `SQLiteSemanticFactRepository` | rows with their columns and their payload; reopening reads in one step and writes in another |
| `ProcedureMemory` | the two procedure repositories | propose, review and activate in two halves under the lock in memory; in one transaction, with the checks of all rows first, in SQLite |
| `MemoryReader` | `RepositoryReviewedMemoryReader` | four readings, with the writers of both stores in between |
| `ResearchLedger`, `ResearchRun` | `ResearchRunner`, `_Ledger`, `RunStateGraph` | a call of an adapter is begun, launched and answered; `pc` is the stage and which of the three comes next; `OuterSnapshot` is what a run that is stopped reports |
| `Reflections` | `reflect_run`, `_projection_from_result` | what the worker stores for each result a run may report; EXTENDS `ResearchRun` |
| `SitePolicy`, `WebSearch`, `WebFetch` | site rules, search sweeps, guarded fetch | one step per backend asked, per resolution, connection and piece of a body |
| `PageBlocks`, `PageExtraction` | the two parsers; the worker process | the parsers are fed a well nested page tag by tag, whose tree is a history; the process may hang, die or answer anything while its caller is cancelled |
| `PageText`, `Grounding` | chunks, selection, records, answers | texts are short sequences of characters, since what is quoted where words begin and end is the point |
| `Planner` | `QueryPlanner`, the scope policies | drafts are screened, routed, replaced, validated; texts are sets of words |
| `Migrations` | `migrate`, and the memory of the command line in the same file | one step per migration within the transaction, one per table outside of one; any release that knows the ledger may open the file |
| `SessionPages` | `SessionService` | creations in two halves, deletions in two halves, a client that reads page after page |
| `MCTools`, `MC*` | | small inputs and symmetry sets for TLC. Parts that share nothing are composed by a `focus` that each behaviour keeps, so that their state spaces are added, not multiplied |
| `*Proofs` | | theorems |

The names in `PROJECT.json` under `map` give the lines of each definition.

Abstractions that hold everywhere: one tenant (every statement carries the tenant);
texts, ids and hashes are model values; ids drawn at random are fresh because nobody
remembers them (`Fresh`, `FreshLease`), which lets a finite set stand for an endless
supply; SQLite's `BEGIN IMMEDIATE` makes a transaction one action. A clock reading is
taken before its transaction, so it may be up to `Delay` old when it is used.
In `RunStore` a caller may come with any reading at all.

Choices a reader should know of:

- The limiter is, for `LocalWorker`, its answers: a permit granted or not, renewed or not.
- Exceptions that escape `process()` end `run_forever`, and with it the application
  (`worker_lifespan`); they are `Crash`, like a kill or a shutdown past its deadline.
  One of them is `claim` raising when its reading precedes the row's last write.
- Items without a generation, which an older schema may have left, are discarded unread.
- `SQLiteEventRepository.append` and the repository's `delete_tenant` and
  `delete_session` have no caller in the local service and no action; `DeleteRun` is
  there because the cloud adapter and tests use it, and it leaves the run's reflection.
- `EventStream` keeps of a permit one bit, `barred`: after its lease has expired or its
  key was revoked, no renewal succeeds. Permits themselves are in `CloudQuota`.
- In `EventStream` a run id is reused only when no client remembers it; the service draws
  128 random bits.
- `CloudQuota` follows the Firestore limiter, where reads and writes can come apart. The
  SQLite limiter does the same within one write transaction, so its behaviours are those
  in which nothing comes between the two halves.
- In `CloudStore` a lease is the attempt that took it and whether it still runs; a caller
  with an old clock reading takes a lease that ran out for one that runs.
- In `Migrations` a release older than the eighth migration opens no file in which the
  command line has made the table of version heads, which came with that migration.
- In `NoContradiction` the approvals of a key come in the order of their instants; see
  [observations](#observations).
- The parts of the agent are checked apart from one another: the run takes any answer an
  adapter may give, and the tools, the memory, the planner and the evidence are each
  checked against anything their callers may ask.

## Runs and bounds

| Run | States | What it asks |
|---|---|---|
| `store_life` | 70 thousand | Every interleaving of the operations on one run, and short-lived runs that share keys and sessions: are rows valid, logs faithful, leases disjoint, the tables consistent with one another, and does a client see `RunPromise` |
| `service` | 884 thousand | Two processes over one database, requests in halves, crashes, stale readings: is work lost, doubled, or ended by the wrong process. Releases and the command line in one file: is it sound. Sessions created and deleted under a listing: is it complete |
| `admission` | 825 thousand | Two submissions at a time over three keys: budget, queue length and charges |
| `event_stream` | 104 thousand | Two clients of one run: is anything lost, repeated or never delivered, does every stream end |
| `cloud` | 1.3 million | Handlers that stop between any two calls over documents and tasks: has an accepted run its task, is anything left of a deleted run, is a log whole, does a client see `RunPromise` |
| `access` | 982 thousand | Administrators, replicas, late readings, file operations that fail: are keys succeeded by one key, permits exclusive, streams cut with their keys, requests rationed, the ledger right, secrets where they belong |
| `research` | 877 thousand | One run of the agent and each thing it calls: is usage paid for, are stops obeyed, does it end, can its result be stored; is the memory sound and read as it was; are pages permitted and read right, answers grounded, plans in scope |
| `service_stranded`, `service_holder`, `admission_charge`, `cloud_lost`, `research_small_talk` | until violated | sentences of the documents that the code does not keep, [below](#disagreements-with-the-documents) |

Why the bounds are enough:

- `store_life`: a behaviour is about one life or about the tables. Two leases give a
  hand-over and a late holder; four instants let a lease of length two expire and be taken
  over; five versions allow claim, renewal, take-over, cancellation and end; two
  generations let the run be deleted and come back. An inconsistency of the tables needs
  two rows that share a key, an id or a session, and a third generation is a reuse after
  a deletion; those runs live long enough to be claimed and to end.
- `service`: the hazards are between two processes and one run; three leases are one
  each and one for a blocked claim or a redelivery. One process more adds no new pair.
  Releases of five, seven and eight migrations stand before, on and after the migrations
  that take the memory over (six to eight); two sessions of one tenant and two version
  numbers let a number be given out, erased and asked for again. Three sessions, two
  handlers and pages of one row put a cursor on a row that is deleted, and a creation
  with an old instant before it.
- `admission`: a budget of three units at two per run exercises the boundary, a queue of
  one the other; four instants make two days and two pending windows that do not
  coincide; one key belongs to a run that precedes accounting.
- `event_stream`: batches of two with up to four events make full, partial and empty
  batches, and a boundary between them; the run may be deleted and begin again.
- `cloud`: two handlers of any kind at a time and two task names: a task and its
  replacement. Two generations, three versions, deletion in batches of two with a run of
  three events, so that a deletion takes several batches. Two rounds of an enqueue stand
  for the eight of the code: a round that is contended, and the last one.
- `access`: a limit of one permit, two replicas, terms of two instants; a clock of five
  with readings up to one late; a day of two instants; three keys, so that two rotations
  have a successor each. A file is moved three times, cleaned up in two rounds (32 in the
  code).
- `research`: two searches of two hits, one page at a time, two attempts to synthesise;
  budgets that the last page, the last call or the last token exceeds; answers of two
  claims and of seventeen, one more than a reflection holds. Three facts of one
  conflict key: the newcomer and two rivals, of which `LIMIT 1` shows one. Two versions
  of a procedure and two callers. The tools are given inputs that take every branch:
  `MCTools` names them.

`CHECK_DEADLOCK` is off where the system may stop: the clock of the model ends (`service`,
`admission`, `access`), a run and each of its tools are over (`research`), or all tasks of
a finished run are gone (`cloud`). It is on in the others. The bounds are in the guards
(`MaxVersion`, `MaxGeneration`, `LastInstant`, `MaxEvents`, `MaxRounds`, `MaxTime`,
`Meddlings`, `Rounds`, `MaxTags`, `MaxCancels`, `LastNumber`, `LastCreation`); theorems
hold for every value of those of their modules.

Each property of a passing run has a mutant: a definition changed as a plausible bug
would change it (a dropped guard, an expired lease accepted, a read that is not
repeated), under which TLC finds the property violated.

## Fairness

`EventStream`: `WF_vars(Serve(c))`: the event loop keeps running a stream that can run,
each of its awaits returns (the reads are local database reads, the sleep a quarter of a
second), and a client that takes no data is cut, which is the action `Cut` and needs no
fairness. `SF_vars(HeartBeat(c))`: a stream that is idle again and again sends heartbeats
again and again, since idle time adds up to the fifteen seconds between two of them; weak
fairness would let the stream pause for ever instead. Nothing is assumed of the run, its
writer, or of clients.

`ResearchRun`: `WF_runVars(Runner)`, the event loop keeps running a run that can run, and
`WF_runVars(TimeOut)`, a time-out that is set goes off in the end (`asyncio.wait_for`,
`agent:runner.py:1466`). Nothing is assumed of adapters, which may never answer, or of the
clock of the ledger, which may stand still; what is assumed of an adapter is that it yields to the
event loop, without which no time-out of it can go off. In `MCResearch` the
behaviours about other parts than the run are not fair to it, and `EveryRunEnds` says
nothing of them.

No fairness is assumed of the worker, and no liveness is claimed for it: time is
bounded there, so a run may be left waiting when the clock stops.

## Proofs

TLAPS checks, for every number of runs, keys, sessions, processes and clients, every
clock and every bound. In each module there is one lemma per action and one theorem per
property; an invariant named here is shown to hold at first, to be kept by every action,
and to imply what is said to follow from it.

**`RunStoreProofs`.** The inductive invariant `StoreInv` joins the type invariant, the
validator of a row, the log of a row and the agreement of the tables. It is needed
because the validator alone is not inductive: that a terminal row has no lease, that a
queued row was never written, and that a log's last event is the row's state are facts
which the next write relies on. One lemma per operation shows what the operation may do
to a row; the action properties follow from these. `ImplementsPromise` and
`ImplementsEventLog` show that every step maps to a step, or a stutter, of the abstract
specifications.

**`LocalServiceProofs`.** Every step of the service is a step of the store or leaves it
alone (`ServiceUsesTheStore`), so all theorems of the store hold of the service. The
invariant `ServiceInv` says what a delivery may believe: an executing process has its
lease on the row, or the run is over for it, or its lease has run out (`Tenure`); a
delivery or request about to take an item off the queue knows that nobody will execute
the run any more (`RemovalsAreJustified`); one that may still lead to an execution has
its item in the queue (`DeliveriesAreQueued`). None of the three is visible in the
properties, and without them no property is inductive: a process acts on what it read
several steps ago. From it: `OneExecution`, `ExecutionsAreRecoverable`,
`QueueHasItsRuns`, `WorkIsKept`, `ResultsAreTheHolders`.

**`RunAdmissionProofs`.** `AdmissionInv` says who owns an admission that has no run yet.
The budget and the bound on a burst are bounds on cardinalities: an admission adds at
most one element to the set counted, and no other step adds any, since time only takes
keys out of a pending window and a run only leaves the queue.

**`EventStreamProofs`.** `StreamInv` says where each stream stands: its cursor is the
length of what its client has processed, its batch is what comes next in the log, and
what it believes of the run's end is true. `ReceivedIsAPrefix` and `EndedIsComplete`
follow, for any batch size and logs of any length.

**`CloudServiceProofs`.** A transaction is atomic, a request, a delivery or a deletion is
many of them, and a handler acts on what it read several calls ago. `DocumentsInv` is what
every transaction keeps by itself: rows as the validator wants them, children that belong
to a run or to a deletion under way, logs without gaps. `HandlersInv` (`Sound`) is what a
handler may rely on between two calls whoever writes in between. From the two follow
`NothingIsLeftBehind`, `LogIsWhole` and the refinement `CloudPromiseKept`. `QueueInv` is
the argument of `WorkIsDispatched`: the task of an index document was made for its item
and nobody will delete it (`IndexIsKept`), no two handlers made the same task
(`MakersDiffer`), and each handler knows of the task and the document it remembers what
its next call depends on (`Knows`): a removal is of a run that is not wanted, the task
about to be indexed is there, the one to be repaired is not, and a document that appeared
after the reading has its task. Only with this last clause is the invariant inductive,
since a lost race makes an enqueue delete its own task. The theorem is under the
hypothesis `~InDoubt`, that a call reported as failed had no effect; without it the
statement is false (`cloud_lost`).

**`CloudQuotaProofs`.** One invariant for each thing counted. `KeysInv`: what an
administrator read of a key still holds, and a successor was created when its predecessor
was revoked. `PermitsInv`: as long as the guard document is as it was read, no lease has
appeared since (`FreshReadingsAreComplete`), so the commit counts what is there; and
whoever believes it holds a permit has its row. `StreamsInv` needs the instant at which a
key's last permit may have been granted, the history `ended` of `ApiKeys`. `LedgerInv`:
unless a reading of the day before came late (`overtaken`), nothing is charged to a later
day than the ledger's. `BucketsInv`: what a bucket granted and still holds came in since
its first request. `PublicationInv`: while the secret is in a file of ours, a descriptor of
the file is held until it is emptied or a call that would have emptied it has failed.

**`ResearchProofs`, the memory.** `FactInv` adds to `NoContradiction` that the columns of a row agree
with its payload, and that no approval is dated after the last one of its key: without
the second the newcomer could expire before a rival begins. `ProcedureInv` says what a
caller holds between the two halves of its operation allowed it to begin
(`CallsAreSound`), that the history of issued numbers is the heads, and that a reviewed
row was reviewed as it stands. `CountsAreRead` is the reader's: if the count of deletions
and activations is as it was read, the active procedures are as they were listed.
`MemoriesStaySound` is the composition, readers and writers together.

**`ResearchProofs`, a run.** `ResearchInv` is what is paid for and not launched yet: a call about
to be launched, the bytes reserved for the page under way, the attempts a call may still
report, the page that will be a document or fail. From it `UsageIsPaidFor` and
`StopsAreObeyed`. `ReflectInv` says that the events are what the stages passed so far have
told (`Told`), which evidence is held at which stage, and how a run that is over was
reported; from it `ResultsCanBeReflected`, by a case for each verdict of the worker.
`PlannerInv` says what an accepted decision is for its request, by whatever path of
screening, routing, replacement and repair it came (`Scoped`), what the repairs add
(`Repaired`), and the same of each claim (`ClaimScoped`).

**`ToolProofs`, searches and fetches.** `SearchInv` counts the services
asked in each sweep and the rows read of each answer; `FetchInv` says what was checked for
every request sent and for the one about to be sent, that the literal address of a URL is
never a local name, and how much of a body is read, pending and held. From these two
`PagesAreGuarded`.

**`ToolProofs`, pages and texts.** `BlockInv` relates the parsers' marks to the tree of
open elements, which they never see: how deep they count in hidden and in skipped elements
is how many of those are open, and the text they hold back is that of the innermost ones.
`ExtractionInv` says in which order a call, its worker, what it printed and a cancellation
can stand; that a document handed out is whole and within the limits is then a statement
on what the worker's passes compute, each a fold over the pieces of a page. Together they
give `PagesAreReadRight`. `RoundInv` gives `AnswersAreGrounded`: what is selected consists
of chunks of fetched pages of which no two have one text, and each record is of such a
page, with quotes of it and spans that it supports. That part rests on lemmas about texts:
a claim that one quote has by itself is there by itself in all of them joined
(`PartsStayJoined`), so is a sentence that is cut out and stripped of its spaces
(`SentencesAreHad`); the key that ranks chunks orders them strictly (`ChunksAreRanked`), so
among those kept of mirrored pages no two have one text (`RankedChunks`); and the first
item of a list is a part of a page's chunks (`FirstItemsHold`).

A fold is defined over subsets, by a recursive function. `FoldsExist` shows that the
equation that defines it has a solution and `FoldsAreFollowed` that any solution takes the
steps one after another, by induction with a set in the place of a predicate
(`NumbersAreReached`), which the provers can instantiate. From there on a fold is a sequence
of values, and what holds of it is shown by the same induction (`SumsUnfold`, `LinesUnfold`,
`PagesUnfold`, `JoinsUnfold`, `WrapsUnfold`, `PacksUnfold`, `FlattenedTexts`).

**`LocalServiceProofs`, last two parts.** `SessionInv`: a session that was there
throughout was given to the client or lies behind its cursor, whether the cursor's row
still exists or not; rows were given in order. `FileInv`: version numbers were given out
only where the table of heads exists, a file at the seventh migration gave none out to
tenants it does not know, and what a migration made of the file so far is as sound as the
file. The order of the statements in a migration matters only for the second of these.

Assumptions are those stated in the modules: bounds are natural numbers, leases and
windows are positive, sentinels are none of the values they stand beside, keys and run
ids are finitely many in `RunAdmission` (they are counted), the terms a worker uses are
lease terms, a release ends with one of the eight migrations (`ReleaseAssumption`), texts
are finite sets of words and drafts have the fields of a draft (`PlannerAssumption`,
`DraftAssumption`), the rules for local names are names and no addresses
(`PolicyAssumption`; they are constants of `agent:security/url_guard.py`), a search
has a service to ask (`SearchAssumption`), a tag has a name and is hidden or not
(`PageAssumption`), the parts of a page and the limits on them are numbers and sequences
of what they should be (`ExtractionAssumption`), a space and a stop are two characters and
no letters (`PageTextAssumption`), and the text of a fetched page has the text of its
blocks, its number is its own, and a claim is a text (`GroundingAssumption`). TLC evaluates
each of them.

Only model-checked: the liveness of streams and of runs of the agent (`StreamsEnd`,
`EventsArrive`, `EveryRunEnds`), since TLAPS does not prove liveness under fairness, and
the five statements that runs refute. Some theorems state properties that no
run checks any more since a run's other properties imply or outdo them (types,
`TerminalIsFinal`, `CancellationHonoured`, `ResultNeedsLiveLease`, `QueueHasItsRuns`,
`ChargesRemain`, `LogKept`).

## Disagreements with the documents

- `service_stranded`: `docs/api.md` says a shutdown past its deadline leaves "the durable
  queue item and expiring lease recoverable by the next process". A redelivery that finds
  the cancellation requested discards the item even while another process holds the run
  (`workers/local.py:240-245`). If that process dies, the run stays `running`, and only a
  retry of its submission brings it back. Of runs nobody asked to cancel the sentence
  holds (`ExecutionsAreRecoverable`, proved).
- `service_holder`: `docs/threat-model.md` says "terminal writes require the claimed
  run/lease identity". `_finish_cancellation` compares the row it was given with itself
  (`workers/local.py:460`), and worker ids are shared, so a process that lost its lease
  writes `cancelled` under the new holder's. Of results the sentence holds
  (`ResultsAreTheHolders`, proved).
- `admission_charge`: `docs/api.md` says new run work is charged once per key.
  `release_run` deletes an admission that a concurrent retry of the key was admitted
  under; that retry then creates the run with no charge, and later ones add an admission
  of no units. That nobody releases another's admission before it fails itself, nor the
  admission of a key that has a run, holds and is proved.
- `cloud_lost`: `docs/api.md:115-118` says a temporary queue failure returns `503` and
  retrying repairs dispatch. When the transaction that writes the index document fails
  for its caller although it was committed, `enqueue` deletes the task it made
  (`storage/cloud.py:1256-1258`) under an index document that stays. A retry that came in
  between has found both and answered that the run is accepted; then the task is gone,
  and only another retry repairs it. With calls that fail only when they had no effect,
  `WorkIsDispatched` holds (`cloud`).
- `research_small_talk`: small talk "is answered from the agent's own words by
  definition" (`agent:planning.py:871-873`). `validate_planning_decision` asks whether the
  request together with the whole conversation is small talk, so in a session with
  earlier turns a greeting is refused, the fixed line included, and the run fails.

## Observations

What was met while modelling and has no run: each is a fact about the code that a
reviewer of it may want to know.

- `limits.py:261`: a retry after the pending window creates its run under the old
  admission without a look at the queue.
- `agent:memory/semantic.py:385-406`: approval compares its candidate with one rival
  (`LIMIT 1`). A reviewer whose clock is behind that of an earlier approval can bring two
  contradicting facts into force; `NoContradiction` therefore speaks of approvals in the
  order of their instants. Reopening writes back the fact it read in another statement.
- `agent:memory/semantic.py:660-678`: two facts of one conflict key that claim the same may
  both be approved. The context refuses facts that share a key
  (`agent:memory/context.py:175-178`), so a tenant with two of them has no memory until one
  is gone; `task-01-search-agent/docs/memory-threat-model.md:29` says that approval rejects
  another active conflict identity.
- The SQLite procedure repository counts the deletion of several pointers as one change,
  the one in memory as several. Readers compare counts for equality only.
- `agent:tools/extract.py:334`: text of a hidden element in a table cell goes into the
  table blocks, since `handle_data` of the table parser looks at the cell alone; compare
  `tests/tools/test_extract.py:173`.
- `agent:tools/extract.py`: the limits that the parent applies to a worker's answer are
  counted otherwise than the worker's own, so it may refuse what the worker accepted. A
  cancellation that arrives while a worker is reaped after a time-out is swallowed.
- `agent:runner.py:1249`: a page title without any word character makes the validation of
  a chunk's provenance raise a `ValueError` that nobody catches there.
- `agent:runner.py:1188`, `:1224-1229`: two chunks of a page whose first 400 characters
  agree drop the page; a claim may straddle two quotes, and quotes are cut within words;
  compare `tests/test_answering.py:286`.
- `agent:planning.py`: `_draft_without_unused_query_plan` says that what it discards was
  screened; on the path of a validation error, and in the last repair, it was not.
  Requests of 241 to 400 characters raise a validation error in the bounded plan of a
  company question. A claim that shares only a year with the request is in scope.
- `agent:memory/episodic.py:434-453` with `workers/local.py:374-381`: a completed run that
  cites a page whose address has a name like `key` or `sig` in its query cannot be
  reflected, and is stored as failed. The check uses the default `SitePolicy()`, not the
  one configured.
- `storage/schema.py:228-229` adopts a `semantic_facts` table that it has not looked at
  when the ledger is at one to five. `storage/schema.py:234-240`: if the command line made
  version heads in a file that only then was brought to the seventh migration, the eighth
  drops the heads of tenants not yet imported, and their numbers come again; the model
  leaves that order of releases out. The comment at `storage/repositories.py:296-305`
  says an imported `run_reflections` has no foreign key; the first migration adds one.
- `security/key_admin.py`: the cleanup of a key's file may move a file of somebody else
  to a quarantine name; its content stays.
- Time-outs of the agent assume that an adapter yields to the event loop.

## What is not modelled, and why

- Model providers, prompts and the network below the guarded client: their answers are
  arbitrary for whoever calls them.
- HTML, PDF and charset decoding libraries: external; the parsers of this repository are
  modelled on the events they get.
- The store and the ranking of retrospectives (`agent:memory/episodic.py`): single-row
  writes without a protocol; `FirestoreAuditRepository.append` likewise.
- `delete_tenant` and `delete_session` of the SQLite run repository, and
  `SQLiteEventRepository.append`: no caller in the service.
- Authentication of a presented key (parsing, hashing, comparison in constant time): a
  function of its input. What becomes of streams whose key ends is modelled.
- The liveness of the local worker: its models have a bounded clock.
- The ASGI server: whether a response body is ever iterated, and so whether a generator's
  `finally` returns a permit, is decided there; `CloudQuota` lets any holder vanish.
- Wiring, validation of requests, metrics, user interface, Terraform, and tasks 4 to 6:
  no concurrency and no state that outlives a call. The tasks are numerical and text
  computations over fixed data sets, and a large part of the lines that `map`
  does not cover.

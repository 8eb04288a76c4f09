----------------------------- MODULE ResearchRun ----------------------------
(***************************************************************************)
(* ResearchRunner: one run from its plan to the result it reports.         *)
(*                                                                         *)
(* A run calls one adapter after another.  Each call is begun (iteration   *)
(* and consumption are charged), launched (the boundary is checked and the *)
(* time that remains becomes the time-out) and answered (the boundary is   *)
(* checked again), and time passes, or the caller cancels, in between.     *)
(* Adapters answer, raise, or never answer.                                *)
(*                                                                         *)
(* A run that stops at a boundary or on an error is reported from the      *)
(* state it was created in; the events it emitted stay.                    *)
(*                                                                         *)
(* Abstractions: a hit, its page and its evidence record are one number;   *)
(* texts are the tokens and bytes they cost; the trace.                    *)
(***************************************************************************)
EXTENDS ResearchLedger, Sequences, FiniteSets, SequencesExt

CONSTANTS
    Searches,         \* bound of the model on the searches of a plan
    MaxHits,          \* MAX_RUN_HITS
    MaxFetches,       \* the plan's max_fetches
    Sizes,            \* bytes a body may have
    Prompts, Replies, \* tokens a prompt and a reply may cost
    Records,          \* numbers of records a context may have
    ClaimCounts,      \* numbers of claims that an answer may make of what it cites
    Tries             \* _SYNTHESIS_ATTEMPTS

ASSUME RunAssumption ==
    /\ Searches \in Nat /\ MaxHits \in Nat /\ MaxFetches \in Nat
    /\ Sizes \subseteq Nat /\ Prompts \subseteq Nat /\ Replies \subseteq Nat
    /\ Records \subseteq 0..12 /\ ClaimCounts \subseteq Nat /\ Tries \in Nat \ {0}

VARIABLES
    pc,        \* stage and phase of the run
    ledger,
    work,      \* locals of _search, _collect_evidence and _execute
    snapshot,  \* the state of _execute
    events,
    result,    \* what the run reports: the final snapshot
    cancelled, \* cancel_requested
    launched,  \* history: launches of each adapter
    kept       \* history: bytes of the bodies that were used

runVars == <<pc, ledger, work, snapshot, events, result, cancelled, launched, kept>>

Stages == {"plan", "search", "fetch", "extract", "memory", "recheck", "synthesize"}
Phases == {"begin", "launch", "wait"}
Points == (Stages \X Phases) \cup ({"rank", "validate", "draft", "complete", "over"} \X {"begin"})

Pages == 1..MaxHits
Snapshots == [status : {"created", "planned", "searching", "evidence_ready", "answer_ready",
                        "completed", "failed", "cancelled"},
              evidence : SUBSET Pages, answered : BOOLEAN, citations : SUBSET Pages,
              claims : Nat,
              reason : {"none", "budget_exhausted", "no_evidence", "search_failed",
                        "validation_failed"}]

RunTypeOK ==
    /\ pc \in Points /\ ledger \in Ledgers
    /\ work \in [searches : 0..Searches, found : 0..MaxHits, succeeded : 0..Searches,
                 index : 0..MaxHits, documents : SUBSET Pages, tries : 0..Tries, citations : SUBSET (Pages \cup {0})]
    /\ snapshot \in Snapshots
    /\ result \in Snapshots
    /\ events \in Seq({"run_created", "plan_accepted", "search_started", "evidence_ready",
                       "answer_drafted", "run_completed", "run_failed", "run_cancelled"})
    /\ cancelled \in BOOLEAN
    /\ launched \in [Stages -> Nat] /\ kept \in Nat

Created == [status |-> "created", evidence |-> {}, answered |-> FALSE, citations |-> {},
            claims |-> 0, reason |-> "none"]

RunInit ==
    /\ pc = <<"plan", "begin">>
    /\ \E r \in {0, Broken} : ledger = NewLedger(r)
    /\ work = [searches |-> 0, found |-> 0, succeeded |-> 0, index |-> 0, documents |-> {},
               tries |-> Tries, citations |-> {}]
    /\ snapshot = Created /\ result = Created
    /\ events = <<"run_created">>
    /\ cancelled = FALSE
    /\ launched = [s \in Stages |-> 0]
    /\ kept = 0
-----------------------------------------------------------------------------
(* RunStateGraph *)

Failed(s, reason) == [s EXCEPT !.status = "failed", !.reason = reason]

\* The snapshot run_with_context holds while _execute works, and the one _execute holds.
LatestSnapshot == snapshot
OuterSnapshot == Created

\* How the run is reported when a boundary or an error stops it.
Stopped(verdict) ==
    CASE verdict = "cancelled" -> [OuterSnapshot EXCEPT !.status = "cancelled"]
      [] verdict = "exhausted" -> Failed(OuterSnapshot, "budget_exhausted")
      [] verdict = "invalid" -> Failed(OuterSnapshot, "validation_failed")

Terminal(status) == CASE status = "completed" -> "run_completed"
                      [] status = "failed" -> "run_failed"
                      [] status = "cancelled" -> "run_cancelled"

Report(final) ==
    /\ pc' = <<"over", "begin">>
    /\ result' = final
    /\ events' = Append(events, Terminal(final.status))
    /\ UNCHANGED <<work, snapshot, cancelled, launched, kept>>

Stop(verdict) == Report(Stopped(verdict)) /\ UNCHANGED ledger

Goto(stage, phase) == pc' = <<stage, phase>>

At(stage, phase) == pc = <<stage, phase>>

\* The run goes on with the ledger l, unless a charge did not fit.
\* The rest of the step is given where this is used.
Fits(l) == ledger' = l /\ ~l.over
Exceeds(l) == l.over /\ ledger' = l /\ Report(Stopped("exhausted"))

Check(r) == Verdict(ledger, r, cancelled)

\* The remaining time as the launch computes it, and a launch that only subtracts.
LaunchUnchecked(r) == IF r = Broken THEN "invalid" ELSE "fine"
LaunchCheck(r) == Check(r)

\* What a stage is charged before its adapter is launched.
Charged(stage, l) ==
    CASE stage \in {"plan", "synthesize"} -> {BeginModelCall(l, n) : n \in Prompts}
      [] stage = "search" -> {ConsumeQuery(l)}
      [] stage = "fetch" -> {ReservePage(l)}
      [] stage \in {"memory", "recheck"} -> {l}

\* A stage is begun: an iteration is started and the charge is made.
Begun(stage) ==
    /\ At(stage, "begin")
    /\ \E r \in Readings :
          \/ Check(r) # "fine" /\ Stop(Check(r))
          \/ /\ Check(r) = "fine"
             /\ \E l \in Charged(stage, StartIteration(ledger, r)) :
                \/ Exceeds(l)
                \/ /\ Fits(l)
                   /\ Goto(stage, "launch")
                   /\ UNCHANGED <<work, snapshot, events, result, cancelled, launched, kept>>

\* Stages in which an unreadable clock is taken for a failure of the adapter.
Forgiving == {"search", "fetch", "extract"}

\* What follows the failure of one search, and of one page.
NextSearch ==
    /\ Goto("search", "begin")
    /\ work' = [work EXCEPT !.searches = @ - 1]
    /\ UNCHANGED <<ledger, snapshot, events, result, cancelled, launched, kept>>
NextPage ==
    /\ Goto("fetch", "begin")
    /\ work' = [work EXCEPT !.index = @ + 1]
    /\ ledger' = [ledger EXCEPT !.failed = @ + 1]
    /\ UNCHANGED <<snapshot, events, result, cancelled, launched, kept>>
Forgive(stage) == IF stage = "search" THEN NextSearch ELSE NextPage

\* _await_boundary up to the launch of the adapter
Launch(stage) ==
    /\ At(stage, "launch")
    /\ \E r \in Readings :
          LET v == LaunchCheck(r) IN
          \/ v = "invalid" /\ stage \in Forgiving /\ Forgive(stage)
          \/ v # "fine" /\ ~(v = "invalid" /\ stage \in Forgiving) /\ Stop(v)
          \/ /\ v = "fine"
             /\ ledger' = [ledger EXCEPT !.last = r]
             /\ launched' = [launched EXCEPT ![stage] = @ + 1]
             /\ Goto(stage, "wait")
             /\ UNCHANGED <<work, snapshot, events, result, cancelled, kept>>

\* The stages whose adapters are awaited with a time-out, and the code with one forgotten.
TimedButMemory == Stages \ {"memory", "recheck"}
Timed == Stages

TimeOut == \E stage \in Timed : At(stage, "wait") /\ Stop("exhausted")

\* The adapter has answered and the boundary stops the run, or has failed.
AnswerStops(stage) ==
    /\ At(stage, "wait")
    /\ \E r \in Readings : LET v == Check(r) IN
          \/ v = "invalid" /\ stage \in Forgiving /\ Forgive(stage)
          \/ v # "fine" /\ ~(v = "invalid" /\ stage \in Forgiving) /\ Stop(v)

AdapterFails(stage) == At(stage, "wait") /\ (IF stage \in Forgiving THEN Forgive(stage)
                                             ELSE Stop("invalid"))

\* The adapter has answered in time, at the reading r.
InTime(stage, r) == At(stage, "wait") /\ Check(r) = "fine"
-----------------------------------------------------------------------------
(* _plan and the start of _execute *)

BeginPlan == Begun("plan")

\* A plan without searches is the answer: it is drafted and completed in one go.
AnswerDirectly ==
    /\ Goto("over", "begin")
    /\ snapshot' = [snapshot EXCEPT !.status = "completed", !.answered = TRUE]
    /\ result' = snapshot'
    /\ events' = events \o <<"answer_drafted", "run_completed">>
    /\ UNCHANGED <<work, cancelled, launched, kept>>

\* URLs of the request itself are hits before any search.
StartSearch(searches, urls) ==
    /\ Goto("search", "begin")
    /\ snapshot' = [snapshot EXCEPT !.status = "searching"]
    /\ events' = events \o <<"plan_accepted", "search_started">>
    /\ work' = [work EXCEPT !.searches = searches, !.found = urls]
    /\ UNCHANGED <<result, cancelled, launched, kept>>

\* The planner's reply is charged once its decision is valid.
PlanAnswered ==
    \E r \in Readings, n \in Replies, attempts \in 1..(MaxAttempts + 1) :
        LET l == FinishModelCall([ledger EXCEPT !.last = r], attempts, n) IN
        /\ InTime("plan", r)
        /\ \/ Exceeds(l)
           \/ /\ Fits(l)
              /\ \/ AnswerDirectly
                 \/ \E searches \in 1..Searches, urls \in 0..MaxHits : StartSearch(searches, urls)
-----------------------------------------------------------------------------
(* _search *)

Searching == work.searches > 0 /\ work.found < MaxHits

BeginSearch == Searching /\ Begun("search")

SearchAnswered ==
    \E r \in Readings, n \in 0..(MaxHits - work.found) :
        /\ InTime("search", r)
        /\ ledger' = [ledger EXCEPT !.last = r]
        /\ work' = [work EXCEPT !.searches = @ - 1, !.succeeded = @ + 1, !.found = @ + n]
        /\ Goto("search", "begin")
        /\ UNCHANGED <<snapshot, events, result, cancelled, launched, kept>>

\* A search that found nothing is no evidence; no search at all is a failed search.
EndSearch ==
    /\ At("search", "begin") /\ ~Searching
    /\ IF work.found > 0
       THEN /\ Goto("fetch", "begin")
            /\ UNCHANGED <<ledger, work, snapshot, events, result, cancelled, launched, kept>>
       ELSE /\ Report(Failed(snapshot, IF work.succeeded > 0 THEN "no_evidence"
                                       ELSE "search_failed"))
            /\ UNCHANGED ledger
-----------------------------------------------------------------------------
(* _collect_evidence *)

\* Beyond the plan's fetches, pages are tried only until one document was extracted.
Fetching ==
    /\ work.index < work.found
    /\ work.index < MaxFetches \/ work.documents = {}

BeginFetch == Fetching /\ Begun("fetch")

FetchAnswered ==
    \E r \in Readings, size \in Sizes :
        LET l == AccountBody([ledger EXCEPT !.last = r], size) IN
        /\ InTime("fetch", r)
        /\ \/ Exceeds(l)
           \/ /\ Fits(l)
              /\ kept' = kept + size
              /\ Goto("extract", "launch")
              /\ UNCHANGED <<work, snapshot, events, result, cancelled, launched>>

ExtractAnswered ==
    \E r \in Readings :
        /\ InTime("extract", r)
        /\ ledger' = [ledger EXCEPT !.last = r]
        /\ work' = [work EXCEPT !.index = @ + 1, !.documents = @ \cup {work.index + 1}]
        /\ Goto("fetch", "begin")
        /\ UNCHANGED <<snapshot, events, result, cancelled, launched, kept>>

\* The extraction port is not one: the run fails, not the page.
InvalidExtractor == At("extract", "wait") /\ Stop("invalid")

EndFetch ==
    /\ At("fetch", "begin") /\ ~Fetching
    /\ Goto("rank", "begin")
    /\ UNCHANGED <<ledger, work, snapshot, events, result, cancelled, launched, kept>>

\* _MAX_SELECTED_CHUNKS; the first item of a list may have more, of one document.
MaxSelected == 8

\* select_context and build_evidence: some documents contribute a record, some none, and
\* those whose record cannot be built count as failed pages.
Rank ==
    /\ At("rank", "begin")
    /\ \E records \in SUBSET work.documents, unbuilt \in SUBSET work.documents :
        /\ records \cap unbuilt = {} /\ Cardinality(records \cup unbuilt) <= MaxSelected
        /\ ledger' = [ledger EXCEPT !.failed = @ + Cardinality(unbuilt)]
        /\ IF records = {}
           THEN Report(Failed(snapshot, "no_evidence"))
           ELSE /\ snapshot' = [snapshot EXCEPT !.status = "evidence_ready", !.evidence = records]
                /\ events' = Append(events, "evidence_ready")
                /\ \E next \in {"memory", "synthesize"} : Goto(next, "begin")
                /\ UNCHANGED <<work, result, cancelled, launched, kept>>
-----------------------------------------------------------------------------
(* _read_memory *)

BeginMemory == Begun("memory") \/ Begun("recheck")

\* A context with active procedures is read again, any other is taken as it is.
MemoryAnswered ==
    \E r \in Readings, n \in Records, procedures \in BOOLEAN :
        /\ procedures => n > 0
        /\ InTime("memory", r)
        /\ IF procedures
           THEN Goto("recheck", "begin") /\ ledger' = [ledger EXCEPT !.last = r]
           ELSE Goto("synthesize", "begin") /\ ledger' = [ledger EXCEPT !.last = r, !.records = n]
        /\ UNCHANGED <<work, snapshot, events, result, cancelled, launched, kept>>

RecheckAnswered ==
    \E r \in Readings, n \in Records \ {0} :
        /\ InTime("recheck", r)
        /\ Goto("synthesize", "begin")
        /\ ledger' = [ledger EXCEPT !.last = r, !.records = n]
        /\ UNCHANGED <<work, snapshot, events, result, cancelled, launched, kept>>
-----------------------------------------------------------------------------
(* _synthesize, AnswerValidator and the end of _execute *)

BeginSynthesis == Begun("synthesize")

SynthesisAnswered ==
    \E r \in Readings, n \in Replies, attempts \in 1..(MaxAttempts + 1),
       cites \in SUBSET (Pages \cup {0}) :
        LET l == FinishModelCall([ledger EXCEPT !.last = r], attempts, n) IN
        /\ InTime("synthesize", r)
        /\ \/ Exceeds(l)
           \/ /\ Fits(l)
              /\ work' = [work EXCEPT !.citations = cites]
              /\ Goto("validate", "begin")
              /\ UNCHANGED <<snapshot, events, result, cancelled, launched, kept>>

\* Another attempt, with a correction, while there is one.
Retry ==
    /\ IF work.tries > 1
       THEN /\ Goto("synthesize", "begin")
            /\ work' = [work EXCEPT !.tries = @ - 1, !.citations = {}]
            /\ UNCHANGED <<snapshot, events, result, cancelled, launched, kept>>
       ELSE Report(Stopped("invalid"))

\* A response that does not fit the contract.
MalformedAnswer == At("synthesize", "wait") /\ Retry /\ UNCHANGED ledger

\* What an answer may cite.
Citable == snapshot.evidence

\* The validator may reject any answer, for a reason a retry may mend or for another.
Validate ==
    /\ At("validate", "begin")
    /\ \E r \in Readings :
        \/ Check(r) # "fine" /\ Stop(Check(r))
        \/ /\ Check(r) = "fine"
           /\ LET l == StartIteration(ledger, r) IN
              \/ Exceeds(l)
              \/ Fits(l) /\ Retry
              \/ Fits(l) /\ Report(Stopped("invalid"))
              \/ /\ Fits(l)
                 /\ work.citations # {} /\ work.citations \subseteq Citable
                 /\ Goto("draft", "begin")
                 /\ UNCHANGED <<work, snapshot, events, result, cancelled, launched, kept>>

\* An answer makes one claim of each record that it cites, or more.
Draft ==
    /\ At("draft", "begin")
    /\ \E r \in Readings :
        \/ Check(r) # "fine" /\ Stop(Check(r))
        \/ /\ Check(r) = "fine"
           /\ ledger' = [ledger EXCEPT !.last = r]
           /\ \E n \in ClaimCounts :
                 /\ n >= Cardinality(work.citations)
                 /\ snapshot' = [snapshot EXCEPT !.status = "answer_ready", !.answered = TRUE,
                                                 !.citations = work.citations, !.claims = n]
           /\ events' = Append(events, "answer_drafted")
           /\ Goto("complete", "begin")
           /\ UNCHANGED <<work, result, cancelled, launched, kept>>

Complete ==
    /\ At("complete", "begin")
    /\ \E r \in Readings :
        \/ Check(r) # "fine" /\ Stop(Check(r))
        \/ /\ Check(r) = "fine"
           /\ ledger' = [ledger EXCEPT !.last = r]
           /\ Report([snapshot EXCEPT !.status = "completed"])
-----------------------------------------------------------------------------
RequestCancel ==
    /\ ~cancelled /\ pc[1] # "over"
    /\ cancelled' = TRUE
    /\ UNCHANGED <<pc, ledger, work, snapshot, events, result, launched, kept>>

\* What the runner does without waiting for anyone.
Runner ==
    \/ BeginPlan \/ BeginSearch \/ EndSearch \/ BeginFetch \/ EndFetch \/ Rank
    \/ BeginMemory \/ BeginSynthesis \/ Validate \/ Draft \/ Complete
    \/ \E stage \in Stages : Launch(stage)

\* What the adapters do, if they do anything.
Adapters ==
    \/ PlanAnswered \/ SearchAnswered \/ FetchAnswered \/ ExtractAnswered \/ InvalidExtractor
    \/ MemoryAnswered \/ RecheckAnswered \/ SynthesisAnswered \/ MalformedAnswer
    \/ \E stage \in Stages : AnswerStops(stage) \/ AdapterFails(stage)

RunNext == Runner \/ TimeOut \/ Adapters \/ RequestCancel

\* The event loop runs what is ready and fires time-outs; adapters owe nothing.
RunFairness == WF_runVars(Runner) /\ WF_runVars(TimeOut)

RunSpec == RunInit /\ [][RunNext]_runVars /\ RunFairness

-----------------------------------------------------------------------------
\* Whatever the run has done is paid for: no adapter was launched more often than its
\* budget was charged, the bytes that were used are within both byte budgets, no page
\* failed that was not counted, and the attempts of the provider stay within what the
\* calls allow; so the usage that a run reports is always one its budget admits, also
\* when a charge in the middle of several did not fit (_Ledger, runner.py).
UsageIsPaidFor ==
    /\ launched["search"] <= ledger.queries
    /\ launched["fetch"] <= ledger.pages
    /\ launched["plan"] + launched["synthesize"] <= ledger.calls
    /\ kept <= ledger.decoded /\ kept <= ledger.raw
    /\ ledger.failed + Cardinality(snapshot.evidence) <= ledger.pages
    /\ ledger.attempts <= ledger.calls * MaxAttempts
    /\ ledger.records > 0 => launched["memory"] > 0

\* After cancellation is requested no adapter is launched any more and no run completes,
\* however many searches, pages and attempts were still to come.
StopsAreObeyed ==
    [][cancelled => /\ launched' = launched
                    /\ (result'.status = "completed" => result.status = "completed")]_runVars

\* Every run ends, whether or not its adapters ever answer and whatever its clock shows.
EveryRunEnds == <>At("over", "begin")
=============================================================================

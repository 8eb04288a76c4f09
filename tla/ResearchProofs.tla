--------------------------- MODULE ResearchProofs ---------------------------
(***************************************************************************)
(* Theorems of ResearchRun, Reflections, Planner and of the memory a run   *)
(* reads, FactMemory, ProcedureMemory and MemoryReader, for any budget,    *)
(* any number of searches, pages and attempts, any answers and drafts, any *)
(* facts, procedures, versions, callers and instants.                      *)
(*                                                                         *)
(* A run pays before it launches, so the inductive invariant has what is   *)
(* paid for and not launched yet: the call that is about to be launched,   *)
(* the bytes reserved for the page under way, the attempts that a call may *)
(* still report, and the page that will either fail or be a document.  A   *)
(* second one has what the run has told by each of its stages, and what    *)
(* evidence it holds: from these what it reports is known, and with it     *)
(* what the worker makes of it.  Of a plan the invariant says what it is   *)
(* for its request, however it came about; of a memory what its rows and   *)
(* the operations under way have of each other.                            *)
(***************************************************************************)
EXTENDS Reflections, Planner, MemoryReader, FiniteSetTheorems, SequenceTheorems,
        WellFoundedInduction, TLAPS

\* Where the run stands.
Stage == pc[1]
Phase == pc[2]
Launched == Phase \in {"launch", "wait"}

Gathering == Stage \in {"plan", "search", "fetch", "extract", "rank"}
InPage == Stage = "extract" \/ (Stage = "fetch" /\ Launched)

LaunchesArePaid ==
    /\ launched["search"] <= ledger.queries
    /\ At("search", "launch") => launched["search"] < ledger.queries
    /\ launched["fetch"] <= ledger.pages
    /\ At("fetch", "launch") => launched["fetch"] < ledger.pages
    /\ launched["plan"] + launched["synthesize"] <= ledger.calls
    /\ At("plan", "launch") \/ At("synthesize", "launch") =>
           launched["plan"] + launched["synthesize"] < ledger.calls

BytesArePaid ==
    /\ kept <= ledger.decoded /\ kept <= ledger.raw
    /\ Stage = "fetch" /\ Launched => kept + Reservation <= ledger.raw

AttemptsArePaid ==
    /\ ledger.attempts <= ledger.calls * MaxAttempts
    /\ Stage \in {"plan", "synthesize"} /\ Launched =>
           ledger.attempts + (MaxAttempts - 1) <= ledger.calls * MaxAttempts

PagesArePaid ==
    /\ ledger.failed + Cardinality(snapshot.evidence) <= ledger.pages
    /\ Gathering =>
           /\ snapshot.evidence = {}
           /\ ledger.failed + Cardinality(work.documents) <= ledger.pages
    /\ InPage => ledger.failed + Cardinality(work.documents) < ledger.pages

MemoryIsRead ==
    ledger.records > 0 \/ Stage = "recheck" \/ At("memory", "wait") => launched["memory"] > 0

HitsAreInRange ==
    /\ Stage = "plan" => work.index = 0 /\ work.succeeded = 0
    /\ Stage # "plan" => work.succeeded + work.searches <= Searches
    /\ Stage = "search" /\ Launched => work.searches > 0
    /\ work.index <= work.found
    /\ InPage => work.index < work.found

ResearchInv ==
    /\ RunTypeOK
    /\ LaunchesArePaid /\ BytesArePaid /\ AttemptsArePaid /\ PagesArePaid /\ MemoryIsRead
    /\ HitsAreInRange

-----------------------------------------------------------------------------
\* What a run has told and what it reports.

Beginning == <<"run_created">>
Searched == Beginning \o <<"plan_accepted", "search_started">>
Told == CASE Stage = "plan" -> Beginning
          [] Stage \in {"search", "fetch", "extract", "rank"} -> Searched
          [] Stage \in {"memory", "recheck", "synthesize", "validate", "draft"} ->
                 Append(Searched, "evidence_ready")
          [] Stage = "complete" -> Append(Append(Searched, "evidence_ready"), "answer_drafted")
          [] Stage = "over" -> events

Gathered == Stage \in {"memory", "recheck", "synthesize", "validate", "draft", "complete"}

EvidenceIsHeld ==
    /\ Gathered => snapshot.evidence # {} /\ Cardinality(snapshot.evidence) <= MaxSelected
    /\ snapshot.reason = "none"
    /\ Stage \in {"draft", "complete"} =>
           work.citations # {} /\ work.citations \subseteq snapshot.evidence
    /\ Stage \notin {"complete", "over"} =>
           ~snapshot.answered /\ snapshot.citations = {} /\ snapshot.claims = 0
    /\ Stage = "complete" => /\ snapshot.answered /\ snapshot.citations # {}
                             /\ snapshot.citations \subseteq snapshot.evidence

Openings == {Beginning, Searched, Append(Searched, "evidence_ready"),
             Append(Append(Searched, "evidence_ready"), "answer_drafted"),
             Append(Beginning, "answer_drafted")}

\* How a run is reported: as completed, with an answer from evidence or without, or not.
ReportIsSound ==
    Stage = "over" =>
        /\ result.citations \subseteq result.evidence
        /\ Cardinality(result.evidence) <= MaxSelected
        /\ \E told \in Openings :
              /\ events = Append(told, Terminal(result.status))
              /\ \/ /\ result.status = "completed" /\ result.answered /\ result.reason = "none"
                    /\ \/ result.citations = {} /\ told = Append(Beginning, "answer_drafted")
                       \/ /\ result.citations # {}
                          /\ told = Append(Append(Searched, "evidence_ready"), "answer_drafted")
                 \/ /\ result.status \in {"failed", "cancelled"} /\ ~result.answered
                    /\ result.status = "failed" <=> result.reason # "none"
                    /\ result.claims = 0 /\ result.citations = {}

ReflectInv == events = Told /\ EvidenceIsHeld /\ ReportIsSound
-----------------------------------------------------------------------------
\* The ledger.

\* What a run spends; the rest of a ledger is its clock, its iterations and its tokens.
Spent == {"queries", "pages", "failed", "raw", "decoded", "calls", "attempts", "records"}

\* Nothing of it is spent between the ledgers l and k.
Spares(l, k) ==
    /\ k \in Ledgers
    /\ \A f \in Spent : k[f] = l[f]
    /\ ~k.over => ~l.over

\* The ledger k is l after n of one budget was charged, or could not be.
Spends(l, k, budget, n) ==
    /\ k \in Ledgers
    /\ \A f \in Spent \ {budget} : k[f] = l[f]
    /\ k[budget] = l[budget] \/ k[budget] = l[budget] + n
    /\ ~k.over => ~l.over /\ k[budget] = l[budget] + n

\* The attempts that the model calls allow.
MaxTotal == MaxCalls * MaxAttempts

LEMMA BudgetNumbers ==
    /\ Deadline \in Nat /\ MaxIterations \in Nat /\ MaxQueries \in Nat /\ MaxPages \in Nat
    /\ MaxRaw \in Nat /\ MaxDecoded \in Nat /\ MaxCalls \in Nat /\ MaxTokens \in Nat
    /\ MaxAttempts \in Nat /\ MaxAttempts > 0 /\ Reservation \in Nat /\ Reservation > 0
    /\ MaxTotal \in Nat
<1>1. \A m, n \in Nat : m * n \in Nat
    OBVIOUS
<1> QED BY <1>1, LedgerAssumption DEF MaxTotal

LEMMA OverSpends ==
    ASSUME NEW l \in Ledgers
    PROVE  LET k == [l EXCEPT !.over = TRUE] IN
           k \in Ledgers /\ k.over /\ \A f \in Spent : k[f] = l[f]
<1> DEFINE k == [l EXCEPT !.over = TRUE]
<1>1. k \in Ledgers /\ k.over
    BY DEF Ledgers
<1>2. \A f \in Spent : k[f] = l[f]
    BY DEF Spent, Ledgers
<1> QED BY <1>1, <1>2

LEMMA QueriesSpent ==
    ASSUME NEW l \in Ledgers, NEW n \in Nat
    PROVE  Spends(l, Consume(l, "queries", n, MaxQueries), "queries", n)
<1> DEFINE k == [l EXCEPT !["queries"] = @ + n]
<1>1. CASE l.over \/ l["queries"] > MaxQueries - n
    BY <1>1, OverSpends DEF Consume, Spends, Spent
<1>2. CASE ~l.over /\ ~(l["queries"] > MaxQueries - n)
    <2>1. l.queries + n \in 0..MaxQueries
        BY <1>2, BudgetNumbers DEF Ledgers
    <2>2. k \in Ledgers /\ k.over = l.over /\ k.queries = l.queries + n
        BY <2>1 DEF Ledgers
    <2>3. \A f \in Spent \ {"queries"} : k[f] = l[f]
        BY DEF Ledgers, Spent
    <2> QED BY <1>2, <2>2, <2>3 DEF Consume, Spends
<1> QED BY <1>1, <1>2

LEMMA PagesSpent ==
    ASSUME NEW l \in Ledgers, NEW n \in Nat
    PROVE  Spends(l, Consume(l, "pages", n, MaxPages), "pages", n)
<1> DEFINE k == [l EXCEPT !["pages"] = @ + n]
<1>1. CASE l.over \/ l["pages"] > MaxPages - n
    BY <1>1, OverSpends DEF Consume, Spends, Spent
<1>2. CASE ~l.over /\ ~(l["pages"] > MaxPages - n)
    <2>1. l.pages + n \in 0..MaxPages
        BY <1>2, BudgetNumbers DEF Ledgers
    <2>2. k \in Ledgers /\ k.over = l.over /\ k.pages = l.pages + n
        BY <2>1 DEF Ledgers
    <2>3. \A f \in Spent \ {"pages"} : k[f] = l[f]
        BY DEF Ledgers, Spent
    <2> QED BY <1>2, <2>2, <2>3 DEF Consume, Spends
<1> QED BY <1>1, <1>2

LEMMA RawSpent ==
    ASSUME NEW l \in Ledgers, NEW n \in Nat
    PROVE  Spends(l, Consume(l, "raw", n, MaxRaw), "raw", n)
<1> DEFINE k == [l EXCEPT !["raw"] = @ + n]
<1>1. CASE l.over \/ l["raw"] > MaxRaw - n
    BY <1>1, OverSpends DEF Consume, Spends, Spent
<1>2. CASE ~l.over /\ ~(l["raw"] > MaxRaw - n)
    <2>1. l.raw + n \in 0..MaxRaw
        BY <1>2, BudgetNumbers DEF Ledgers
    <2>2. k \in Ledgers /\ k.over = l.over /\ k.raw = l.raw + n
        BY <2>1 DEF Ledgers
    <2>3. \A f \in Spent \ {"raw"} : k[f] = l[f]
        BY DEF Ledgers, Spent
    <2> QED BY <1>2, <2>2, <2>3 DEF Consume, Spends
<1> QED BY <1>1, <1>2

LEMMA DecodedSpent ==
    ASSUME NEW l \in Ledgers, NEW n \in Nat
    PROVE  Spends(l, Consume(l, "decoded", n, MaxDecoded), "decoded", n)
<1> DEFINE k == [l EXCEPT !["decoded"] = @ + n]
<1>1. CASE l.over \/ l["decoded"] > MaxDecoded - n
    BY <1>1, OverSpends DEF Consume, Spends, Spent
<1>2. CASE ~l.over /\ ~(l["decoded"] > MaxDecoded - n)
    <2>1. l.decoded + n \in 0..MaxDecoded
        BY <1>2, BudgetNumbers DEF Ledgers
    <2>2. k \in Ledgers /\ k.over = l.over /\ k.decoded = l.decoded + n
        BY <2>1 DEF Ledgers
    <2>3. \A f \in Spent \ {"decoded"} : k[f] = l[f]
        BY DEF Ledgers, Spent
    <2> QED BY <1>2, <2>2, <2>3 DEF Consume, Spends
<1> QED BY <1>1, <1>2

LEMMA CallsSpent ==
    ASSUME NEW l \in Ledgers, NEW n \in Nat
    PROVE  Spends(l, Consume(l, "calls", n, MaxCalls), "calls", n)
<1> DEFINE k == [l EXCEPT !["calls"] = @ + n]
<1>1. CASE l.over \/ l["calls"] > MaxCalls - n
    BY <1>1, OverSpends DEF Consume, Spends, Spent
<1>2. CASE ~l.over /\ ~(l["calls"] > MaxCalls - n)
    <2>1. l.calls + n \in 0..MaxCalls
        BY <1>2, BudgetNumbers DEF Ledgers
    <2>2. k \in Ledgers /\ k.over = l.over /\ k.calls = l.calls + n
        BY <2>1 DEF Ledgers
    <2>3. \A f \in Spent \ {"calls"} : k[f] = l[f]
        BY DEF Ledgers, Spent
    <2> QED BY <1>2, <2>2, <2>3 DEF Consume, Spends
<1> QED BY <1>1, <1>2

LEMMA AttemptsSpent ==
    ASSUME NEW l \in Ledgers, NEW n \in Nat
    PROVE  Spends(l, Consume(l, "attempts", n, MaxCalls * MaxAttempts), "attempts", n)
<1> DEFINE k == [l EXCEPT !["attempts"] = @ + n]
<1>1. CASE l.over \/ l["attempts"] > MaxCalls * MaxAttempts - n
    BY <1>1, OverSpends DEF Consume, Spends, Spent
<1>2. CASE ~l.over /\ ~(l["attempts"] > MaxCalls * MaxAttempts - n)
    <2>1. l.attempts + n \in 0..MaxTotal
        BY <1>2, BudgetNumbers DEF Ledgers, MaxTotal
    <2>2. k \in Ledgers /\ k.over = l.over /\ k.attempts = l.attempts + n
        BY <2>1 DEF Ledgers, MaxTotal
    <2>3. \A f \in Spent \ {"attempts"} : k[f] = l[f]
        BY DEF Ledgers, Spent
    <2> QED BY <1>2, <2>2, <2>3 DEF Consume, Spends
<1> QED BY <1>1, <1>2

LEMMA IterationsSpent ==
    ASSUME NEW l \in Ledgers, NEW n \in Nat
    PROVE  Spares(l, Consume(l, "iterations", n, MaxIterations))
<1> DEFINE k == [l EXCEPT !["iterations"] = @ + n]
<1>1. CASE l.over \/ l["iterations"] > MaxIterations - n
    BY <1>1, OverSpends DEF Consume, Spares
<1>2. CASE ~l.over /\ ~(l["iterations"] > MaxIterations - n)
    <2>1. l.iterations + n \in 0..MaxIterations
        BY <1>2, BudgetNumbers DEF Ledgers
    <2>2. k \in Ledgers /\ k.over = l.over
        BY <2>1 DEF Ledgers
    <2>3. \A f \in Spent : k[f] = l[f]
        BY DEF Ledgers, Spent
    <2> QED BY <1>2, <2>2, <2>3 DEF Consume, Spares
<1> QED BY <1>1, <1>2

LEMMA TokensSpent ==
    ASSUME NEW l \in Ledgers, NEW n \in Nat
    PROVE  Spares(l, Consume(l, "tokens", n, MaxTokens))
<1> DEFINE k == [l EXCEPT !["tokens"] = @ + n]
<1>1. CASE l.over \/ l["tokens"] > MaxTokens - n
    BY <1>1, OverSpends DEF Consume, Spares
<1>2. CASE ~l.over /\ ~(l["tokens"] > MaxTokens - n)
    <2>1. l.tokens + n \in 0..MaxTokens
        BY <1>2, BudgetNumbers DEF Ledgers
    <2>2. k \in Ledgers /\ k.over = l.over
        BY <2>1 DEF Ledgers
    <2>3. \A f \in Spent : k[f] = l[f]
        BY DEF Ledgers, Spent
    <2> QED BY <1>2, <2>2, <2>3 DEF Consume, Spares
<1> QED BY <1>1, <1>2

\* What the operations of the ledger spend.
LEMMA ReadingSpares ==
    ASSUME NEW l \in Ledgers, NEW r \in 0..Deadline
    PROVE  Spares(l, [l EXCEPT !.last = r]) /\ [l EXCEPT !.last = r].over = l.over
<1> DEFINE k == [l EXCEPT !.last = r]
<1>1. k \in Ledgers /\ k.over = l.over
    BY DEF Ledgers
<1>2. \A f \in Spent : k[f] = l[f]
    BY DEF Ledgers, Spent
<1> QED BY <1>1, <1>2 DEF Spares

LEMMA StartIterationSpares ==
    ASSUME NEW l \in Ledgers, NEW r \in 0..Deadline
    PROVE  Spares(l, StartIteration(l, r))
<1> DEFINE m == [l EXCEPT !.last = r]
<1>1. Spares(l, m)
    BY ReadingSpares
<1> HIDE DEF m
<1>2. m \in Ledgers /\ 1 \in Nat
    BY <1>1 DEF Spares
<1>3. Spares(m, Consume(m, "iterations", 1, MaxIterations))
    BY <1>2, IterationsSpent
<1>4. StartIteration(l, r) = Consume(m, "iterations", 1, MaxIterations)
    BY DEF StartIteration, m
<1> QED BY <1>1, <1>3, <1>4 DEF Spares

LEMMA ConsumeTokensSpares ==
    ASSUME NEW l \in Ledgers, NEW n \in Nat
    PROVE  Spares(l, ConsumeTokens(l, n))
<1> DEFINE m == [l EXCEPT !.over = TRUE]
           k == [l EXCEPT !.over = TRUE, !.tokens = MaxTokens]
<1>1. k \in Ledgers /\ k.over
    <2>1. m \in Ledgers /\ m.over /\ MaxTokens \in 0..MaxTokens
        BY OverSpends, BudgetNumbers
    <2>2. k = [m EXCEPT !.tokens = MaxTokens]
        BY DEF Ledgers
    <2> HIDE DEF m, k
    <2> QED BY <2>1, <2>2 DEF Ledgers
<1>2. \A f \in Spent : k[f] = l[f]
    BY DEF Ledgers, Spent
<1>3. Spares(l, k)
    BY <1>1, <1>2 DEF Spares
<1> QED BY <1>3, TokensSpent DEF ConsumeTokens

LEMMA ReservePageSpends ==
    ASSUME NEW l \in Ledgers
    PROVE  LET k == ReservePage(l) IN
           /\ k \in Ledgers /\ (~k.over => ~l.over)
           /\ \A f \in Spent \ {"pages", "raw"} : k[f] = l[f]
           /\ k.pages >= l.pages /\ k.raw >= l.raw
           /\ ~k.over => k.pages = l.pages + 1 /\ k.raw = l.raw + Reservation
<1> DEFINE m == Consume(l, "pages", 1, MaxPages)
           k == Consume(m, "raw", Reservation, MaxRaw)
<1>1. Spends(l, m, "pages", 1)
    BY PagesSpent
<1> HIDE DEF m
<1>2. m \in Ledgers
    BY <1>1 DEF Spends
<1>3. Spends(m, k, "raw", Reservation)
    BY <1>2, BudgetNumbers, RawSpent
<1>4. ReservePage(l) = k
    BY DEF ReservePage, m
<1> HIDE DEF k
<1>5. /\ l.pages \in Nat /\ l.raw \in Nat /\ k \in Ledgers /\ (~k.over => ~l.over)
      /\ \A f \in Spent \ {"pages", "raw"} : k[f] = l[f]
    BY <1>1, <1>3, BudgetNumbers DEF Spends, Ledgers
<1>6. /\ k.pages = m.pages /\ m.raw = l.raw
    BY <1>1, <1>3 DEF Spends, Spent
<1> QED BY <1>1, <1>3, <1>4, <1>5, <1>6, BudgetNumbers DEF Spends

LEMMA AccountBodySpends ==
    ASSUME NEW l \in Ledgers, NEW size \in Nat
    PROVE  LET k == AccountBody(l, size) IN
           /\ k \in Ledgers /\ (~k.over => ~l.over)
           /\ \A f \in Spent \ {"raw", "decoded"} : k[f] = l[f]
           /\ k.raw >= l.raw /\ k.decoded >= l.decoded
           /\ ~k.over => k.raw + Reservation >= l.raw + size /\ k.decoded = l.decoded + size
<1> DEFINE extra == IF size > Reservation THEN size - Reservation ELSE 0
           m == Consume(l, "raw", extra, MaxRaw)
           k == Consume(m, "decoded", size, MaxDecoded)
<1>1. extra \in Nat /\ extra + Reservation >= size
    BY BudgetNumbers
<1>2. AccountBody(l, size) = k
    BY DEF AccountBody
<1> HIDE DEF extra
<1>3. Spends(l, m, "raw", extra)
    BY <1>1, RawSpent
<1> HIDE DEF m
<1>4. m \in Ledgers
    BY <1>3 DEF Spends
<1>5. Spends(m, k, "decoded", size)
    BY <1>4, DecodedSpent
<1> HIDE DEF k
<1>6. /\ l.raw \in Nat /\ l.decoded \in Nat /\ k \in Ledgers /\ (~k.over => ~l.over)
      /\ \A f \in Spent \ {"raw", "decoded"} : k[f] = l[f]
    BY <1>3, <1>5, BudgetNumbers DEF Spends, Ledgers
<1>7. /\ k.raw = m.raw /\ m.decoded = l.decoded
    BY <1>3, <1>5 DEF Spends, Spent
<1>8. ~k.over => k.raw = l.raw + extra /\ k.decoded = l.decoded + size
    BY <1>3, <1>5, <1>7 DEF Spends
<1>9. k.raw >= l.raw /\ k.decoded >= l.decoded
    BY <1>1, <1>3, <1>5, <1>6, <1>7 DEF Spends
<1>10. ~k.over => k.raw + Reservation >= l.raw + size
    BY <1>1, <1>6, <1>8, BudgetNumbers
<1> QED BY <1>2, <1>6, <1>8, <1>9, <1>10

LEMMA BeginModelCallSpends ==
    ASSUME NEW l \in Ledgers, NEW n \in Nat
    PROVE  LET k == BeginModelCall(l, n) IN
           /\ k \in Ledgers /\ (~k.over => ~l.over)
           /\ \A f \in Spent \ {"calls", "attempts"} : k[f] = l[f]
           /\ \/ k.calls = l.calls /\ k.attempts = l.attempts
              \/ k.calls = l.calls + 1 /\ k.attempts \in {l.attempts, l.attempts + 1}
           /\ ~k.over => k.calls = l.calls + 1 /\ k.attempts = l.attempts + 1
<1> DEFINE m == Consume(l, "calls", 1, MaxCalls)
           t == ConsumeTokens(m, n)
           k == Consume(t, "attempts", 1, MaxCalls * MaxAttempts)
<1>1. Spends(l, m, "calls", 1)
    BY CallsSpent
<1>2. BeginModelCall(l, n) = k
    BY DEF BeginModelCall
<1>3. m.over => k = [m EXCEPT !.over = TRUE] /\ k.attempts = m.attempts
    <2> SUFFICES ASSUME m.over
                 PROVE  k = [m EXCEPT !.over = TRUE] /\ k.attempts = m.attempts
        OBVIOUS
    <2> HIDE DEF m
    <2>1. t = [m EXCEPT !.over = TRUE]
        BY DEF ConsumeTokens, Consume
    <2>2. m \in Ledgers
        BY <1>1 DEF Spends
    <2>3. t.over
        BY <2>1, <2>2 DEF Ledgers
    <2>4. k = [t EXCEPT !.over = TRUE]
        BY <2>3 DEF Consume
    <2> HIDE DEF t, k
    <2> QED BY <2>1, <2>2, <2>4 DEF Ledgers
<1> HIDE DEF m
<1>4. m \in Ledgers
    BY <1>1 DEF Spends
<1>5. Spares(m, t)
    BY <1>4, ConsumeTokensSpares
<1> HIDE DEF t
<1>6. t \in Ledgers
    BY <1>5 DEF Spares
<1>7. Spends(t, k, "attempts", 1)
    BY <1>6, AttemptsSpent
<1> HIDE DEF k
<1>8. /\ k \in Ledgers /\ (~k.over => ~l.over /\ ~m.over)
      /\ \A f \in Spent \ {"calls", "attempts"} : k[f] = l[f]
    BY <1>1, <1>5, <1>7 DEF Spends, Spares
<1>9. /\ k.calls = m.calls /\ t.attempts = l.attempts /\ m.attempts = l.attempts
    BY <1>1, <1>5, <1>7 DEF Spends, Spares, Spent
<1>10. ~m.over => m.calls = l.calls + 1
    BY <1>1 DEF Spends
<1>11. m.over => k.calls \in {l.calls, l.calls + 1} /\ k.attempts = l.attempts
    BY <1>1, <1>3, <1>9 DEF Spends
<1>12. k.attempts \in {l.attempts, l.attempts + 1} /\ (~k.over => k.attempts = l.attempts + 1)
    BY <1>7, <1>9 DEF Spends
<1> QED BY <1>2, <1>8, <1>9, <1>10, <1>11, <1>12

LEMMA FinishModelCallSpends ==
    ASSUME NEW l \in Ledgers, NEW attempts \in Nat, NEW n \in Nat
    PROVE  LET k == FinishModelCall(l, attempts, n) IN
           /\ k \in Ledgers /\ (~k.over => ~l.over)
           /\ \A f \in Spent \ {"attempts"} : k[f] = l[f]
           /\ k.attempts >= l.attempts /\ k.attempts <= l.attempts + (MaxAttempts - 1)
<1> DEFINE k == FinishModelCall(l, attempts, n)
<1>1. l.attempts \in Nat
    BY BudgetNumbers DEF Ledgers, MaxTotal
<1>2. CASE attempts \notin 1..MaxAttempts
    <2>1. k = [l EXCEPT !.over = TRUE]
        BY <1>2 DEF FinishModelCall
    <2> HIDE DEF k
    <2>2. k \in Ledgers /\ k.over /\ \A f \in Spent : k[f] = l[f]
        BY <2>1, OverSpends
    <2>3. k.attempts = l.attempts
        BY <2>2 DEF Spent
    <2> QED BY <1>1, <2>2, <2>3, BudgetNumbers DEF k
<1>3. CASE attempts \in 1..MaxAttempts
    <2> DEFINE m == Consume(l, "attempts", attempts - 1, MaxCalls * MaxAttempts)
    <2>1. attempts - 1 \in Nat /\ attempts - 1 <= MaxAttempts - 1
        BY <1>3, BudgetNumbers
    <2>2. Spends(l, m, "attempts", attempts - 1)
        BY <2>1, AttemptsSpent
    <2>3. k = ConsumeTokens(m, n)
        BY <1>3 DEF FinishModelCall
    <2> HIDE DEF m
    <2>4. m \in Ledgers
        BY <2>2 DEF Spends
    <2> HIDE DEF k
    <2>5. Spares(m, k)
        BY <2>3, <2>4, ConsumeTokensSpares
    <2>6. /\ k \in Ledgers /\ (~k.over => ~l.over)
          /\ \A f \in Spent \ {"attempts"} : k[f] = l[f]
        BY <2>2, <2>5 DEF Spends, Spares
    <2>7. k.attempts = m.attempts
        BY <2>5 DEF Spares, Spent
    <2>8. k.attempts >= l.attempts /\ k.attempts <= l.attempts + (MaxAttempts - 1)
        BY <1>1, <2>1, <2>2, <2>7, BudgetNumbers DEF Spends
    <2> QED BY <2>6, <2>8 DEF k
<1> QED BY <1>2, <1>3

-----------------------------------------------------------------------------
\* What the invariant says in numbers.

\* What _search, _collect_evidence and _execute keep.
Works == [searches : 0..Searches, found : 0..MaxHits, succeeded : 0..Searches,
          index : 0..MaxHits, documents : SUBSET Pages, tries : 0..Tries,
          citations : SUBSET (Pages \cup {0})]

LEMMA RunNumbers ==
    ASSUME RunTypeOK
    PROVE  /\ \A s \in Stages : launched[s] \in Nat
           /\ ledger.queries \in Nat /\ ledger.pages \in Nat /\ ledger.failed \in Nat
           /\ ledger.raw \in Nat /\ ledger.decoded \in Nat /\ ledger.calls \in Nat
           /\ ledger.attempts \in Nat /\ ledger.records \in Nat /\ kept \in Nat
           /\ work.index \in Nat /\ work.found \in Nat /\ work.searches \in Nat
           /\ work.succeeded \in Nat /\ work.tries \in Nat
           /\ Searches \in Nat /\ MaxHits \in Nat /\ Tries \in Nat
<1>1. /\ ledger \in Ledgers /\ kept \in Nat /\ launched \in [Stages -> Nat]
      /\ work \in Works
    BY DEF RunTypeOK, Works
<1>2. /\ ledger.queries \in Nat /\ ledger.pages \in Nat /\ ledger.failed \in Nat
      /\ ledger.raw \in Nat /\ ledger.decoded \in Nat /\ ledger.calls \in Nat
      /\ ledger.attempts \in Nat /\ ledger.records \in Nat
    BY <1>1, BudgetNumbers DEF Ledgers, MaxTotal
<1> QED BY <1>1, <1>2, RunAssumption DEF Works

LEMMA PagesAreFinite ==
    /\ IsFiniteSet(Pages)
    /\ \A s \in SUBSET Pages : IsFiniteSet(s) /\ Cardinality(s) \in Nat
<1>1. IsFiniteSet(Pages)
    BY FS_Interval, RunAssumption DEF Pages
<1> QED BY <1>1, FS_Subset, FS_CardinalityType

LEMMA Multiples ==
    ASSUME NEW n \in Nat
    PROVE  n * MaxAttempts \in Nat /\ (n + 1) * MaxAttempts = n * MaxAttempts + MaxAttempts
<1>1. \A i, j \in Nat : i * j \in Nat /\ (i + 1) * j = i * j + j
    OBVIOUS
<1> QED BY <1>1, BudgetNumbers

LEMMA Verdicts ==
    ASSUME RunTypeOK, NEW r \in Readings
    PROVE  /\ Check(r) \in {"cancelled", "invalid", "exhausted", "fine"}
           /\ cancelled => Check(r) = "cancelled"
           /\ Check(r) = "fine" => r \in 0..Deadline
<1>1. cancelled \in BOOLEAN /\ ledger.valid \in BOOLEAN
    BY DEF RunTypeOK, Ledgers
<1>2. CASE cancelled
    BY <1>2 DEF Check, Verdict
<1>3. CASE ~cancelled /\ (~ledger.valid \/ r = Broken)
    BY <1>3 DEF Check, Verdict
<1>4. CASE ~cancelled /\ ledger.valid /\ r # Broken
    <2>1. Check(r) = IF r < ledger.last \/ r >= Deadline THEN "exhausted" ELSE "fine"
        BY <1>4 DEF Check, Verdict
    <2> QED BY <1>4, <2>1 DEF Readings
<1> QED BY <1>1, <1>2, <1>3, <1>4

LEMMA StoppedSnapshots ==
    ASSUME NEW v \in {"cancelled", "invalid", "exhausted"}
    PROVE  /\ Stopped(v) \in Snapshots /\ ~Stopped(v).answered
           /\ Stopped(v).evidence = {} /\ Stopped(v).citations = {} /\ Stopped(v).claims = 0
           /\ Stopped(v).status \in {"failed", "cancelled"}
           /\ Stopped(v).status = "failed" <=> Stopped(v).reason # "none"
<1>1. Created \in Snapshots
    BY DEF Created, Snapshots
<1>2. CASE v = "cancelled"
    BY <1>2 DEF Stopped, OuterSnapshot, Created, Snapshots
<1>3. CASE v = "exhausted"
    BY <1>3 DEF Stopped, OuterSnapshot, Failed, Created, Snapshots
<1>4. CASE v = "invalid"
    BY <1>4 DEF Stopped, OuterSnapshot, Failed, Created, Snapshots
<1> QED BY <1>2, <1>3, <1>4

Ends == {"completed", "failed", "cancelled"}

\* A report leaves the run over: what is paid for stays so if the ledger only grew.
LEMMA ReportKeeps ==
    ASSUME ResearchInv, NEW final \in Snapshots, final.status \in Ends, Report(final),
           ledger' \in Ledgers,
           ledger.queries <= ledger'.queries, ledger.pages <= ledger'.pages,
           ledger.calls <= ledger'.calls, ledger.raw <= ledger'.raw,
           ledger.decoded <= ledger'.decoded, ledger'.records = ledger.records,
           ledger'.attempts <= ledger'.calls * MaxAttempts,
           ledger'.failed + Cardinality(snapshot.evidence) <= ledger'.pages
    PROVE  ResearchInv'
<1>1. /\ pc' = <<"over", "begin">> /\ result' = final
      /\ work' = work /\ snapshot' = snapshot /\ cancelled' = cancelled
      /\ launched' = launched /\ kept' = kept
      /\ events' = Append(events, Terminal(final.status))
    BY DEF Report
<1>2. RunTypeOK'
    <2>1. pc' \in Points
        BY <1>1 DEF Points
    <2>2. Terminal(final.status) \in {"run_completed", "run_failed", "run_cancelled"}
        BY DEF Terminal, Ends
    <2>3. events' \in Seq({"run_created", "plan_accepted", "search_started", "evidence_ready",
                           "answer_drafted", "run_completed", "run_failed", "run_cancelled"})
        BY <1>1, <2>2, AppendProperties DEF ResearchInv, RunTypeOK
    <2> QED BY <1>1, <2>1, <2>3 DEF ResearchInv, RunTypeOK
<1>3. Stage' = "over" /\ Phase' = "begin"
    BY <1>1 DEF Stage, Phase
<1>4. ~At("memory", "wait")'
    BY <1>1 DEF At
<1>5. LaunchesArePaid' /\ BytesArePaid'
    <2>1. LaunchesArePaid /\ BytesArePaid /\ RunTypeOK
        BY DEF ResearchInv
    <2>2. /\ ledger'.queries \in Nat /\ ledger'.pages \in Nat /\ ledger'.calls \in Nat
          /\ ledger'.raw \in Nat /\ ledger'.decoded \in Nat
        BY BudgetNumbers DEF Ledgers
    <2>3. \A s \in {"search", "fetch", "plan", "synthesize"} : launched[s] \in Nat /\ s \in Stages
        BY <2>1, RunNumbers DEF Stages
    <2>4. LaunchesArePaid'
        <3>1. /\ ~At("search", "launch")' /\ ~At("fetch", "launch")'
              /\ ~At("plan", "launch")' /\ ~At("synthesize", "launch")'
            BY <1>1 DEF At
        <3>2. /\ launched["search"] <= ledger'.queries /\ launched["fetch"] <= ledger'.pages
              /\ launched["plan"] + launched["synthesize"] <= ledger'.calls
            BY <2>1, <2>2, <2>3, RunNumbers DEF LaunchesArePaid
        <3> QED BY <1>1, <3>1, <3>2 DEF LaunchesArePaid
    <2>5. BytesArePaid'
        <3>1. kept <= ledger'.decoded /\ kept <= ledger'.raw
            <4>1. /\ kept <= ledger.decoded /\ kept <= ledger.raw
                  /\ kept \in Nat /\ ledger.decoded \in Nat /\ ledger.raw \in Nat
                BY <2>1, RunNumbers DEF BytesArePaid
            <4> QED BY <2>2, <4>1
        <3> QED BY <1>1, <1>3, <3>1 DEF BytesArePaid
    <2> QED BY <2>4, <2>5
<1>6. AttemptsArePaid'
    BY <1>3 DEF AttemptsArePaid, Launched
<1>7. PagesArePaid'
    BY <1>1, <1>3 DEF PagesArePaid, Gathering, InPage
<1>8. MemoryIsRead'
    BY <1>1, <1>3, <1>4 DEF MemoryIsRead, ResearchInv, Stages
<1>9. HitsAreInRange'
    BY <1>1, <1>3 DEF HitsAreInRange, InPage, ResearchInv, Launched, RunTypeOK
<1> QED BY <1>2, <1>5, <1>6, <1>7, <1>8, <1>9 DEF ResearchInv

LEMMA StopKeeps ==
    ASSUME ResearchInv, NEW v \in {"cancelled", "invalid", "exhausted"}, Stop(v)
    PROVE  ResearchInv'
<1>1. Report(Stopped(v)) /\ ledger' = ledger
    BY DEF Stop
<1>2. Stopped(v) \in Snapshots /\ Stopped(v).status \in Ends
    BY StoppedSnapshots DEF Ends
<1>3. /\ ledger \in Ledgers /\ ledger.attempts <= ledger.calls * MaxAttempts
      /\ ledger.failed + Cardinality(snapshot.evidence) <= ledger.pages
    BY DEF ResearchInv, RunTypeOK, AttemptsArePaid, PagesArePaid
<1>4. /\ ledger.queries <= ledger.queries /\ ledger.pages <= ledger.pages
      /\ ledger.calls <= ledger.calls /\ ledger.raw <= ledger.raw
      /\ ledger.decoded <= ledger.decoded
    BY RunNumbers DEF ResearchInv
<1> QED BY <1>1, <1>2, <1>3, <1>4, ReportKeeps

\* A charge that does not fit: what was charged before it stays, and the run is over.
LEMMA ExceedsKeeps ==
    ASSUME ResearchInv, NEW l \in Ledgers, Exceeds(l),
           ledger.queries <= l.queries, ledger.pages <= l.pages, ledger.calls <= l.calls,
           ledger.raw <= l.raw, ledger.decoded <= l.decoded,
           l.records = ledger.records, l.failed = ledger.failed,
           l.attempts <= l.calls * MaxAttempts
    PROVE  ResearchInv'
<1>1. Report(Stopped("exhausted")) /\ ledger' = l
    BY DEF Exceeds
<1>2. Stopped("exhausted") \in Snapshots /\ Stopped("exhausted").status \in Ends
    BY StoppedSnapshots DEF Ends
<1>3. l.failed + Cardinality(snapshot.evidence) <= l.pages
    <2>1. ledger.failed + Cardinality(snapshot.evidence) <= ledger.pages
        BY DEF ResearchInv, PagesArePaid
    <2>2. ledger.failed \in Nat /\ ledger.pages \in Nat /\ l.pages \in Nat
        BY RunNumbers, BudgetNumbers DEF ResearchInv, Ledgers
    <2>3. Cardinality(snapshot.evidence) \in Nat
        BY PagesAreFinite DEF ResearchInv, RunTypeOK, Snapshots
    <2> QED BY <2>1, <2>2, <2>3
<1> QED BY <1>1, <1>2, <1>3, ReportKeeps

\* What a stage is charged.
LEMMA ChargedPays ==
    ASSUME NEW l \in Ledgers, NEW stage \in Stages \ {"extract"}, NEW k \in Charged(stage, l),
           l.attempts <= l.calls * MaxAttempts
    PROVE  /\ k \in Ledgers /\ (~k.over => ~l.over)
           /\ l.queries <= k.queries /\ l.pages <= k.pages /\ l.calls <= k.calls
           /\ l.raw <= k.raw /\ l.decoded = k.decoded
           /\ k.records = l.records /\ k.failed = l.failed
           /\ k.attempts <= k.calls * MaxAttempts
           /\ ~k.over /\ stage = "search" => k.queries = l.queries + 1
           /\ ~k.over /\ stage = "fetch" =>
                  k.pages = l.pages + 1 /\ k.raw = l.raw + Reservation
           /\ ~k.over /\ stage \in {"plan", "synthesize"} =>
                  /\ k.calls = l.calls + 1
                  /\ k.attempts + (MaxAttempts - 1) <= k.calls * MaxAttempts
<1>1. /\ l.queries \in Nat /\ l.pages \in Nat /\ l.calls \in Nat /\ l.raw \in Nat
      /\ l.decoded \in Nat /\ l.attempts \in Nat
    BY BudgetNumbers DEF Ledgers, MaxTotal
<1>2. CASE stage \in {"plan", "synthesize"}
    <2>1. PICK n \in Prompts : k = BeginModelCall(l, n)
        BY <1>2 DEF Charged
    <2>2. n \in Nat
        BY RunAssumption
    <2> DEFINE b == BeginModelCall(l, n)
    <2>3. /\ b \in Ledgers /\ (~b.over => ~l.over)
          /\ \A f \in Spent \ {"calls", "attempts"} : b[f] = l[f]
          /\ \/ b.calls = l.calls /\ b.attempts = l.attempts
             \/ b.calls = l.calls + 1 /\ b.attempts \in {l.attempts, l.attempts + 1}
          /\ ~b.over => b.calls = l.calls + 1 /\ b.attempts = l.attempts + 1
        BY <2>2, BeginModelCallSpends
    <2> HIDE DEF b
    <2>4. /\ b.queries = l.queries /\ b.pages = l.pages /\ b.raw = l.raw
          /\ b.decoded = l.decoded /\ b.records = l.records /\ b.failed = l.failed
        BY <2>3 DEF Spent
    <2>5. /\ l.calls * MaxAttempts \in Nat
          /\ (l.calls + 1) * MaxAttempts = l.calls * MaxAttempts + MaxAttempts
        BY <1>1, Multiples
    <2>6. b.attempts <= b.calls * MaxAttempts
        <3>1. CASE b.calls = l.calls /\ b.attempts = l.attempts
            BY <3>1
        <3>2. CASE b.calls = l.calls + 1 /\ b.attempts \in {l.attempts, l.attempts + 1}
            BY <1>1, <2>5, <3>2, BudgetNumbers
        <3> QED BY <2>3, <3>1, <3>2
    <2>7. ~b.over => /\ b.calls = l.calls + 1
                     /\ b.attempts + (MaxAttempts - 1) <= b.calls * MaxAttempts
        BY <1>1, <2>3, <2>5, BudgetNumbers
    <2> QED BY <1>1, <1>2, <2>1, <2>3, <2>4, <2>6, <2>7 DEF b
<1>3. CASE stage = "search"
    <2>1. k = Consume(l, "queries", 1, MaxQueries)
        BY <1>3 DEF Charged, ConsumeQuery
    <2>2. Spends(l, k, "queries", 1)
        BY <2>1, QueriesSpent
    <2>3. /\ k.calls = l.calls /\ k.pages = l.pages /\ k.raw = l.raw /\ k.decoded = l.decoded
          /\ k.records = l.records /\ k.failed = l.failed /\ k.attempts = l.attempts
        BY <2>2 DEF Spends, Spent
    <2> QED BY <1>1, <1>3, <2>2, <2>3 DEF Spends
<1>4. CASE stage = "fetch"
    <2>1. k = ReservePage(l)
        BY <1>4 DEF Charged
    <2> DEFINE b == ReservePage(l)
    <2>2. /\ b \in Ledgers /\ (~b.over => ~l.over)
          /\ \A f \in Spent \ {"pages", "raw"} : b[f] = l[f]
          /\ b.pages >= l.pages /\ b.raw >= l.raw
          /\ ~b.over => b.pages = l.pages + 1 /\ b.raw = l.raw + Reservation
        BY ReservePageSpends
    <2> HIDE DEF b
    <2>3. /\ b.calls = l.calls /\ b.queries = l.queries /\ b.decoded = l.decoded
          /\ b.records = l.records /\ b.failed = l.failed /\ b.attempts = l.attempts
        BY <2>2 DEF Spent
    <2>4. b.pages \in Nat /\ b.raw \in Nat
        BY <2>2, BudgetNumbers DEF Ledgers
    <2> QED BY <1>1, <1>4, <2>1, <2>2, <2>3, <2>4 DEF b
<1>5. CASE stage \in {"memory", "recheck"}
    <2>1. k = l
        BY <1>5 DEF Charged
    <2> QED BY <1>1, <1>5, <2>1
<1> QED BY <1>2, <1>3, <1>4, <1>5 DEF Stages

LEMMA BegunKeeps ==
    ASSUME ResearchInv, NEW stage \in Stages \ {"extract"}, Begun(stage),
           stage = "search" => Searching, stage = "fetch" => Fetching
    PROVE  ResearchInv'
<1>1. RunTypeOK /\ ledger \in Ledgers
    BY DEF ResearchInv, RunTypeOK
<1>2. PICK r \in Readings :
          \/ Check(r) # "fine" /\ Stop(Check(r))
          \/ /\ Check(r) = "fine"
             /\ \E l \in Charged(stage, StartIteration(ledger, r)) :
                \/ Exceeds(l)
                \/ /\ Fits(l)
                   /\ Goto(stage, "launch")
                   /\ UNCHANGED <<work, snapshot, events, result, cancelled, launched, kept>>
    BY DEF Begun
<1>3. CASE Check(r) # "fine" /\ Stop(Check(r))
    BY <1>1, <1>3, Verdicts, StopKeeps
<1>4. CASE Check(r) = "fine"
    <2>1. PICK k \in Charged(stage, StartIteration(ledger, r)) :
                \/ Exceeds(k)
                \/ /\ Fits(k)
                   /\ Goto(stage, "launch")
                   /\ UNCHANGED <<work, snapshot, events, result, cancelled, launched, kept>>
        BY <1>2, <1>4
    <2> DEFINE l == StartIteration(ledger, r)
    <2>2. Spares(ledger, l)
        BY <1>1, <1>4, Verdicts, StartIterationSpares
    <2> HIDE DEF l
    <2>3. /\ l \in Ledgers /\ l.queries = ledger.queries /\ l.pages = ledger.pages
          /\ l.calls = ledger.calls /\ l.raw = ledger.raw /\ l.decoded = ledger.decoded
          /\ l.records = ledger.records /\ l.failed = ledger.failed
          /\ l.attempts = ledger.attempts
        BY <2>2 DEF Spares, Spent
    <2>4. l.attempts <= l.calls * MaxAttempts
        BY <2>3 DEF ResearchInv, AttemptsArePaid
    <2>5. k \in Charged(stage, l)
        BY <2>1 DEF l
    <2>6. /\ k \in Ledgers
          /\ ledger.queries <= k.queries /\ ledger.pages <= k.pages /\ ledger.calls <= k.calls
          /\ ledger.raw <= k.raw /\ ledger.decoded = k.decoded
          /\ k.records = ledger.records /\ k.failed = ledger.failed
          /\ k.attempts <= k.calls * MaxAttempts
          /\ ~k.over /\ stage = "search" => k.queries = ledger.queries + 1
          /\ ~k.over /\ stage = "fetch" =>
                 k.pages = ledger.pages + 1 /\ k.raw = ledger.raw + Reservation
          /\ ~k.over /\ stage \in {"plan", "synthesize"} =>
                 /\ k.calls = ledger.calls + 1
                 /\ k.attempts + (MaxAttempts - 1) <= k.calls * MaxAttempts
        BY <2>3, <2>4, <2>5, ChargedPays
    <2>7. CASE Exceeds(k)
        <3>1. ledger.decoded <= k.decoded
            BY <2>6, <1>1, RunNumbers
        <3> QED BY <2>6, <2>7, <3>1, ExceedsKeeps
    <2>8. CASE /\ Fits(k) /\ Goto(stage, "launch")
               /\ UNCHANGED <<work, snapshot, events, result, cancelled, launched, kept>>
        <3>1. /\ pc = <<stage, "begin">> /\ pc' = <<stage, "launch">>
              /\ ledger' = k /\ ~k.over
            BY <2>8 DEF Begun, At, Goto, Fits
        <3>2. /\ work' = work /\ snapshot' = snapshot /\ launched' = launched /\ kept' = kept
              /\ events' = events /\ result' = result /\ cancelled' = cancelled
            BY <2>8
        <3>3. /\ Stage = stage /\ Stage' = stage /\ Phase' = "launch" /\ Phase = "begin"
              /\ Launched'
            BY <3>1 DEF Stage, Phase, Launched
        <3>4. /\ k.queries \in Nat /\ k.pages \in Nat /\ k.calls \in Nat /\ k.raw \in Nat
              /\ k.failed \in Nat /\ k.decoded \in Nat
            BY <2>6, BudgetNumbers DEF Ledgers
        <3>5. RunTypeOK'
            <4>1. pc' \in Points
                BY <3>1 DEF Points, Phases
            <4> QED BY <1>1, <2>6, <3>1, <3>2, <4>1 DEF RunTypeOK
        <3>6. LaunchesArePaid'
            <4>1. /\ launched["search"] \in Nat /\ launched["fetch"] \in Nat
                  /\ launched["plan"] \in Nat /\ launched["synthesize"] \in Nat
                  /\ ledger.queries \in Nat /\ ledger.pages \in Nat /\ ledger.calls \in Nat
                BY <1>1, RunNumbers DEF Stages
            <4>2. /\ launched["search"] <= ledger.queries /\ launched["fetch"] <= ledger.pages
                  /\ launched["plan"] + launched["synthesize"] <= ledger.calls
                BY DEF ResearchInv, LaunchesArePaid
            <4>3. /\ At("search", "launch")' => stage = "search"
                  /\ At("fetch", "launch")' => stage = "fetch"
                  /\ At("plan", "launch")' \/ At("synthesize", "launch")' =>
                         stage \in {"plan", "synthesize"}
                BY <3>1 DEF At
            <4>4. /\ launched["search"] <= k.queries
                  /\ stage = "search" => launched["search"] < k.queries
                  /\ launched["fetch"] <= k.pages
                  /\ stage = "fetch" => launched["fetch"] < k.pages
                  /\ launched["plan"] + launched["synthesize"] <= k.calls
                  /\ stage \in {"plan", "synthesize"} =>
                         launched["plan"] + launched["synthesize"] < k.calls
                BY <2>6, <3>1, <3>4, <4>1, <4>2
            <4> QED BY <3>1, <3>2, <4>3, <4>4 DEF LaunchesArePaid
        <3>7. BytesArePaid'
            <4>1. kept <= ledger.decoded /\ kept <= ledger.raw
                BY DEF ResearchInv, BytesArePaid
            <4>2. /\ kept <= k.decoded /\ kept <= k.raw
                  /\ stage = "fetch" => kept + Reservation <= k.raw
                BY <1>1, <2>6, <3>1, <3>4, <4>1, RunNumbers, BudgetNumbers
            <4> QED BY <3>1, <3>2, <3>3, <4>2 DEF BytesArePaid
        <3>8. AttemptsArePaid'
            BY <2>6, <3>1, <3>3 DEF AttemptsArePaid
        <3>9. PagesArePaid'
            <4>1. PagesArePaid
                BY DEF ResearchInv
            <4>2. /\ Cardinality(snapshot.evidence) \in Nat
                  /\ Cardinality(work.documents) \in Nat
                BY <1>1, PagesAreFinite DEF RunTypeOK, Snapshots
            <4>3. ledger.failed \in Nat /\ ledger.pages \in Nat
                BY <1>1, RunNumbers
            <4>4. Gathering' = Gathering /\ (InPage' => stage = "fetch")
                BY <3>1, <3>3 DEF Gathering, InPage, Launched
            <4>5. k.failed + Cardinality(snapshot.evidence) <= k.pages
                BY <2>6, <3>4, <4>1, <4>2, <4>3 DEF PagesArePaid
            <4>6. Gathering => k.failed + Cardinality(work.documents) <= k.pages
                BY <2>6, <3>4, <4>1, <4>2, <4>3 DEF PagesArePaid
            <4>7. stage = "fetch" => k.failed + Cardinality(work.documents) < k.pages
                BY <2>6, <3>1, <3>3, <3>4, <4>1, <4>2, <4>3 DEF PagesArePaid, Gathering
            <4> QED BY <3>1, <3>2, <4>1, <4>4, <4>5, <4>6, <4>7 DEF PagesArePaid
        <3>10. MemoryIsRead'
            <4>1. At("memory", "wait")' = FALSE
                BY <3>1 DEF At
            <4> QED BY <2>6, <3>1, <3>2, <3>3, <4>1 DEF ResearchInv, MemoryIsRead
        <3>11. HitsAreInRange'
            BY <1>1, <3>1, <3>2, <3>3
               DEF ResearchInv, HitsAreInRange, InPage, Launched, Searching, Fetching
        <3> QED BY <3>5, <3>6, <3>7, <3>8, <3>9, <3>10, <3>11 DEF ResearchInv
    <2> QED BY <2>1, <2>7, <2>8
<1> QED BY <1>2, <1>3, <1>4

LEMMA ReadingFields ==
    ASSUME NEW l \in Ledgers, NEW r \in 0..Deadline
    PROVE  LET k == [l EXCEPT !.last = r] IN
           /\ k \in Ledgers /\ k.queries = l.queries /\ k.pages = l.pages
           /\ k.calls = l.calls /\ k.raw = l.raw /\ k.decoded = l.decoded
           /\ k.records = l.records /\ k.failed = l.failed /\ k.attempts = l.attempts
<1> DEFINE k == [l EXCEPT !.last = r]
<1>1. Spares(l, k)
    BY ReadingSpares
<1> HIDE DEF k
<1> QED BY <1>1 DEF Spares, Spent, k

\* A search that failed is not tried again.
LEMMA NextSearchKeeps ==
    ASSUME ResearchInv, NextSearch, Stage = "search", Launched
    PROVE  ResearchInv'
<1>1. /\ pc' = <<"search", "begin">> /\ work' = [work EXCEPT !.searches = @ - 1]
      /\ ledger' = ledger /\ snapshot' = snapshot /\ events' = events /\ result' = result
      /\ cancelled' = cancelled /\ launched' = launched /\ kept' = kept
    BY DEF NextSearch, Goto
<1>2. /\ Stage' = "search" /\ Phase' = "begin" /\ ~Launched' /\ ~InPage' /\ Gathering
      /\ Gathering' /\ ~At("search", "launch")' /\ ~At("fetch", "launch")'
      /\ ~At("plan", "launch")' /\ ~At("synthesize", "launch")' /\ ~At("memory", "wait")'
    BY <1>1 DEF Stage, Phase, Launched, InPage, Gathering, At
<1>3. RunTypeOK /\ work.searches > 0
    BY DEF ResearchInv, HitsAreInRange
<1>4. /\ work' \in Works /\ work'.searches = work.searches - 1
      /\ work'.documents = work.documents
      /\ work'.index = work.index
      /\ work'.found = work.found
      /\ work'.succeeded = work.succeeded
    <2>1. work \in Works /\ work.searches - 1 \in 0..Searches
        BY <1>3, RunAssumption DEF RunTypeOK, Works
    <2> QED BY <1>1, <2>1 DEF Works
<1>5. RunTypeOK'
    BY <1>1, <1>3, <1>4 DEF RunTypeOK, Points, Stages, Phases, Works
<1>6. LaunchesArePaid' /\ BytesArePaid' /\ AttemptsArePaid'
    BY <1>1, <1>2 DEF ResearchInv, LaunchesArePaid, BytesArePaid, AttemptsArePaid
<1>7. PagesArePaid'
    BY <1>1, <1>2, <1>4 DEF ResearchInv, PagesArePaid
<1>8. MemoryIsRead'
    BY <1>1, <1>2 DEF ResearchInv, MemoryIsRead
<1>9. HitsAreInRange'
    BY <1>2, <1>3, <1>4, RunNumbers DEF ResearchInv, HitsAreInRange
<1> QED BY <1>5, <1>6, <1>7, <1>8, <1>9 DEF ResearchInv

\* A page that failed is counted and the next one is tried.
LEMMA NextPageKeeps ==
    ASSUME ResearchInv, NextPage, InPage
    PROVE  ResearchInv'
<1>1. /\ pc' = <<"fetch", "begin">> /\ work' = [work EXCEPT !.index = @ + 1]
      /\ ledger' = [ledger EXCEPT !.failed = @ + 1]
      /\ snapshot' = snapshot /\ events' = events /\ result' = result
      /\ cancelled' = cancelled /\ launched' = launched /\ kept' = kept
    BY DEF NextPage, Goto
<1>2. /\ Stage' = "fetch" /\ Phase' = "begin" /\ ~Launched' /\ ~InPage' /\ Gathering
      /\ Gathering' /\ ~At("search", "launch")' /\ ~At("fetch", "launch")'
      /\ ~At("plan", "launch")' /\ ~At("synthesize", "launch")' /\ ~At("memory", "wait")'
      /\ Stage \in {"fetch", "extract"}
    BY <1>1 DEF Stage, Phase, Launched, InPage, Gathering, At
<1>3. /\ RunTypeOK /\ ledger \in Ledgers /\ work.index < work.found
      /\ ledger.failed + Cardinality(work.documents) < ledger.pages
      /\ snapshot.evidence = {}
    BY <1>2 DEF ResearchInv, RunTypeOK, HitsAreInRange, PagesArePaid
<1>4. Cardinality(work.documents) \in Nat
    BY <1>3, PagesAreFinite DEF RunTypeOK
<1>5. ledger.failed + 1 \in 0..MaxPages
    BY <1>3, <1>4, BudgetNumbers DEF Ledgers
<1>7. /\ ledger' \in Ledgers /\ ledger'.failed = ledger.failed + 1
      /\ ledger'.queries = ledger.queries /\ ledger'.pages = ledger.pages
      /\ ledger'.calls = ledger.calls /\ ledger'.raw = ledger.raw
      /\ ledger'.decoded = ledger.decoded /\ ledger'.records = ledger.records
      /\ ledger'.attempts = ledger.attempts
    BY <1>1, <1>3, <1>5 DEF Ledgers
<1>8. /\ work' \in Works /\ work'.index = work.index + 1
      /\ work'.documents = work.documents
      /\ work'.found = work.found
      /\ work'.succeeded = work.succeeded
      /\ work'.searches = work.searches
    <2>1. work \in Works /\ work.index + 1 \in 0..MaxHits
        BY <1>3, RunAssumption DEF RunTypeOK, Works
    <2> QED BY <1>1, <2>1 DEF Works
<1>9. RunTypeOK'
    BY <1>1, <1>3, <1>7, <1>8 DEF RunTypeOK, Points, Stages, Phases, Works
<1>10. LaunchesArePaid' /\ BytesArePaid' /\ AttemptsArePaid'
    BY <1>1, <1>2, <1>7 DEF ResearchInv, LaunchesArePaid, BytesArePaid, AttemptsArePaid
<1>11. PagesArePaid'
    <2>1. ledger'.failed + Cardinality(work.documents) <= ledger'.pages
        BY <1>3, <1>4, <1>7, RunNumbers
    <2>2. ledger'.failed + Cardinality({}) <= ledger'.pages
        BY <1>3, <1>4, <1>7, <2>1, RunNumbers, FS_EmptySet
    <2> QED BY <1>1, <1>2, <1>3, <1>8, <2>1, <2>2 DEF PagesArePaid
<1>12. MemoryIsRead'
    BY <1>1, <1>2, <1>7 DEF ResearchInv, MemoryIsRead
<1>13. HitsAreInRange'
    BY <1>2, <1>3, <1>8, RunNumbers DEF ResearchInv, HitsAreInRange
<1> QED BY <1>9, <1>10, <1>11, <1>12, <1>13 DEF ResearchInv

LEMMA ForgiveKeeps ==
    ASSUME ResearchInv, NEW stage \in Forgiving, Forgive(stage), Stage = stage, Launched
    PROVE  ResearchInv'
<1>1. CASE stage = "search"
    BY <1>1, NextSearchKeeps DEF Forgive
<1>2. CASE stage # "search"
    <2>1. InPage
        BY <1>2 DEF Forgiving, InPage
    <2> QED BY <1>2, <2>1, NextPageKeeps DEF Forgive
<1> QED BY <1>1, <1>2

LEMMA LaunchKeeps ==
    ASSUME ResearchInv, NEW stage \in Stages, Launch(stage)
    PROVE  ResearchInv'
<1>1. RunTypeOK /\ ledger \in Ledgers /\ pc = <<stage, "launch">>
    BY DEF ResearchInv, RunTypeOK, Launch, At
<1>2. Stage = stage /\ Phase = "launch" /\ Launched
    BY <1>1 DEF Stage, Phase, Launched
<1>3. PICK r \in Readings :
          LET v == LaunchCheck(r) IN
          \/ v = "invalid" /\ stage \in Forgiving /\ Forgive(stage)
          \/ v # "fine" /\ ~(v = "invalid" /\ stage \in Forgiving) /\ Stop(v)
          \/ /\ v = "fine"
             /\ ledger' = [ledger EXCEPT !.last = r]
             /\ launched' = [launched EXCEPT ![stage] = @ + 1]
             /\ Goto(stage, "wait")
             /\ UNCHANGED <<work, snapshot, events, result, cancelled, kept>>
    BY DEF Launch
<1>4. /\ Check(r) \in {"cancelled", "invalid", "exhausted", "fine"}
      /\ Check(r) = "fine" => r \in 0..Deadline
    BY <1>1, Verdicts
<1>5. CASE stage \in Forgiving /\ Forgive(stage)
    BY <1>2, <1>5, ForgiveKeeps
<1>6. CASE Check(r) # "fine" /\ Stop(Check(r))
    BY <1>4, <1>6, StopKeeps
<1>7. CASE /\ Check(r) = "fine"
           /\ ledger' = [ledger EXCEPT !.last = r]
           /\ launched' = [launched EXCEPT ![stage] = @ + 1]
           /\ Goto(stage, "wait")
           /\ UNCHANGED <<work, snapshot, events, result, cancelled, kept>>
    <2>1. /\ ledger' \in Ledgers /\ ledger'.queries = ledger.queries
          /\ ledger'.pages = ledger.pages /\ ledger'.calls = ledger.calls
          /\ ledger'.raw = ledger.raw /\ ledger'.decoded = ledger.decoded
          /\ ledger'.records = ledger.records /\ ledger'.failed = ledger.failed
          /\ ledger'.attempts = ledger.attempts
        BY <1>1, <1>4, <1>7, ReadingFields
    <2>2. /\ pc' = <<stage, "wait">> /\ work' = work /\ snapshot' = snapshot
          /\ events' = events /\ result' = result /\ cancelled' = cancelled /\ kept' = kept
        BY <1>7 DEF Goto
    <2>3. /\ Stage' = stage /\ Phase' = "wait" /\ Launched' /\ InPage' = InPage
          /\ Gathering' = Gathering /\ ~At("search", "launch")' /\ ~At("fetch", "launch")'
          /\ ~At("plan", "launch")' /\ ~At("synthesize", "launch")'
        BY <1>2, <2>2 DEF Stage, Phase, Launched, InPage, Gathering, At
    <2>4. /\ \A s \in Stages : launched[s] \in Nat
          /\ launched' \in [Stages -> Nat]
          /\ \A s \in Stages : launched'[s] = IF s = stage THEN launched[s] + 1 ELSE launched[s]
        <3>1. launched \in [Stages -> Nat]
            BY <1>1 DEF RunTypeOK
        <3> QED BY <1>7, <3>1
    <2>5. RunTypeOK'
        <3>1. pc' \in Points
            BY <2>2 DEF Points, Phases
        <3> QED BY <1>1, <2>1, <2>2, <2>4, <3>1 DEF RunTypeOK
    <2>6. LaunchesArePaid'
        <3>1. LaunchesArePaid
            BY DEF ResearchInv
        <3>2. ledger.queries \in Nat /\ ledger.pages \in Nat /\ ledger.calls \in Nat
            BY <1>1, RunNumbers
        <3>3. /\ {"search", "fetch", "plan", "synthesize"} \subseteq Stages
            BY DEF Stages
        <3>4. launched'["search"] <= ledger.queries
            BY <1>1, <2>4, <3>1, <3>2, <3>3 DEF LaunchesArePaid, At
        <3>5. launched'["fetch"] <= ledger.pages
            BY <1>1, <2>4, <3>1, <3>2, <3>3 DEF LaunchesArePaid, At
        <3>6. launched'["plan"] + launched'["synthesize"] <= ledger.calls
            <4>1. launched["plan"] \in Nat /\ launched["synthesize"] \in Nat
                BY <2>4, <3>3
            <4>2. CASE stage \in {"plan", "synthesize"}
                <5>1. launched["plan"] + launched["synthesize"] < ledger.calls
                    BY <1>1, <3>1, <4>2 DEF LaunchesArePaid, At
                <5> QED BY <2>4, <3>2, <3>3, <4>1, <4>2, <5>1
            <4>3. CASE stage \notin {"plan", "synthesize"}
                BY <2>4, <3>1, <3>3, <4>3 DEF LaunchesArePaid
            <4> QED BY <4>2, <4>3
        <3> QED BY <2>1, <2>3, <3>4, <3>5, <3>6 DEF LaunchesArePaid
    <2>7. BytesArePaid' /\ AttemptsArePaid' /\ PagesArePaid'
        BY <1>2, <2>1, <2>2, <2>3
           DEF ResearchInv, BytesArePaid, AttemptsArePaid, PagesArePaid
    <2>8. MemoryIsRead'
        <3>1. "memory" \in Stages
            BY DEF Stages
        <3>2. launched["memory"] > 0 \/ stage = "memory" => launched'["memory"] > 0
            BY <2>4, <3>1
        <3>3. ledger'.records > 0 => ledger.records > 0
            BY <2>1
        <3>4. At("memory", "wait")' => stage = "memory"
            BY <2>2 DEF At
        <3> QED BY <1>2, <2>3, <3>2, <3>3, <3>4 DEF ResearchInv, MemoryIsRead
    <2>9. HitsAreInRange'
        BY <1>2, <2>2, <2>3 DEF ResearchInv, HitsAreInRange
    <2> QED BY <2>5, <2>6, <2>7, <2>8, <2>9 DEF ResearchInv
<1> QED BY <1>3, <1>4, <1>5, <1>6, <1>7 DEF LaunchCheck

\* An adapter that fails, or whose answer comes too late.
LEMMA FailuresKeep ==
    ASSUME ResearchInv, NEW stage \in Stages,
           AnswerStops(stage) \/ AdapterFails(stage)
    PROVE  ResearchInv'
<1>1. RunTypeOK /\ pc = <<stage, "wait">>
    BY DEF ResearchInv, AnswerStops, AdapterFails, At
<1>2. Stage = stage /\ Launched
    BY <1>1 DEF Stage, Phase, Launched
<1>3. CASE stage \in Forgiving /\ Forgive(stage)
    BY <1>2, <1>3, ForgiveKeeps
<1>4. CASE \E r \in Readings : Check(r) # "fine" /\ Stop(Check(r))
    BY <1>1, <1>4, Verdicts, StopKeeps
<1>5. CASE Stop("invalid")
    BY <1>5, StopKeeps
<1> QED BY <1>3, <1>4, <1>5 DEF AnswerStops, AdapterFails
-----------------------------------------------------------------------------
\* What the adapters answer.

LEMMA FinishedCall ==
    ASSUME ResearchInv, NEW stage \in {"plan", "synthesize"}, NEW r \in Readings,
           InTime(stage, r), NEW attempts \in 1..(MaxAttempts + 1), NEW n \in Replies
    PROVE  LET k == FinishModelCall([ledger EXCEPT !.last = r], attempts, n) IN
           /\ k \in Ledgers /\ k.queries = ledger.queries /\ k.pages = ledger.pages
           /\ k.calls = ledger.calls /\ k.raw = ledger.raw /\ k.decoded = ledger.decoded
           /\ k.records = ledger.records /\ k.failed = ledger.failed
           /\ k.attempts <= k.calls * MaxAttempts
<1> DEFINE l == [ledger EXCEPT !.last = r]
           k == FinishModelCall(l, attempts, n)
<1>1. /\ RunTypeOK /\ ledger \in Ledgers /\ pc = <<stage, "wait">> /\ Check(r) = "fine"
      /\ AttemptsArePaid
    BY DEF ResearchInv, RunTypeOK, InTime, At
<1>2. /\ l \in Ledgers /\ l.queries = ledger.queries /\ l.pages = ledger.pages
      /\ l.calls = ledger.calls /\ l.raw = ledger.raw /\ l.decoded = ledger.decoded
      /\ l.records = ledger.records /\ l.failed = ledger.failed
      /\ l.attempts = ledger.attempts
    BY <1>1, Verdicts, ReadingFields
<1> HIDE DEF l
<1>3. attempts \in Nat /\ n \in Nat
    BY RunAssumption, BudgetNumbers
<1>4. /\ k \in Ledgers /\ \A f \in Spent \ {"attempts"} : k[f] = l[f]
      /\ k.attempts <= l.attempts + (MaxAttempts - 1)
    BY <1>2, <1>3, FinishModelCallSpends
<1> HIDE DEF k
<1>5. /\ k.queries = l.queries /\ k.pages = l.pages /\ k.calls = l.calls /\ k.raw = l.raw
      /\ k.decoded = l.decoded /\ k.records = l.records /\ k.failed = l.failed
    BY <1>4 DEF Spent
<1>6. k.attempts <= k.calls * MaxAttempts
    <2>1. ledger.attempts + (MaxAttempts - 1) <= ledger.calls * MaxAttempts
        BY <1>1 DEF AttemptsArePaid, Stage, Phase, Launched
    <2>2. ledger.attempts \in Nat /\ k.attempts \in Nat /\ ledger.calls * MaxAttempts \in Nat
        BY <1>1, <1>4, RunNumbers, BudgetNumbers, Multiples DEF Ledgers, MaxTotal
    <2>3. k.calls * MaxAttempts = ledger.calls * MaxAttempts
        BY <1>2, <1>5
    <2> QED BY <1>2, <1>4, <2>1, <2>2, <2>3, BudgetNumbers
<1> QED BY <1>2, <1>4, <1>5, <1>6 DEF k, l

LEMMA ExceededCallKeeps ==
    ASSUME ResearchInv, NEW stage \in {"plan", "synthesize"}, NEW r \in Readings,
           InTime(stage, r), NEW attempts \in 1..(MaxAttempts + 1), NEW n \in Replies,
           Exceeds(FinishModelCall([ledger EXCEPT !.last = r], attempts, n))
    PROVE  ResearchInv'
<1> DEFINE k == FinishModelCall([ledger EXCEPT !.last = r], attempts, n)
<1>1. /\ k \in Ledgers /\ k.queries = ledger.queries /\ k.pages = ledger.pages
      /\ k.calls = ledger.calls /\ k.raw = ledger.raw /\ k.decoded = ledger.decoded
      /\ k.records = ledger.records /\ k.failed = ledger.failed
      /\ k.attempts <= k.calls * MaxAttempts
    BY FinishedCall
<1>2. Exceeds(k)
    OBVIOUS
<1> HIDE DEF k
<1>3. /\ ledger.queries <= k.queries /\ ledger.pages <= k.pages /\ ledger.calls <= k.calls
      /\ ledger.raw <= k.raw /\ ledger.decoded <= k.decoded
    BY <1>1, RunNumbers DEF ResearchInv
<1> QED BY <1>1, <1>2, <1>3, ExceedsKeeps

LEMMA EventsExtend ==
    ASSUME RunTypeOK,
           NEW told \in Seq({"plan_accepted", "search_started", "evidence_ready",
                             "answer_drafted", "run_completed"})
    PROVE  events \o told \in Seq({"run_created", "plan_accepted", "search_started",
                                   "evidence_ready", "answer_drafted", "run_completed",
                                   "run_failed", "run_cancelled"})
<1> DEFINE E == {"run_created", "plan_accepted", "search_started", "evidence_ready",
                 "answer_drafted", "run_completed", "run_failed", "run_cancelled"}
<1>1. events \in Seq(E) /\ told \in Seq(E)
    BY DEF RunTypeOK
<1> HIDE DEF E
<1>2. events \o told \in Seq(E)
    BY <1>1, ConcatProperties
<1> QED BY <1>2 DEF E

LEMMA PlanAnsweredKeeps ==
    ASSUME ResearchInv, PlanAnswered
    PROVE  ResearchInv'
<1>1. PICK r \in Readings, n \in Replies, attempts \in 1..(MaxAttempts + 1) :
        LET l == FinishModelCall([ledger EXCEPT !.last = r], attempts, n) IN
        /\ InTime("plan", r)
        /\ \/ Exceeds(l)
           \/ /\ Fits(l)
              /\ \/ AnswerDirectly
                 \/ \E searches \in 1..Searches, urls \in 0..MaxHits : StartSearch(searches, urls)
    BY DEF PlanAnswered
<1> DEFINE k == FinishModelCall([ledger EXCEPT !.last = r], attempts, n)
<1>2. CASE Exceeds(k)
    BY <1>1, <1>2, ExceededCallKeeps
<1>3. CASE /\ Fits(k)
           /\ \/ AnswerDirectly
              \/ \E searches \in 1..Searches, urls \in 0..MaxHits : StartSearch(searches, urls)
    <2>1. /\ k \in Ledgers /\ k.queries = ledger.queries /\ k.pages = ledger.pages
          /\ k.calls = ledger.calls /\ k.raw = ledger.raw /\ k.decoded = ledger.decoded
          /\ k.records = ledger.records /\ k.failed = ledger.failed
          /\ k.attempts <= k.calls * MaxAttempts
        BY <1>1, FinishedCall
    <2>2. ledger' = k
        BY <1>3 DEF Fits
    <2> HIDE DEF k
    <2>3. /\ pc = <<"plan", "wait">> /\ Stage = "plan" /\ RunTypeOK
          /\ work.index = 0 /\ work.succeeded = 0
        BY <1>1 DEF InTime, At, Stage, ResearchInv, HitsAreInRange
    <2>4. CASE AnswerDirectly
        <3>1. /\ pc' = <<"over", "begin">> /\ work' = work /\ cancelled' = cancelled
              /\ launched' = launched /\ kept' = kept
              /\ snapshot' = [snapshot EXCEPT !.status = "completed", !.answered = TRUE]
              /\ result' = snapshot'
              /\ events' = events \o <<"answer_drafted", "run_completed">>
            BY <2>4 DEF AnswerDirectly, Goto
        <3>2. /\ Stage' = "over" /\ ~Launched' /\ ~InPage' /\ ~Gathering'
              /\ ~At("search", "launch")' /\ ~At("fetch", "launch")'
              /\ ~At("plan", "launch")' /\ ~At("synthesize", "launch")'
              /\ ~At("memory", "wait")'
            BY <3>1 DEF Stage, Phase, Launched, InPage, Gathering, At
        <3>3. snapshot' \in Snapshots /\ snapshot'.evidence = snapshot.evidence
            <4>1. snapshot \in Snapshots
                BY <2>3 DEF RunTypeOK
            <4> QED BY <3>1, <4>1 DEF Snapshots
        <3>4. RunTypeOK'
            <4>1. pc' \in Points
                BY <3>1 DEF Points
            <4>2. <<"answer_drafted", "run_completed">> \in
                      Seq({"plan_accepted", "search_started", "evidence_ready",
                           "answer_drafted", "run_completed"})
                OBVIOUS
            <4> QED BY <2>1, <2>2, <2>3, <3>1, <3>3, <4>1, <4>2, EventsExtend DEF RunTypeOK
        <3>5. LaunchesArePaid' /\ BytesArePaid' /\ AttemptsArePaid' /\ PagesArePaid'
            BY <2>1, <2>2, <3>1, <3>2, <3>3
               DEF ResearchInv, LaunchesArePaid, BytesArePaid, AttemptsArePaid, PagesArePaid
        <3>6. MemoryIsRead' /\ HitsAreInRange'
            BY <2>1, <2>2, <2>3, <3>1, <3>2
               DEF ResearchInv, MemoryIsRead, HitsAreInRange, RunTypeOK
        <3> QED BY <3>4, <3>5, <3>6 DEF ResearchInv
    <2>5. CASE \E searches \in 1..Searches, urls \in 0..MaxHits : StartSearch(searches, urls)
        <3>1. PICK searches \in 1..Searches, urls \in 0..MaxHits : StartSearch(searches, urls)
            BY <2>5
        <3>2. /\ pc' = <<"search", "begin">> /\ result' = result /\ cancelled' = cancelled
              /\ launched' = launched /\ kept' = kept
              /\ work' = [work EXCEPT !.searches = searches, !.found = urls]
              /\ snapshot' = [snapshot EXCEPT !.status = "searching"]
              /\ events' = events \o <<"plan_accepted", "search_started">>
            BY <3>1 DEF StartSearch, Goto
        <3>3. /\ Stage' = "search" /\ ~Launched' /\ ~InPage' /\ Gathering' /\ Gathering
              /\ ~At("search", "launch")' /\ ~At("fetch", "launch")'
              /\ ~At("plan", "launch")' /\ ~At("synthesize", "launch")'
              /\ ~At("memory", "wait")'
            BY <2>3, <3>2 DEF Stage, Phase, Launched, InPage, Gathering, At
        <3>4. snapshot' \in Snapshots /\ snapshot'.evidence = snapshot.evidence
            <4>1. snapshot \in Snapshots
                BY <2>3 DEF RunTypeOK
            <4> QED BY <3>2, <4>1 DEF Snapshots
        <3>5. /\ work' \in Works /\ work'.searches = searches /\ work'.found = urls
              /\ work'.index = work.index /\ work'.succeeded = work.succeeded
              /\ work'.documents = work.documents
            <4>1. work \in Works /\ searches \in 0..Searches
                BY <2>3, RunAssumption DEF RunTypeOK, Works
            <4> QED BY <3>2, <4>1 DEF Works
        <3>6. RunTypeOK'
            <4>1. pc' \in Points
                BY <3>2 DEF Points, Stages, Phases
            <4>2. <<"plan_accepted", "search_started">> \in
                      Seq({"plan_accepted", "search_started", "evidence_ready",
                           "answer_drafted", "run_completed"})
                OBVIOUS
            <4> QED BY <2>1, <2>2, <2>3, <3>2, <3>4, <3>5, <4>1, <4>2, EventsExtend
                    DEF RunTypeOK, Works
        <3>7. LaunchesArePaid' /\ BytesArePaid' /\ AttemptsArePaid' /\ PagesArePaid'
            BY <2>1, <2>2, <3>2, <3>3, <3>4, <3>5
               DEF ResearchInv, LaunchesArePaid, BytesArePaid, AttemptsArePaid, PagesArePaid
        <3>8. MemoryIsRead'
            BY <2>1, <2>2, <3>2, <3>3 DEF ResearchInv, MemoryIsRead
        <3>9. HitsAreInRange'
            BY <2>3, <3>3, <3>5, RunAssumption DEF HitsAreInRange
        <3> QED BY <3>6, <3>7, <3>8, <3>9 DEF ResearchInv
    <2> QED BY <1>3, <2>4, <2>5
<1> QED BY <1>1, <1>2, <1>3

LEMMA SearchAnsweredKeeps ==
    ASSUME ResearchInv, SearchAnswered
    PROVE  ResearchInv'
<1>1. PICK r \in Readings, n \in 0..(MaxHits - work.found) :
        /\ InTime("search", r)
        /\ ledger' = [ledger EXCEPT !.last = r]
        /\ work' = [work EXCEPT !.searches = @ - 1, !.succeeded = @ + 1, !.found = @ + n]
        /\ Goto("search", "begin")
        /\ UNCHANGED <<snapshot, events, result, cancelled, launched, kept>>
    BY DEF SearchAnswered
<1>2. /\ RunTypeOK /\ ledger \in Ledgers /\ pc = <<"search", "wait">> /\ Check(r) = "fine"
    BY <1>1 DEF ResearchInv, RunTypeOK, InTime, At
<1>3. /\ ledger' \in Ledgers /\ ledger'.queries = ledger.queries
      /\ ledger'.pages = ledger.pages /\ ledger'.calls = ledger.calls
      /\ ledger'.raw = ledger.raw /\ ledger'.decoded = ledger.decoded
      /\ ledger'.records = ledger.records /\ ledger'.failed = ledger.failed
      /\ ledger'.attempts = ledger.attempts
    BY <1>1, <1>2, Verdicts, ReadingFields
<1>4. /\ pc' = <<"search", "begin">> /\ snapshot' = snapshot /\ events' = events
      /\ result' = result /\ cancelled' = cancelled /\ launched' = launched /\ kept' = kept
    BY <1>1 DEF Goto
<1>5. /\ Stage = "search" /\ Launched /\ Gathering
      /\ Stage' = "search" /\ ~Launched' /\ ~InPage' /\ Gathering'
      /\ ~At("search", "launch")' /\ ~At("fetch", "launch")'
      /\ ~At("plan", "launch")' /\ ~At("synthesize", "launch")' /\ ~At("memory", "wait")'
    BY <1>2, <1>4 DEF Stage, Phase, Launched, InPage, Gathering, At
<1>6. /\ work.searches > 0 /\ work.succeeded + work.searches <= Searches
      /\ work.index <= work.found
    BY <1>5 DEF ResearchInv, HitsAreInRange
<1>7. /\ work' \in Works /\ work'.searches = work.searches - 1
      /\ work'.succeeded = work.succeeded + 1 /\ work'.found = work.found + n
      /\ work'.index = work.index /\ work'.documents = work.documents
    <2>1. /\ work \in Works /\ work.searches - 1 \in 0..Searches
          /\ work.succeeded + 1 \in 0..Searches /\ work.found + n \in 0..MaxHits
        BY <1>2, <1>6, RunAssumption DEF RunTypeOK, Works
    <2>2. work' = [work EXCEPT !.searches = @ - 1, !.succeeded = @ + 1, !.found = @ + n]
        BY <1>1
    <2>3. work' \in Works
        BY <2>1, <2>2 DEF Works
    <2> QED BY <2>1, <2>2, <2>3 DEF Works
<1>8. RunTypeOK'
    BY <1>2, <1>3, <1>4, <1>7 DEF RunTypeOK, Points, Stages, Phases, Works
<1>9. LaunchesArePaid' /\ BytesArePaid' /\ AttemptsArePaid' /\ PagesArePaid'
    BY <1>3, <1>4, <1>5, <1>7
       DEF ResearchInv, LaunchesArePaid, BytesArePaid, AttemptsArePaid, PagesArePaid
<1>10. MemoryIsRead'
    BY <1>3, <1>4, <1>5 DEF ResearchInv, MemoryIsRead
<1>11. HitsAreInRange'
    BY <1>2, <1>5, <1>6, <1>7, RunNumbers DEF HitsAreInRange
<1> QED BY <1>8, <1>9, <1>10, <1>11 DEF ResearchInv

\* The run fails at a stage of its own, from the snapshot that it holds.
LEMMA FailedSnapshot ==
    ASSUME RunTypeOK, NEW reason \in {"no_evidence", "search_failed"}
    PROVE  /\ Failed(snapshot, reason) \in Snapshots
           /\ Failed(snapshot, reason).status = "failed"
           /\ Failed(snapshot, reason).reason = reason
           /\ Failed(snapshot, reason).evidence = snapshot.evidence
           /\ Failed(snapshot, reason).answered = snapshot.answered
           /\ Failed(snapshot, reason).citations = snapshot.citations
           /\ Failed(snapshot, reason).claims = snapshot.claims
<1>1. snapshot \in Snapshots
    BY DEF RunTypeOK
<1> QED BY <1>1 DEF Failed, Snapshots

LEMMA EndSearchKeeps ==
    ASSUME ResearchInv, EndSearch
    PROVE  ResearchInv'
<1>1. RunTypeOK /\ pc = <<"search", "begin">> /\ ledger \in Ledgers /\ ledger' = ledger
    BY DEF ResearchInv, RunTypeOK, EndSearch, At
<1>2. CASE /\ Goto("fetch", "begin")
           /\ UNCHANGED <<ledger, work, snapshot, events, result, cancelled, launched, kept>>
    <2>1. /\ pc' = <<"fetch", "begin">> /\ work' = work /\ snapshot' = snapshot
          /\ events' = events /\ result' = result /\ cancelled' = cancelled
          /\ launched' = launched /\ kept' = kept
        BY <1>2 DEF Goto
    <2>2. /\ Stage = "search" /\ Stage' = "fetch" /\ ~Launched' /\ ~InPage'
          /\ Gathering /\ Gathering'
          /\ ~At("search", "launch")' /\ ~At("fetch", "launch")'
          /\ ~At("plan", "launch")' /\ ~At("synthesize", "launch")' /\ ~At("memory", "wait")'
        BY <1>1, <2>1 DEF Stage, Phase, Launched, InPage, Gathering, At
    <2>3. RunTypeOK'
        BY <1>1, <2>1 DEF RunTypeOK, Points, Stages, Phases
    <2>4. LaunchesArePaid' /\ BytesArePaid' /\ AttemptsArePaid' /\ PagesArePaid'
        BY <1>1, <2>1, <2>2
           DEF ResearchInv, LaunchesArePaid, BytesArePaid, AttemptsArePaid, PagesArePaid
    <2>5. MemoryIsRead' /\ HitsAreInRange'
        BY <1>1, <2>1, <2>2 DEF ResearchInv, MemoryIsRead, HitsAreInRange
    <2> QED BY <2>3, <2>4, <2>5 DEF ResearchInv
<1>3. CASE \E reason \in {"no_evidence", "search_failed"} : Report(Failed(snapshot, reason))
    <2>1. PICK reason \in {"no_evidence", "search_failed"} : Report(Failed(snapshot, reason))
        BY <1>3
    <2>2. Failed(snapshot, reason) \in Snapshots /\ Failed(snapshot, reason).status \in Ends
        BY <1>1, FailedSnapshot DEF Ends
    <2>3. /\ ledger.attempts <= ledger.calls * MaxAttempts
          /\ ledger.failed + Cardinality(snapshot.evidence) <= ledger.pages
        BY DEF ResearchInv, AttemptsArePaid, PagesArePaid
    <2>4. /\ ledger.queries <= ledger.queries /\ ledger.pages <= ledger.pages
          /\ ledger.calls <= ledger.calls /\ ledger.raw <= ledger.raw
          /\ ledger.decoded <= ledger.decoded
        BY <1>1, RunNumbers
    <2> QED BY <1>1, <2>1, <2>2, <2>3, <2>4, ReportKeeps
<1> QED BY <1>2, <1>3 DEF EndSearch

LEMMA FetchAnsweredKeeps ==
    ASSUME ResearchInv, FetchAnswered
    PROVE  ResearchInv'
<1>1. PICK r \in Readings, size \in Sizes :
        LET l == AccountBody([ledger EXCEPT !.last = r], size) IN
        /\ InTime("fetch", r)
        /\ \/ Exceeds(l)
           \/ /\ Fits(l)
              /\ kept' = kept + size
              /\ Goto("extract", "launch")
              /\ UNCHANGED <<work, snapshot, events, result, cancelled, launched>>
    BY DEF FetchAnswered
<1>2. /\ RunTypeOK /\ ledger \in Ledgers /\ pc = <<"fetch", "wait">> /\ Check(r) = "fine"
      /\ size \in Nat
    BY <1>1, RunAssumption DEF ResearchInv, RunTypeOK, InTime, At
<1> DEFINE l == [ledger EXCEPT !.last = r]
           k == AccountBody(l, size)
<1>3. /\ l \in Ledgers /\ l.queries = ledger.queries /\ l.pages = ledger.pages
      /\ l.calls = ledger.calls /\ l.raw = ledger.raw /\ l.decoded = ledger.decoded
      /\ l.records = ledger.records /\ l.failed = ledger.failed
      /\ l.attempts = ledger.attempts
    BY <1>2, Verdicts, ReadingFields
<1> HIDE DEF l
<1>4. /\ k \in Ledgers /\ \A f \in Spent \ {"raw", "decoded"} : k[f] = l[f]
      /\ k.raw >= l.raw /\ k.decoded >= l.decoded
      /\ ~k.over => k.raw + Reservation >= l.raw + size /\ k.decoded = l.decoded + size
    BY <1>2, <1>3, AccountBodySpends
<1>5. \/ Exceeds(k)
      \/ /\ Fits(k)
         /\ kept' = kept + size
         /\ Goto("extract", "launch")
         /\ UNCHANGED <<work, snapshot, events, result, cancelled, launched>>
    BY <1>1 DEF l
<1> HIDE DEF k
<1>6. /\ k.queries = ledger.queries /\ k.pages = ledger.pages /\ k.calls = ledger.calls
      /\ k.records = ledger.records /\ k.failed = ledger.failed
      /\ k.attempts = ledger.attempts
    BY <1>3, <1>4 DEF Spent
<1>7. CASE Exceeds(k)
    <2>1. /\ ledger.queries <= k.queries /\ ledger.pages <= k.pages
          /\ ledger.calls <= k.calls /\ ledger.raw <= k.raw /\ ledger.decoded <= k.decoded
        <3>1. k.raw \in Nat /\ k.decoded \in Nat
            BY <1>4, BudgetNumbers DEF Ledgers
        <3> QED BY <1>2, <1>3, <1>4, <1>6, <3>1, RunNumbers
    <2>2. k.attempts <= k.calls * MaxAttempts
        BY <1>6 DEF ResearchInv, AttemptsArePaid
    <2> QED BY <1>4, <1>6, <1>7, <2>1, <2>2, ExceedsKeeps
<1>8. CASE /\ Fits(k)
           /\ kept' = kept + size
           /\ Goto("extract", "launch")
           /\ UNCHANGED <<work, snapshot, events, result, cancelled, launched>>
    <2>1. /\ pc' = <<"extract", "launch">> /\ work' = work /\ snapshot' = snapshot
          /\ events' = events /\ result' = result /\ cancelled' = cancelled
          /\ launched' = launched /\ kept' = kept + size /\ ledger' = k /\ ~k.over
        BY <1>8 DEF Goto, Fits
    <2>2. /\ Stage = "fetch" /\ Launched /\ InPage /\ Gathering
          /\ Stage' = "extract" /\ Launched' /\ InPage' /\ Gathering'
          /\ ~At("search", "launch")' /\ ~At("fetch", "launch")'
          /\ ~At("plan", "launch")' /\ ~At("synthesize", "launch")' /\ ~At("memory", "wait")'
        BY <1>2, <2>1 DEF Stage, Phase, Launched, InPage, Gathering, At
    <2>3. kept \in Nat /\ kept + size \in Nat
        BY <1>2, RunNumbers
    <2>4. RunTypeOK'
        BY <1>2, <1>4, <2>1, <2>3 DEF RunTypeOK, Points, Stages, Phases
    <2>5. BytesArePaid'
        <3>1. /\ kept <= ledger.decoded /\ kept + Reservation <= ledger.raw
            BY <2>2 DEF ResearchInv, BytesArePaid
        <3>2. k.raw \in Nat /\ k.decoded \in Nat
            BY <1>4, BudgetNumbers DEF Ledgers
        <3>3. k.raw + Reservation >= ledger.raw + size /\ k.decoded = ledger.decoded + size
            BY <1>3, <1>4, <2>1
        <3>4. kept + size <= k.raw /\ kept + size <= k.decoded
            BY <1>2, <2>3, <3>1, <3>2, <3>3, RunNumbers, BudgetNumbers
        <3> QED BY <2>1, <2>2, <3>4 DEF BytesArePaid
    <2>6. LaunchesArePaid' /\ AttemptsArePaid' /\ PagesArePaid'
        BY <1>6, <2>1, <2>2 DEF ResearchInv, LaunchesArePaid, AttemptsArePaid, PagesArePaid
    <2>7. MemoryIsRead' /\ HitsAreInRange'
        BY <1>6, <2>1, <2>2 DEF ResearchInv, MemoryIsRead, HitsAreInRange
    <2> QED BY <2>4, <2>5, <2>6, <2>7 DEF ResearchInv
<1> QED BY <1>5, <1>7, <1>8

LEMMA ExtractAnsweredKeeps ==
    ASSUME ResearchInv, ExtractAnswered
    PROVE  ResearchInv'
<1>1. PICK r \in Readings :
        /\ InTime("extract", r)
        /\ ledger' = [ledger EXCEPT !.last = r]
        /\ work' = [work EXCEPT !.index = @ + 1, !.documents = @ \cup {work.index + 1}]
        /\ Goto("fetch", "begin")
        /\ UNCHANGED <<snapshot, events, result, cancelled, launched, kept>>
    BY DEF ExtractAnswered
<1>2. /\ RunTypeOK /\ ledger \in Ledgers /\ pc = <<"extract", "wait">> /\ Check(r) = "fine"
    BY <1>1 DEF ResearchInv, RunTypeOK, InTime, At
<1>3. /\ ledger' \in Ledgers /\ ledger'.queries = ledger.queries
      /\ ledger'.pages = ledger.pages /\ ledger'.calls = ledger.calls
      /\ ledger'.raw = ledger.raw /\ ledger'.decoded = ledger.decoded
      /\ ledger'.records = ledger.records /\ ledger'.failed = ledger.failed
      /\ ledger'.attempts = ledger.attempts
    BY <1>1, <1>2, Verdicts, ReadingFields
<1>4. /\ pc' = <<"fetch", "begin">> /\ snapshot' = snapshot /\ events' = events
      /\ result' = result /\ cancelled' = cancelled /\ launched' = launched /\ kept' = kept
    BY <1>1 DEF Goto
<1>5. /\ Stage = "extract" /\ Gathering /\ InPage
      /\ Stage' = "fetch" /\ ~Launched' /\ ~InPage' /\ Gathering'
      /\ ~At("search", "launch")' /\ ~At("fetch", "launch")'
      /\ ~At("plan", "launch")' /\ ~At("synthesize", "launch")' /\ ~At("memory", "wait")'
    BY <1>2, <1>4 DEF Stage, Phase, Launched, InPage, Gathering, At
<1>6. /\ work.index < work.found /\ work.succeeded + work.searches <= Searches
      /\ ledger.failed + Cardinality(work.documents) < ledger.pages
      /\ snapshot.evidence = {}
    BY <1>5 DEF ResearchInv, HitsAreInRange, PagesArePaid
<1> DEFINE docs == work.documents \cup {work.index + 1}
<1>7. /\ work' \in Works /\ work'.searches = work.searches
      /\ work'.succeeded = work.succeeded /\ work'.found = work.found
      /\ work'.index = work.index + 1 /\ work'.documents = docs
    <2>1. /\ work \in Works /\ work.index + 1 \in 0..MaxHits /\ work.index + 1 \in Pages
        BY <1>2, <1>6, RunAssumption DEF RunTypeOK, Works, Pages
    <2>2. docs \in SUBSET Pages
        BY <2>1 DEF Works
    <2> HIDE DEF docs
    <2>3. work' = [work EXCEPT !.index = @ + 1, !.documents = docs]
        BY <1>1 DEF docs
    <2> QED BY <2>1, <2>2, <2>3 DEF Works
<1>8. RunTypeOK'
    BY <1>2, <1>3, <1>4, <1>7 DEF RunTypeOK, Points, Stages, Phases, Works
<1>9. LaunchesArePaid' /\ BytesArePaid' /\ AttemptsArePaid'
    BY <1>3, <1>4, <1>5 DEF ResearchInv, LaunchesArePaid, BytesArePaid, AttemptsArePaid
<1>10. PagesArePaid'
    <2>1. IsFiniteSet(work.documents) /\ Cardinality(work.documents) \in Nat
        BY <1>2, PagesAreFinite DEF RunTypeOK
    <2>2. Cardinality(docs) <= Cardinality(work.documents) + 1 /\ Cardinality(docs) \in Nat
        BY <2>1, FS_AddElement
    <2> HIDE DEF docs
    <2>3. ledger.failed + Cardinality(docs) <= ledger.pages
        BY <1>2, <1>6, <2>1, <2>2, RunNumbers
    <2> QED BY <1>3, <1>4, <1>5, <1>6, <1>7, <2>3 DEF ResearchInv, PagesArePaid
<1>11. MemoryIsRead'
    BY <1>3, <1>4, <1>5 DEF ResearchInv, MemoryIsRead
<1>12. HitsAreInRange'
    BY <1>2, <1>5, <1>6, <1>7, RunNumbers DEF HitsAreInRange
<1> QED BY <1>8, <1>9, <1>10, <1>11, <1>12 DEF ResearchInv

LEMMA EndFetchKeeps ==
    ASSUME ResearchInv, EndFetch
    PROVE  ResearchInv'
<1>1. /\ RunTypeOK /\ pc = <<"fetch", "begin">> /\ pc' = <<"rank", "begin">>
      /\ ledger' = ledger /\ work' = work /\ snapshot' = snapshot
      /\ events' = events /\ result' = result /\ cancelled' = cancelled
      /\ launched' = launched /\ kept' = kept
    BY DEF ResearchInv, EndFetch, At, Goto
<1>2. /\ Stage = "fetch" /\ Stage' = "rank" /\ ~Launched' /\ ~InPage'
      /\ Gathering /\ Gathering'
      /\ ~At("search", "launch")' /\ ~At("fetch", "launch")'
      /\ ~At("plan", "launch")' /\ ~At("synthesize", "launch")' /\ ~At("memory", "wait")'
    BY <1>1 DEF Stage, Phase, Launched, InPage, Gathering, At
<1>3. RunTypeOK'
    BY <1>1 DEF RunTypeOK, Points
<1>4. LaunchesArePaid' /\ BytesArePaid' /\ AttemptsArePaid' /\ PagesArePaid'
    BY <1>1, <1>2
       DEF ResearchInv, LaunchesArePaid, BytesArePaid, AttemptsArePaid, PagesArePaid
<1>5. MemoryIsRead' /\ HitsAreInRange'
    BY <1>1, <1>2 DEF ResearchInv, MemoryIsRead, HitsAreInRange
<1> QED BY <1>3, <1>4, <1>5 DEF ResearchInv

LEMMA RankKeeps ==
    ASSUME ResearchInv, Rank
    PROVE  ResearchInv'
<1>1. PICK records \in SUBSET work.documents, unbuilt \in SUBSET work.documents :
        /\ records \cap unbuilt = {} /\ Cardinality(records \cup unbuilt) <= MaxSelected
        /\ ledger' = [ledger EXCEPT !.failed = @ + Cardinality(unbuilt)]
        /\ IF records = {}
           THEN Report(Failed(snapshot, "no_evidence"))
           ELSE /\ snapshot' = [snapshot EXCEPT !.status = "evidence_ready", !.evidence = records]
                /\ events' = Append(events, "evidence_ready")
                /\ \E next \in {"memory", "synthesize"} : Goto(next, "begin")
                /\ UNCHANGED <<work, result, cancelled, launched, kept>>
    BY DEF Rank
<1>2. /\ RunTypeOK /\ ledger \in Ledgers /\ pc = <<"rank", "begin">>
      /\ Stage = "rank" /\ Gathering
    BY DEF ResearchInv, RunTypeOK, Rank, At, Stage, Gathering
<1>3. /\ snapshot.evidence = {}
      /\ ledger.failed + Cardinality(work.documents) <= ledger.pages
      /\ ledger.attempts <= ledger.calls * MaxAttempts
    BY <1>2 DEF ResearchInv, PagesArePaid, AttemptsArePaid
<1>4. /\ IsFiniteSet(work.documents) /\ Cardinality(work.documents) \in Nat
      /\ records \in SUBSET Pages
    BY <1>2, PagesAreFinite DEF RunTypeOK
<1>5. /\ IsFiniteSet(records) /\ IsFiniteSet(unbuilt)
      /\ Cardinality(records) \in Nat /\ Cardinality(unbuilt) \in Nat
    BY <1>4, FS_Subset, FS_CardinalityType
<1>6. Cardinality(records) + Cardinality(unbuilt) <= Cardinality(work.documents)
    <2>1. Cardinality(records \cup unbuilt) = Cardinality(records) + Cardinality(unbuilt)
        <3>1. Cardinality(records \cup unbuilt) = Cardinality(records) + Cardinality(unbuilt)
                                                     - Cardinality(records \cap unbuilt)
            BY <1>5, FS_Union
        <3>2. Cardinality(records \cap unbuilt) = 0
            BY <1>1, FS_EmptySet
        <3> QED BY <1>5, <3>1, <3>2
    <2>2. records \cup unbuilt \in SUBSET work.documents
        OBVIOUS
    <2> QED BY <1>4, <2>1, <2>2, FS_Subset
<1>7. ledger.failed + Cardinality(unbuilt) \in 0..MaxPages
    BY <1>2, <1>3, <1>4, <1>5, <1>6, BudgetNumbers DEF Ledgers
<1>8. /\ ledger' \in Ledgers /\ ledger'.failed = ledger.failed + Cardinality(unbuilt)
      /\ ledger'.queries = ledger.queries /\ ledger'.pages = ledger.pages
      /\ ledger'.calls = ledger.calls /\ ledger'.raw = ledger.raw
      /\ ledger'.decoded = ledger.decoded /\ ledger'.records = ledger.records
      /\ ledger'.attempts = ledger.attempts
    BY <1>1, <1>2, <1>7 DEF Ledgers
<1>9. ledger'.failed + Cardinality(records) <= ledger'.pages
    BY <1>2, <1>3, <1>4, <1>5, <1>6, <1>8, RunNumbers
<1>10. CASE records = {}
    <2>1. Report(Failed(snapshot, "no_evidence"))
        BY <1>1, <1>10
    <2>2. /\ Failed(snapshot, "no_evidence") \in Snapshots
          /\ Failed(snapshot, "no_evidence").status \in Ends
        BY <1>2, FailedSnapshot DEF Ends
    <2>3. /\ ledger.queries <= ledger'.queries /\ ledger.pages <= ledger'.pages
          /\ ledger.calls <= ledger'.calls /\ ledger.raw <= ledger'.raw
          /\ ledger.decoded <= ledger'.decoded
        BY <1>2, <1>8, RunNumbers
    <2>4. ledger'.failed + Cardinality(snapshot.evidence) <= ledger'.pages
        BY <1>3, <1>9, <1>10
    <2> QED BY <1>3, <1>8, <2>1, <2>2, <2>3, <2>4, ReportKeeps
<1>11. CASE records # {}
    <2>1. PICK next \in {"memory", "synthesize"} : Goto(next, "begin")
        BY <1>1, <1>11
    <2>2. /\ pc' = <<next, "begin">> /\ work' = work /\ result' = result
          /\ cancelled' = cancelled /\ launched' = launched /\ kept' = kept
          /\ snapshot' = [snapshot EXCEPT !.status = "evidence_ready", !.evidence = records]
          /\ events' = Append(events, "evidence_ready")
        BY <1>1, <1>11, <2>1 DEF Goto
    <2>3. /\ Stage' = next /\ ~Launched' /\ ~InPage' /\ ~Gathering'
          /\ ~At("search", "launch")' /\ ~At("fetch", "launch")'
          /\ ~At("plan", "launch")' /\ ~At("synthesize", "launch")' /\ ~At("memory", "wait")'
        BY <2>2 DEF Stage, Phase, Launched, InPage, Gathering, At
    <2>4. snapshot' \in Snapshots /\ snapshot'.evidence = records
        <3>1. snapshot \in Snapshots
            BY <1>2 DEF RunTypeOK
        <3> QED BY <1>4, <2>2, <3>1 DEF Snapshots
    <2>5. RunTypeOK'
        <3>1. pc' \in Points
            BY <2>2 DEF Points, Stages, Phases
        <3>2. events' \in Seq({"run_created", "plan_accepted", "search_started",
                               "evidence_ready", "answer_drafted", "run_completed",
                               "run_failed", "run_cancelled"})
            BY <1>2, <2>2, AppendProperties DEF RunTypeOK
        <3> QED BY <1>2, <1>8, <2>2, <2>4, <3>1, <3>2 DEF RunTypeOK
    <2>6. LaunchesArePaid' /\ BytesArePaid' /\ AttemptsArePaid'
        BY <1>8, <2>2, <2>3 DEF ResearchInv, LaunchesArePaid, BytesArePaid, AttemptsArePaid
    <2>7. PagesArePaid'
        BY <1>9, <2>3, <2>4 DEF PagesArePaid
    <2>8. MemoryIsRead'
        BY <1>8, <2>2, <2>3 DEF ResearchInv, MemoryIsRead
    <2>9. HitsAreInRange'
        BY <1>2, <2>2, <2>3 DEF ResearchInv, HitsAreInRange
    <2> QED BY <2>5, <2>6, <2>7, <2>8, <2>9 DEF ResearchInv
<1> QED BY <1>10, <1>11

\* The memory is asked once, or twice, and what it has is counted.
LEMMA MemoryStepKeeps ==
    ASSUME ResearchInv, NEW stage \in {"memory", "recheck"}, NEW next \in {"recheck", "synthesize"},
           NEW r \in Readings, InTime(stage, r), NEW n \in 0..12, Goto(next, "begin"),
           \/ ledger' = [ledger EXCEPT !.last = r]
           \/ ledger' = [ledger EXCEPT !.last = r, !.records = n],
           UNCHANGED <<work, snapshot, events, result, cancelled, launched, kept>>
    PROVE  ResearchInv'
<1>1. /\ RunTypeOK /\ ledger \in Ledgers /\ pc = <<stage, "wait">> /\ Check(r) = "fine"
    BY DEF ResearchInv, RunTypeOK, InTime, At
<1>2. /\ pc' = <<next, "begin">> /\ work' = work /\ snapshot' = snapshot /\ events' = events
      /\ result' = result /\ cancelled' = cancelled /\ launched' = launched /\ kept' = kept
    BY DEF Goto
<1>3. /\ ledger' \in Ledgers /\ ledger'.queries = ledger.queries
      /\ ledger'.pages = ledger.pages /\ ledger'.calls = ledger.calls
      /\ ledger'.raw = ledger.raw /\ ledger'.decoded = ledger.decoded
      /\ ledger'.failed = ledger.failed /\ ledger'.attempts = ledger.attempts
    <2> DEFINE l == [ledger EXCEPT !.last = r]
    <2>1. /\ l \in Ledgers /\ l.queries = ledger.queries /\ l.pages = ledger.pages
          /\ l.calls = ledger.calls /\ l.raw = ledger.raw /\ l.decoded = ledger.decoded
          /\ l.failed = ledger.failed /\ l.attempts = ledger.attempts
        BY <1>1, Verdicts, ReadingFields
    <2>2. CASE ledger' = l
        BY <2>1, <2>2
    <2>3. CASE ledger' = [ledger EXCEPT !.last = r, !.records = n]
        <3>1. ledger' = [l EXCEPT !.records = n]
            BY <1>1, <2>3 DEF Ledgers
        <3> HIDE DEF l
        <3> QED BY <2>1, <3>1 DEF Ledgers
    <2> QED BY <2>2, <2>3
<1>4. /\ Stage = stage /\ Stage' = next /\ ~Launched' /\ ~InPage' /\ ~Gathering /\ ~Gathering'
      /\ ~At("search", "launch")' /\ ~At("fetch", "launch")'
      /\ ~At("plan", "launch")' /\ ~At("synthesize", "launch")' /\ ~At("memory", "wait")'
    BY <1>1, <1>2 DEF Stage, Phase, Launched, InPage, Gathering, At
<1>5. RunTypeOK'
    BY <1>1, <1>2, <1>3 DEF RunTypeOK, Points, Stages, Phases
<1>6. LaunchesArePaid' /\ BytesArePaid' /\ AttemptsArePaid' /\ PagesArePaid'
    BY <1>2, <1>3, <1>4
       DEF ResearchInv, LaunchesArePaid, BytesArePaid, AttemptsArePaid, PagesArePaid
<1>7. launched["memory"] > 0
    BY <1>1, <1>4 DEF ResearchInv, MemoryIsRead, At
<1>8. MemoryIsRead' /\ HitsAreInRange'
    BY <1>2, <1>4, <1>7 DEF ResearchInv, MemoryIsRead, HitsAreInRange
<1> QED BY <1>5, <1>6, <1>8 DEF ResearchInv

LEMMA MemoryAnsweredKeeps ==
    ASSUME ResearchInv, MemoryAnswered
    PROVE  ResearchInv'
<1>1. PICK r \in Readings, n \in Records, procedures \in BOOLEAN :
        /\ InTime("memory", r)
        /\ IF procedures
           THEN Goto("recheck", "begin") /\ ledger' = [ledger EXCEPT !.last = r]
           ELSE Goto("synthesize", "begin") /\ ledger' = [ledger EXCEPT !.last = r, !.records = n]
        /\ UNCHANGED <<work, snapshot, events, result, cancelled, launched, kept>>
    BY DEF MemoryAnswered
<1>2. n \in 0..12
    BY RunAssumption
<1>3. CASE Goto("recheck", "begin") /\ ledger' = [ledger EXCEPT !.last = r]
    BY <1>1, <1>2, <1>3, MemoryStepKeeps
<1>4. CASE Goto("synthesize", "begin") /\ ledger' = [ledger EXCEPT !.last = r, !.records = n]
    BY <1>1, <1>2, <1>4, MemoryStepKeeps
<1> QED BY <1>1, <1>3, <1>4

LEMMA RecheckAnsweredKeeps ==
    ASSUME ResearchInv, RecheckAnswered
    PROVE  ResearchInv'
<1>1. PICK r \in Readings, n \in Records \ {0} :
        /\ InTime("recheck", r)
        /\ Goto("synthesize", "begin")
        /\ ledger' = [ledger EXCEPT !.last = r, !.records = n]
        /\ UNCHANGED <<work, snapshot, events, result, cancelled, launched, kept>>
    BY DEF RecheckAnswered
<1>2. n \in 0..12
    BY RunAssumption
<1> QED BY <1>1, <1>2, MemoryStepKeeps

\* A step from the stages after the evidence, to one of them.
Concluding == {"synthesize", "validate", "draft", "complete"}

LEMMA ConclusionKeeps ==
    ASSUME ResearchInv, NEW next \in Concluding, Stage \in Concluding,
           pc' = <<next, "begin">>, work' \in Works, snapshot' \in Snapshots,
           work'.documents = work.documents, work'.index = work.index,
           work'.found = work.found, work'.succeeded = work.succeeded,
           work'.searches = work.searches, snapshot'.evidence = snapshot.evidence,
           events' \in Seq({"run_created", "plan_accepted", "search_started",
                            "evidence_ready", "answer_drafted", "run_completed",
                            "run_failed", "run_cancelled"}),
           UNCHANGED <<result, cancelled, launched, kept>>,
           ledger' \in Ledgers, ledger'.queries = ledger.queries,
           ledger'.pages = ledger.pages, ledger'.calls = ledger.calls,
           ledger'.raw = ledger.raw, ledger'.decoded = ledger.decoded,
           ledger'.records = ledger.records, ledger'.failed = ledger.failed,
           ledger'.attempts <= ledger'.calls * MaxAttempts
    PROVE  ResearchInv'
<1>1. /\ RunTypeOK /\ result' = result /\ cancelled' = cancelled /\ launched' = launched
      /\ kept' = kept
    BY DEF ResearchInv
<1>2. /\ Stage' = next /\ Stage # "plan" /\ ~Launched' /\ ~InPage' /\ ~Gathering'
      /\ ~At("search", "launch")' /\ ~At("fetch", "launch")'
      /\ ~At("plan", "launch")' /\ ~At("synthesize", "launch")' /\ ~At("memory", "wait")'
      /\ Stage' \notin {"plan", "search", "recheck"}
    BY DEF Stage, Phase, Launched, InPage, Gathering, At, Concluding
<1>3. RunTypeOK'
    <2>1. pc' \in Points
        BY DEF Points, Stages, Phases, Concluding
    <2> QED BY <1>1, <2>1 DEF RunTypeOK, Works
<1>4. LaunchesArePaid' /\ BytesArePaid' /\ PagesArePaid'
    BY <1>1, <1>2 DEF ResearchInv, LaunchesArePaid, BytesArePaid, PagesArePaid
<1>5. AttemptsArePaid'
    BY <1>2 DEF AttemptsArePaid
<1>6. MemoryIsRead'
    BY <1>1, <1>2 DEF ResearchInv, MemoryIsRead
<1>7. HitsAreInRange'
    BY <1>2 DEF ResearchInv, HitsAreInRange
<1> QED BY <1>3, <1>4, <1>5, <1>6, <1>7 DEF ResearchInv

LEMMA SynthesisAnsweredKeeps ==
    ASSUME ResearchInv, SynthesisAnswered
    PROVE  ResearchInv'
<1>1. PICK r \in Readings, n \in Replies, attempts \in 1..(MaxAttempts + 1),
           cites \in SUBSET (Pages \cup {0}) :
        LET l == FinishModelCall([ledger EXCEPT !.last = r], attempts, n) IN
        /\ InTime("synthesize", r)
        /\ \/ Exceeds(l)
           \/ /\ Fits(l)
              /\ work' = [work EXCEPT !.citations = cites]
              /\ Goto("validate", "begin")
              /\ UNCHANGED <<snapshot, events, result, cancelled, launched, kept>>
    BY DEF SynthesisAnswered
<1> DEFINE k == FinishModelCall([ledger EXCEPT !.last = r], attempts, n)
<1>2. CASE Exceeds(k)
    BY <1>1, <1>2, ExceededCallKeeps
<1>3. CASE /\ Fits(k)
           /\ work' = [work EXCEPT !.citations = cites]
           /\ Goto("validate", "begin")
           /\ UNCHANGED <<snapshot, events, result, cancelled, launched, kept>>
    <2>1. /\ k \in Ledgers /\ k.queries = ledger.queries /\ k.pages = ledger.pages
          /\ k.calls = ledger.calls /\ k.raw = ledger.raw /\ k.decoded = ledger.decoded
          /\ k.records = ledger.records /\ k.failed = ledger.failed
          /\ k.attempts <= k.calls * MaxAttempts
        BY <1>1, FinishedCall
    <2>2. ledger' = k
        BY <1>3 DEF Fits
    <2> HIDE DEF k
    <2>3. /\ RunTypeOK /\ Stage \in Concluding /\ pc' = <<"validate", "begin">>
        BY <1>1, <1>3 DEF ResearchInv, InTime, At, Stage, Concluding, Goto
    <2>4. /\ work' \in Works /\ work'.documents = work.documents /\ work'.index = work.index
          /\ work'.found = work.found /\ work'.succeeded = work.succeeded
          /\ work'.searches = work.searches
        <3>1. work \in Works
            BY <2>3 DEF RunTypeOK, Works
        <3> QED BY <1>3, <3>1 DEF Works
    <2>5. /\ snapshot' = snapshot /\ snapshot \in Snapshots /\ events' = events
          /\ events \in Seq({"run_created", "plan_accepted", "search_started",
                             "evidence_ready", "answer_drafted", "run_completed",
                             "run_failed", "run_cancelled"})
        BY <1>3, <2>3 DEF RunTypeOK
    <2>6. UNCHANGED <<result, cancelled, launched, kept>> /\ "validate" \in Concluding
        BY <1>3 DEF Concluding
    <2> QED BY <2>1, <2>2, <2>3, <2>4, <2>5, <2>6, ConclusionKeeps
<1> QED BY <1>1, <1>2, <1>3

LEMMA RetryKeeps ==
    ASSUME ResearchInv, Retry, Stage \in Concluding, ledger' \in Ledgers,
           ledger'.queries = ledger.queries, ledger'.pages = ledger.pages,
           ledger'.calls = ledger.calls, ledger'.raw = ledger.raw,
           ledger'.decoded = ledger.decoded, ledger'.records = ledger.records,
           ledger'.failed = ledger.failed, ledger'.attempts = ledger.attempts
    PROVE  ResearchInv'
<1>1. /\ RunTypeOK /\ ledger'.attempts <= ledger'.calls * MaxAttempts
      /\ ledger'.failed + Cardinality(snapshot.evidence) <= ledger'.pages
    BY DEF ResearchInv, AttemptsArePaid, PagesArePaid
<1>2. CASE /\ work.tries > 1 /\ Goto("synthesize", "begin")
           /\ work' = [work EXCEPT !.tries = @ - 1, !.citations = {}]
           /\ UNCHANGED <<snapshot, events, result, cancelled, launched, kept>>
    <2>1. /\ work' \in Works /\ work'.documents = work.documents /\ work'.index = work.index
          /\ work'.found = work.found /\ work'.succeeded = work.succeeded
          /\ work'.searches = work.searches
        <3>1. work \in Works /\ work.tries - 1 \in 0..Tries
            BY <1>1, <1>2, RunAssumption DEF RunTypeOK, Works
        <3> QED BY <1>2, <3>1 DEF Works
    <2>2. /\ snapshot' = snapshot /\ snapshot \in Snapshots /\ events' = events
          /\ events \in Seq({"run_created", "plan_accepted", "search_started",
                             "evidence_ready", "answer_drafted", "run_completed",
                             "run_failed", "run_cancelled"})
        BY <1>1, <1>2 DEF RunTypeOK
    <2>3. /\ UNCHANGED <<result, cancelled, launched, kept>> /\ "synthesize" \in Concluding
          /\ pc' = <<"synthesize", "begin">>
        BY <1>2 DEF Concluding, Goto
    <2> QED BY <1>1, <2>1, <2>2, <2>3, ConclusionKeeps
<1>3. CASE Report(Stopped("invalid"))
    <2>1. Stopped("invalid") \in Snapshots /\ Stopped("invalid").status \in Ends
        BY StoppedSnapshots DEF Ends
    <2>2. /\ ledger.queries <= ledger'.queries /\ ledger.pages <= ledger'.pages
          /\ ledger.calls <= ledger'.calls /\ ledger.raw <= ledger'.raw
          /\ ledger.decoded <= ledger'.decoded
        BY <1>1, RunNumbers
    <2> QED BY <1>1, <1>3, <2>1, <2>2, ReportKeeps
<1> QED BY <1>2, <1>3 DEF Retry

LEMMA MalformedAnswerKeeps ==
    ASSUME ResearchInv, MalformedAnswer
    PROVE  ResearchInv'
<1>1. Stage \in Concluding /\ ledger' = ledger /\ ledger \in Ledgers /\ Retry
    BY DEF MalformedAnswer, At, Stage, Concluding, ResearchInv, RunTypeOK
<1> QED BY <1>1, RetryKeeps

LEMMA ValidateKeeps ==
    ASSUME ResearchInv, Validate
    PROVE  ResearchInv'
<1>1. PICK r \in Readings :
        \/ Check(r) # "fine" /\ Stop(Check(r))
        \/ /\ Check(r) = "fine"
           /\ LET l == StartIteration(ledger, r) IN
              \/ Exceeds(l)
              \/ Fits(l) /\ Retry
              \/ Fits(l) /\ Report(Stopped("invalid"))
              \/ /\ Fits(l)
                 /\ work.citations # {} /\ work.citations \subseteq Citable
                 /\ Goto("draft", "begin")
                 /\ UNCHANGED <<work, snapshot, events, result, cancelled, launched, kept>>
    BY DEF Validate
<1>2. /\ RunTypeOK /\ ledger \in Ledgers /\ pc = <<"validate", "begin">>
      /\ Stage \in Concluding
    BY DEF ResearchInv, RunTypeOK, Validate, At, Stage, Concluding
<1>3. CASE Check(r) # "fine" /\ Stop(Check(r))
    BY <1>2, <1>3, Verdicts, StopKeeps
<1>4. CASE Check(r) = "fine"
    <2> DEFINE k == StartIteration(ledger, r)
    <2>1. Spares(ledger, k)
        BY <1>2, <1>4, Verdicts, StartIterationSpares
    <2>2. \/ Exceeds(k)
          \/ Fits(k) /\ Retry
          \/ Fits(k) /\ Report(Stopped("invalid"))
          \/ /\ Fits(k)
             /\ Goto("draft", "begin")
             /\ UNCHANGED <<work, snapshot, events, result, cancelled, launched, kept>>
        BY <1>1, <1>4
    <2> HIDE DEF k
    <2>3. /\ k \in Ledgers /\ k.queries = ledger.queries /\ k.pages = ledger.pages
          /\ k.calls = ledger.calls /\ k.raw = ledger.raw /\ k.decoded = ledger.decoded
          /\ k.records = ledger.records /\ k.failed = ledger.failed
          /\ k.attempts = ledger.attempts
        BY <2>1 DEF Spares, Spent
    <2>4. /\ ledger.queries <= k.queries /\ ledger.pages <= k.pages
          /\ ledger.calls <= k.calls /\ ledger.raw <= k.raw /\ ledger.decoded <= k.decoded
        BY <1>2, <2>3, RunNumbers
    <2>5. k.attempts <= k.calls * MaxAttempts
        BY <2>3 DEF ResearchInv, AttemptsArePaid
    <2>6. CASE Exceeds(k)
        BY <2>3, <2>4, <2>5, <2>6, ExceedsKeeps
    <2>7. CASE Fits(k) /\ Retry
        <3>1. ledger' = k
            BY <2>7 DEF Fits
        <3> QED BY <1>2, <2>3, <2>7, <3>1, RetryKeeps
    <2>8. CASE Fits(k) /\ Report(Stopped("invalid"))
        <3>1. ledger' = k
            BY <2>8 DEF Fits
        <3>2. Stopped("invalid") \in Snapshots /\ Stopped("invalid").status \in Ends
            BY StoppedSnapshots DEF Ends
        <3>3. k.failed + Cardinality(snapshot.evidence) <= k.pages
            BY <2>3 DEF ResearchInv, PagesArePaid
        <3> QED BY <2>3, <2>4, <2>5, <2>8, <3>1, <3>2, <3>3, ReportKeeps
    <2>9. CASE /\ Fits(k)
               /\ Goto("draft", "begin")
               /\ UNCHANGED <<work, snapshot, events, result, cancelled, launched, kept>>
        <3>1. /\ ledger' = k /\ pc' = <<"draft", "begin">> /\ "draft" \in Concluding
              /\ work' = work /\ snapshot' = snapshot /\ events' = events
              /\ UNCHANGED <<result, cancelled, launched, kept>>
            BY <2>9 DEF Fits, Goto, Concluding
        <3>2. /\ work \in Works /\ snapshot \in Snapshots
              /\ events \in Seq({"run_created", "plan_accepted", "search_started",
                                 "evidence_ready", "answer_drafted", "run_completed",
                                 "run_failed", "run_cancelled"})
            BY <1>2 DEF RunTypeOK, Works
        <3> QED BY <1>2, <2>3, <2>5, <3>1, <3>2, ConclusionKeeps
    <2> QED BY <2>2, <2>6, <2>7, <2>8, <2>9
<1> QED BY <1>1, <1>3, <1>4

LEMMA DraftKeeps ==
    ASSUME ResearchInv, Draft, work.citations \subseteq Pages
    PROVE  ResearchInv'
<1>1. PICK r \in Readings :
        \/ Check(r) # "fine" /\ Stop(Check(r))
        \/ /\ Check(r) = "fine"
           /\ ledger' = [ledger EXCEPT !.last = r]
           /\ \E n \in ClaimCounts :
                 /\ n >= Cardinality(work.citations)
                 /\ snapshot' = [snapshot EXCEPT !.status = "answer_ready", !.answered = TRUE,
                                                 !.citations = work.citations, !.claims = n]
           /\ events' = Append(events, "answer_drafted")
           /\ Goto("complete", "begin")
           /\ UNCHANGED <<work, result, cancelled, launched, kept>>
    BY DEF Draft
<1>2. /\ RunTypeOK /\ ledger \in Ledgers /\ pc = <<"draft", "begin">> /\ Stage \in Concluding
    BY DEF ResearchInv, RunTypeOK, Draft, At, Stage, Concluding
<1>3. CASE Check(r) # "fine" /\ Stop(Check(r))
    BY <1>2, <1>3, Verdicts, StopKeeps
<1>4. CASE Check(r) = "fine"
    <2>1. /\ ledger' \in Ledgers /\ ledger'.queries = ledger.queries
          /\ ledger'.pages = ledger.pages /\ ledger'.calls = ledger.calls
          /\ ledger'.raw = ledger.raw /\ ledger'.decoded = ledger.decoded
          /\ ledger'.records = ledger.records /\ ledger'.failed = ledger.failed
          /\ ledger'.attempts = ledger.attempts
        <3>1. r \in 0..Deadline /\ ledger' = [ledger EXCEPT !.last = r]
            BY <1>1, <1>2, <1>4, Verdicts
        <3> QED BY <1>2, <3>1, ReadingFields
    <2>2. PICK n \in ClaimCounts :
                 snapshot' = [snapshot EXCEPT !.status = "answer_ready", !.answered = TRUE,
                                              !.citations = work.citations, !.claims = n]
        BY <1>1, <1>4
    <2>3. snapshot' \in Snapshots /\ snapshot'.evidence = snapshot.evidence
        <3>1. snapshot \in Snapshots /\ n \in Nat
            BY <1>2, RunAssumption DEF RunTypeOK
        <3> QED BY <2>2, <3>1 DEF Snapshots
    <2>4. /\ pc' = <<"complete", "begin">> /\ "complete" \in Concluding
          /\ UNCHANGED <<result, cancelled, launched, kept>>
          /\ work' = work /\ work \in Works
        BY <1>1, <1>2, <1>4 DEF Goto, Concluding, RunTypeOK, Works
    <2>5. events' \in Seq({"run_created", "plan_accepted", "search_started",
                           "evidence_ready", "answer_drafted", "run_completed",
                           "run_failed", "run_cancelled"})
        <3>1. events' = Append(events, "answer_drafted")
            BY <1>1, <1>4
        <3> QED BY <1>2, <3>1, AppendProperties DEF RunTypeOK
    <2>6. ledger'.attempts <= ledger'.calls * MaxAttempts
        BY <2>1 DEF ResearchInv, AttemptsArePaid
    <2> QED BY <1>2, <2>1, <2>3, <2>4, <2>5, <2>6, ConclusionKeeps
<1> QED BY <1>1, <1>3, <1>4

LEMMA CompleteKeeps ==
    ASSUME ResearchInv, Complete
    PROVE  ResearchInv'
<1>1. PICK r \in Readings :
        \/ Check(r) # "fine" /\ Stop(Check(r))
        \/ /\ Check(r) = "fine"
           /\ ledger' = [ledger EXCEPT !.last = r]
           /\ Report([snapshot EXCEPT !.status = "completed"])
    BY DEF Complete
<1>2. RunTypeOK /\ ledger \in Ledgers
    BY DEF ResearchInv, RunTypeOK
<1>3. CASE Check(r) # "fine" /\ Stop(Check(r))
    BY <1>2, <1>3, Verdicts, StopKeeps
<1>4. CASE Check(r) = "fine"
    <2>1. /\ ledger' \in Ledgers /\ ledger'.queries = ledger.queries
          /\ ledger'.pages = ledger.pages /\ ledger'.calls = ledger.calls
          /\ ledger'.raw = ledger.raw /\ ledger'.decoded = ledger.decoded
          /\ ledger'.records = ledger.records /\ ledger'.failed = ledger.failed
          /\ ledger'.attempts = ledger.attempts
        <3>1. r \in 0..Deadline /\ ledger' = [ledger EXCEPT !.last = r]
            BY <1>1, <1>2, <1>4, Verdicts
        <3> QED BY <1>2, <3>1, ReadingFields
    <2> DEFINE final == [snapshot EXCEPT !.status = "completed"]
    <2>2. final \in Snapshots /\ final.status \in Ends
        <3>1. snapshot \in Snapshots
            BY <1>2 DEF RunTypeOK
        <3> QED BY <3>1 DEF Snapshots, Ends
    <2>3. Report(final)
        BY <1>1, <1>4
    <2> HIDE DEF final
    <2>4. /\ ledger.queries <= ledger'.queries /\ ledger.pages <= ledger'.pages
          /\ ledger.calls <= ledger'.calls /\ ledger.raw <= ledger'.raw
          /\ ledger.decoded <= ledger'.decoded
        BY <1>2, <2>1, RunNumbers
    <2>5. /\ ledger'.attempts <= ledger'.calls * MaxAttempts
          /\ ledger'.failed + Cardinality(snapshot.evidence) <= ledger'.pages
        BY <2>1 DEF ResearchInv, AttemptsArePaid, PagesArePaid
    <2> QED BY <2>1, <2>2, <2>3, <2>4, <2>5, ReportKeeps
<1> QED BY <1>1, <1>3, <1>4

LEMMA RequestCancelKeeps ==
    ASSUME ResearchInv, RequestCancel
    PROVE  ResearchInv'
<1>1. /\ cancelled' = TRUE /\ pc' = pc /\ ledger' = ledger /\ work' = work
      /\ snapshot' = snapshot /\ events' = events /\ result' = result
      /\ launched' = launched /\ kept' = kept
    BY DEF RequestCancel
<1>2. RunTypeOK'
    BY <1>1 DEF ResearchInv, RunTypeOK
<1>3. /\ LaunchesArePaid' /\ BytesArePaid' /\ AttemptsArePaid' /\ PagesArePaid'
      /\ MemoryIsRead' /\ HitsAreInRange'
    BY <1>1 DEF ResearchInv, LaunchesArePaid, BytesArePaid, AttemptsArePaid, PagesArePaid,
                MemoryIsRead, HitsAreInRange, Stage, Phase, Launched, InPage, Gathering, At
<1> QED BY <1>2, <1>3 DEF ResearchInv

LEMMA InitialRun ==
    ASSUME RunInit
    PROVE  ResearchInv
<1>1. PICK t \in {0, Broken} : ledger = NewLedger(t)
    BY DEF RunInit
<1>2. /\ ledger \in Ledgers /\ ledger.queries = 0 /\ ledger.pages = 0 /\ ledger.failed = 0
      /\ ledger.raw = 0 /\ ledger.decoded = 0 /\ ledger.calls = 0 /\ ledger.attempts = 0
      /\ ledger.records = 0
    <2>1. MaxCalls * MaxAttempts \in Nat
        BY BudgetNumbers DEF MaxTotal
    <2> QED BY <1>1, <2>1, BudgetNumbers, LedgerAssumption DEF NewLedger, Ledgers
<1>3. /\ pc = <<"plan", "begin">> /\ kept = 0 /\ cancelled = FALSE
      /\ launched = [s \in Stages |-> 0] /\ snapshot = Created /\ result = Created
      /\ events = <<"run_created">>
      /\ work = [searches |-> 0, found |-> 0, succeeded |-> 0, index |-> 0,
                 documents |-> {}, tries |-> Tries, citations |-> {}]
    BY DEF RunInit
<1>4. RunTypeOK
    <2>1. Created \in Snapshots
        BY DEF Created, Snapshots
    <2>2. pc \in Points
        BY <1>3 DEF Points, Stages, Phases
    <2>3. work \in Works
        BY <1>3, RunAssumption DEF Works
    <2>4. events \in Seq({"run_created", "plan_accepted", "search_started", "evidence_ready",
                          "answer_drafted", "run_completed", "run_failed", "run_cancelled"})
        BY <1>3
    <2> QED BY <1>2, <1>3, <2>1, <2>2, <2>3, <2>4 DEF RunTypeOK, Works
<1>5. /\ Stage = "plan" /\ Phase = "begin" /\ ~Launched /\ ~InPage
      /\ \A s \in Stages, p \in {"launch", "wait"} : ~At(s, p)
    BY <1>3 DEF Stage, Phase, Launched, InPage, At
<1>6. \A s \in Stages : launched[s] = 0
    BY <1>3
<1>7. LaunchesArePaid
    BY <1>2, <1>5, <1>6 DEF LaunchesArePaid, Stages
<1>8. BytesArePaid /\ AttemptsArePaid
    BY <1>2, <1>3, <1>5, BudgetNumbers DEF BytesArePaid, AttemptsArePaid
<1>9. PagesArePaid
    <2>1. snapshot.evidence = {} /\ work.documents = {}
        BY <1>3 DEF Created
    <2> QED BY <1>2, <1>5, <2>1, FS_EmptySet DEF PagesArePaid
<1>10. MemoryIsRead /\ HitsAreInRange
    BY <1>2, <1>3, <1>5 DEF MemoryIsRead, HitsAreInRange, Stages
<1> QED BY <1>4, <1>7, <1>8, <1>9, <1>10 DEF ResearchInv

LEMMA StillKeeps ==
    ASSUME ResearchInv, UNCHANGED runVars
    PROVE  ResearchInv'
<1>1. /\ pc' = pc /\ ledger' = ledger /\ work' = work /\ snapshot' = snapshot
      /\ events' = events /\ result' = result /\ cancelled' = cancelled
      /\ launched' = launched /\ kept' = kept
    BY DEF runVars
<1>2. RunTypeOK'
    BY <1>1 DEF ResearchInv, RunTypeOK
<1>3. /\ LaunchesArePaid' /\ BytesArePaid' /\ AttemptsArePaid' /\ PagesArePaid'
      /\ MemoryIsRead' /\ HitsAreInRange'
    BY <1>1 DEF ResearchInv, LaunchesArePaid, BytesArePaid, AttemptsArePaid, PagesArePaid,
                MemoryIsRead, HitsAreInRange, Stage, Phase, Launched, InPage, Gathering, At
<1> QED BY <1>2, <1>3 DEF ResearchInv

\* A run drafts only what it was given evidence for: what the ledger does not show.
LEMMA RunsKeep ==
    ASSUME ResearchInv, EvidenceIsHeld, [RunNext]_runVars
    PROVE  ResearchInv'
<1>1. CASE UNCHANGED runVars
    BY <1>1, StillKeeps
<1>2. CASE Runner
    <2>1. CASE BeginPlan
        BY <2>1, BegunKeeps DEF BeginPlan, Stages
    <2>2. CASE BeginSearch
        BY <2>2, BegunKeeps DEF BeginSearch, Stages
    <2>3. CASE EndSearch
        BY <2>3, EndSearchKeeps
    <2>4. CASE BeginFetch
        BY <2>4, BegunKeeps DEF BeginFetch, Stages
    <2>5. CASE EndFetch
        BY <2>5, EndFetchKeeps
    <2>6. CASE Rank
        BY <2>6, RankKeeps
    <2>7. CASE BeginMemory
        <3>1. \A s \in {"memory", "recheck"} :
                 s \in Stages \ {"extract"} /\ s # "search" /\ s # "fetch"
            BY DEF Stages
        <3> QED BY <2>7, <3>1, BegunKeeps DEF BeginMemory
    <2>8. CASE BeginSynthesis
        BY <2>8, BegunKeeps DEF BeginSynthesis, Stages
    <2>9. CASE Validate
        BY <2>9, ValidateKeeps
    <2>10. CASE Draft
        <3>1. Stage = "draft"
            BY <2>10 DEF Draft, At, Stage
        <3>2. work.citations \subseteq snapshot.evidence
            BY <3>1 DEF EvidenceIsHeld
        <3>3. snapshot.evidence \subseteq Pages
            BY DEF ResearchInv, RunTypeOK, Snapshots
        <3> QED BY <2>10, <3>2, <3>3, DraftKeeps
    <2>11. CASE Complete
        BY <2>11, CompleteKeeps
    <2>12. CASE \E stage \in Stages : Launch(stage)
        BY <2>12, LaunchKeeps
    <2> QED BY <1>2, <2>1, <2>2, <2>3, <2>4, <2>5, <2>6, <2>7, <2>8, <2>9, <2>10, <2>11, <2>12
        DEF Runner
<1>3. CASE TimeOut
    BY <1>3, StopKeeps DEF TimeOut
<1>4. CASE Adapters
    <2>1. CASE PlanAnswered
        BY <2>1, PlanAnsweredKeeps
    <2>2. CASE SearchAnswered
        BY <2>2, SearchAnsweredKeeps
    <2>3. CASE FetchAnswered
        BY <2>3, FetchAnsweredKeeps
    <2>4. CASE ExtractAnswered
        BY <2>4, ExtractAnsweredKeeps
    <2>5. CASE InvalidExtractor
        BY <2>5, StopKeeps DEF InvalidExtractor
    <2>6. CASE MemoryAnswered
        BY <2>6, MemoryAnsweredKeeps
    <2>7. CASE RecheckAnswered
        BY <2>7, RecheckAnsweredKeeps
    <2>8. CASE SynthesisAnswered
        BY <2>8, SynthesisAnsweredKeeps
    <2>9. CASE MalformedAnswer
        BY <2>9, MalformedAnswerKeeps
    <2>10. CASE \E stage \in Stages : AnswerStops(stage) \/ AdapterFails(stage)
        BY <2>10, FailuresKeep
    <2> QED BY <1>4, <2>1, <2>2, <2>3, <2>4, <2>5, <2>6, <2>7, <2>8, <2>9, <2>10 DEF Adapters
<1>5. CASE RequestCancel
    BY <1>5, RequestCancelKeeps
<1> QED BY <1>1, <1>2, <1>3, <1>4, <1>5 DEF RunNext
-----------------------------------------------------------------------------
\* What a run tells, and what it reports.

\* Stages between which nothing is told.
Quiet == {{"plan"}, {"search", "fetch", "extract", "rank"},
          {"memory", "recheck", "synthesize", "validate", "draft"}}

LEMMA StagesOfARun ==
    ASSUME RunTypeOK
    PROVE  Stage \in Stages \cup {"rank", "validate", "draft", "complete", "over"}
<1>1. pc \in (Stages \X Phases)
             \cup ({"rank", "validate", "draft", "complete", "over"} \X {"begin"})
    BY DEF RunTypeOK, Points
<1> QED BY <1>1 DEF Stage

\* A step within one of them tells nothing and changes no evidence.
LEMMA QuietReflects ==
    ASSUME ReflectInv, NEW part \in Quiet, Stage \in part, NEW next \in part, NEW phase,
           pc' = <<next, phase>>, snapshot' = snapshot, events' = events,
           next = "draft" => work'.citations # {} /\ work'.citations \subseteq snapshot.evidence
    PROVE  ReflectInv'
<1>1. Stage' = next /\ next # "over" /\ Stage # "over" /\ next # "complete" /\ Stage # "complete"
    BY DEF Stage, Quiet
<1>2. Told' = Told
    <2>1. CASE part = {"plan"}
        BY <1>1, <2>1 DEF Told
    <2>2. CASE part = {"search", "fetch", "extract", "rank"}
        BY <1>1, <2>2 DEF Told
    <2>3. CASE part = {"memory", "recheck", "synthesize", "validate", "draft"}
        BY <1>1, <2>3 DEF Told
    <2> QED BY <2>1, <2>2, <2>3 DEF Quiet
<1>3. Gathered' = Gathered
    <2>1. CASE part = {"plan"}
        BY <1>1, <2>1 DEF Gathered
    <2>2. CASE part = {"search", "fetch", "extract", "rank"}
        BY <1>1, <2>2 DEF Gathered
    <2>3. CASE part = {"memory", "recheck", "synthesize", "validate", "draft"}
        BY <1>1, <2>3 DEF Gathered
    <2> QED BY <2>1, <2>2, <2>3 DEF Quiet
<1>4. EvidenceIsHeld'
    BY <1>1, <1>3 DEF EvidenceIsHeld, ReflectInv
<1>5. ReportIsSound'
    BY <1>1 DEF ReportIsSound
<1> QED BY <1>2, <1>4, <1>5 DEF ReflectInv

LEMMA ToldIsAnOpening ==
    ASSUME RunTypeOK, ReflectInv, Stage # "over"
    PROVE  /\ events = Told /\ Told \in Openings
           /\ Stage = "complete" =>
                 events = Append(Append(Searched, "evidence_ready"), "answer_drafted")
<1>1. events = Told
    BY DEF ReflectInv
<1>2. CASE Stage = "plan"
    BY <1>1, <1>2 DEF Told, Openings
<1>3. CASE Stage \in {"search", "fetch", "extract", "rank"}
    BY <1>1, <1>3 DEF Told, Openings
<1>4. CASE Stage \in {"memory", "recheck", "synthesize", "validate", "draft"}
    BY <1>1, <1>4 DEF Told, Openings
<1>5. CASE Stage = "complete"
    BY <1>1, <1>5 DEF Told, Openings
<1> QED BY <1>1, <1>2, <1>3, <1>4, <1>5, StagesOfARun DEF Stages

\* A run that reports no answer.
LEMMA LossReflects ==
    ASSUME ResearchInv, ReflectInv, Stage # "over", NEW final, Report(final),
           final.status \in {"failed", "cancelled"}, ~final.answered,
           final.status = "failed" <=> final.reason # "none",
           final.claims = 0, final.citations = {}, Cardinality(final.evidence) <= MaxSelected
    PROVE  ReflectInv'
<1>1. /\ pc' = <<"over", "begin">> /\ result' = final /\ snapshot' = snapshot /\ work' = work
      /\ events' = Append(events, Terminal(final.status))
    BY DEF Report
<1>2. Stage' = "over" /\ ~Gathered'
    BY <1>1 DEF Stage, Gathered
<1>3. events = Told /\ Told \in Openings
    BY ToldIsAnOpening DEF ResearchInv
<1>4. events' = Told'
    BY <1>2 DEF Told
<1>5. EvidenceIsHeld'
    BY <1>1, <1>2 DEF EvidenceIsHeld, ReflectInv
<1>6. ReportIsSound'
    <2>1. final.citations \subseteq final.evidence
        OBVIOUS
    <2> QED BY <1>1, <1>2, <1>3, <2>1 DEF ReportIsSound
<1> QED BY <1>4, <1>5, <1>6 DEF ReflectInv

LEMMA StopReflects ==
    ASSUME ResearchInv, ReflectInv, Stage # "over", NEW v \in {"cancelled", "invalid", "exhausted"},
           Report(Stopped(v))
    PROVE  ReflectInv'
<1>1. Cardinality(Stopped(v).evidence) <= MaxSelected
    BY StoppedSnapshots, FS_EmptySet DEF MaxSelected
<1> QED BY <1>1, StoppedSnapshots, LossReflects

\* Every verdict but one stops the run.
LEMMA VerdictReflects ==
    ASSUME ResearchInv, ReflectInv, Stage # "over", NEW r \in Readings, Check(r) # "fine",
           Stop(Check(r))
    PROVE  ReflectInv'
<1>1. Check(r) \in {"cancelled", "invalid", "exhausted"} /\ Report(Stopped(Check(r)))
    BY Verdicts DEF Stop, ResearchInv
<1> QED BY <1>1, StopReflects

LEMMA ExceededReflects ==
    ASSUME ResearchInv, ReflectInv, Stage # "over", NEW l, Exceeds(l)
    PROVE  ReflectInv'
BY StopReflects DEF Exceeds

LEMMA ForgiveReflects ==
    ASSUME ResearchInv, ReflectInv, NEW stage \in Forgiving, Stage = stage, Forgive(stage)
    PROVE  ReflectInv'
<1> DEFINE part == {"search", "fetch", "extract", "rank"}
<1>1. part \in Quiet /\ Stage \in part /\ "search" \in part /\ "fetch" \in part
    BY DEF Quiet, Forgiving
<1>2. CASE stage = "search"
    <2>1. pc' = <<"search", "begin">> /\ snapshot' = snapshot /\ events' = events
        BY <1>2 DEF Forgive, NextSearch, Goto
    <2> HIDE DEF part
    <2> QED BY <1>1, <2>1, QuietReflects
<1>3. CASE stage # "search"
    <2>1. pc' = <<"fetch", "begin">> /\ snapshot' = snapshot /\ events' = events
        BY <1>3 DEF Forgive, NextPage, Goto
    <2> HIDE DEF part
    <2> QED BY <1>1, <2>1, QuietReflects
<1> QED BY <1>2, <1>3

\* Each stage of an adapter is in one of the quiet parts.
LEMMA QuietStages ==
    ASSUME NEW stage \in Stages
    PROVE  stage # "over" /\ stage # "draft" /\ \E part \in Quiet : stage \in part
BY DEF Stages, Quiet

LEMMA BegunReflects ==
    ASSUME ResearchInv, ReflectInv, NEW stage \in Stages, Begun(stage)
    PROVE  ReflectInv'
<1>1. Stage = stage /\ Stage # "over"
    BY QuietStages DEF Begun, At, Stage
<1>2. PICK r \in Readings :
          \/ Check(r) # "fine" /\ Stop(Check(r))
          \/ \E l \in Charged(stage, StartIteration(ledger, r)) :
                \/ Exceeds(l)
                \/ /\ Goto(stage, "launch")
                   /\ UNCHANGED <<work, snapshot, events, result, cancelled, launched, kept>>
    BY DEF Begun
<1>3. CASE Check(r) # "fine" /\ Stop(Check(r))
    BY <1>1, <1>3, VerdictReflects
<1>4. CASE \E l \in Charged(stage, StartIteration(ledger, r)) : Exceeds(l)
    BY <1>1, <1>4, ExceededReflects
<1>5. CASE Goto(stage, "launch") /\ UNCHANGED <<snapshot, events>>
    <2>1. PICK part \in Quiet : stage \in part
        BY QuietStages
    <2> QED BY <1>1, <1>5, <2>1, QuietStages, QuietReflects DEF Goto
<1> QED BY <1>2, <1>3, <1>4, <1>5

LEMMA LaunchReflects ==
    ASSUME ResearchInv, ReflectInv, NEW stage \in Stages, Launch(stage)
    PROVE  ReflectInv'
<1>1. Stage = stage /\ Stage # "over"
    BY QuietStages DEF Launch, At, Stage
<1>2. PICK r \in Readings :
          \/ stage \in Forgiving /\ Forgive(stage)
          \/ Check(r) # "fine" /\ Stop(Check(r))
          \/ Goto(stage, "wait") /\ UNCHANGED <<snapshot, events>>
    BY DEF Launch, LaunchCheck
<1>3. CASE Goto(stage, "wait") /\ UNCHANGED <<snapshot, events>>
    <2>1. PICK part \in Quiet : stage \in part
        BY QuietStages
    <2> QED BY <1>1, <1>3, <2>1, QuietStages, QuietReflects DEF Goto
<1> QED BY <1>1, <1>2, <1>3, VerdictReflects, ForgiveReflects

LEMMA FailuresReflect ==
    ASSUME ResearchInv, ReflectInv, NEW stage \in Stages,
           AnswerStops(stage) \/ AdapterFails(stage)
    PROVE  ReflectInv'
<1>1. Stage = stage /\ Stage # "over"
    BY QuietStages DEF AnswerStops, AdapterFails, At, Stage
<1>2. \/ stage \in Forgiving /\ Forgive(stage)
      \/ \E r \in Readings : Check(r) # "fine" /\ Stop(Check(r))
      \/ Stop("invalid")
    BY DEF AnswerStops, AdapterFails
<1>3. CASE Stop("invalid")
    BY <1>1, <1>3, StopReflects DEF Stop
<1> QED BY <1>1, <1>2, <1>3, VerdictReflects, ForgiveReflects

LEMMA PlanAnsweredReflects ==
    ASSUME ResearchInv, ReflectInv, PlanAnswered
    PROVE  ReflectInv'
<1>1. Stage = "plan" /\ snapshot \in Snapshots
    BY DEF PlanAnswered, InTime, At, Stage, ResearchInv, RunTypeOK
<1>2. /\ events = Beginning /\ snapshot.reason = "none" /\ ~snapshot.answered
      /\ snapshot.citations = {} /\ snapshot.claims = 0 /\ snapshot.evidence = {}
    BY <1>1 DEF ReflectInv, Told, EvidenceIsHeld, ResearchInv, PagesArePaid, Gathering
<1>3. \/ \E l : Exceeds(l)
      \/ AnswerDirectly
      \/ \E searches \in 1..Searches, urls \in 0..MaxHits : StartSearch(searches, urls)
    BY DEF PlanAnswered
<1>4. CASE \E l : Exceeds(l)
    BY <1>1, <1>4, ExceededReflects
<1>5. CASE AnswerDirectly
    <2>1. /\ pc' = <<"over", "begin">> /\ result' = snapshot'
          /\ snapshot' = [snapshot EXCEPT !.status = "completed", !.answered = TRUE]
          /\ events' = Beginning \o <<"answer_drafted", "run_completed">>
        BY <1>2, <1>5 DEF AnswerDirectly, Goto
    <2>2. /\ snapshot'.status = "completed" /\ snapshot'.answered /\ snapshot'.evidence = {}
          /\ snapshot'.citations = {} /\ snapshot'.claims = 0 /\ snapshot'.reason = "none"
        BY <1>1, <1>2, <2>1 DEF Snapshots
    <2>3. Stage' = "over" /\ ~Gathered'
        BY <2>1 DEF Stage, Gathered
    <2>4. events' = Told'
        BY <2>3 DEF Told
    <2>5. EvidenceIsHeld'
        BY <2>2, <2>3 DEF EvidenceIsHeld
    <2>6. events' = Append(Append(Beginning, "answer_drafted"), Terminal("completed"))
        BY <2>1 DEF Beginning, Terminal
    <2>7. Append(Beginning, "answer_drafted") \in Openings
        BY DEF Openings
    <2>8. Cardinality(result'.evidence) <= MaxSelected
        <3>1. result'.evidence = {} /\ Cardinality({}) = 0
            BY <2>1, <2>2, FS_EmptySet
        <3> QED BY <3>1 DEF MaxSelected
    <2>9. ReportIsSound'
        BY <2>1, <2>2, <2>3, <2>6, <2>7, <2>8 DEF ReportIsSound
    <2> QED BY <2>4, <2>5, <2>9 DEF ReflectInv
<1>6. CASE \E searches \in 1..Searches, urls \in 0..MaxHits : StartSearch(searches, urls)
    <2>1. /\ pc' = <<"search", "begin">> /\ snapshot' = [snapshot EXCEPT !.status = "searching"]
          /\ events' = Beginning \o <<"plan_accepted", "search_started">>
        BY <1>2, <1>6 DEF StartSearch, Goto
    <2>2. /\ ~snapshot'.answered /\ snapshot'.citations = {} /\ snapshot'.claims = 0
          /\ snapshot'.reason = "none"
        BY <1>1, <1>2, <2>1 DEF Snapshots
    <2>3. Stage' = "search" /\ ~Gathered'
        BY <2>1 DEF Stage, Gathered
    <2>4. events' = Told'
        BY <2>1, <2>3 DEF Told, Searched
    <2>5. EvidenceIsHeld' /\ ReportIsSound'
        BY <2>2, <2>3 DEF EvidenceIsHeld, ReportIsSound
    <2> QED BY <2>4, <2>5 DEF ReflectInv
<1> QED BY <1>3, <1>4, <1>5, <1>6

\* A run whose search or pages gave nothing.
LEMMA NothingReflects ==
    ASSUME ResearchInv, ReflectInv, Stage \in {"search", "rank"},
           NEW reason \in {"no_evidence", "search_failed"}, Report(Failed(snapshot, reason))
    PROVE  ReflectInv'
<1>1. snapshot \in Snapshots
    BY DEF ResearchInv, RunTypeOK
<1>2. /\ ~snapshot.answered /\ snapshot.citations = {} /\ snapshot.claims = 0
      /\ snapshot.evidence = {}
    BY DEF ReflectInv, EvidenceIsHeld, ResearchInv, PagesArePaid, Gathering
<1> DEFINE final == Failed(snapshot, reason)
<1>3. /\ final.status = "failed" /\ final.reason = reason /\ ~final.answered
      /\ final.citations = {} /\ final.claims = 0 /\ final.evidence = {}
    BY <1>1, <1>2 DEF Failed, Snapshots
<1>4. Report(final)
    OBVIOUS
<1> HIDE DEF final
<1>5. Cardinality(final.evidence) <= MaxSelected
    BY <1>3, FS_EmptySet DEF MaxSelected
<1> QED BY <1>3, <1>4, <1>5, LossReflects

\* Where an adapter has answered.
LEMMA StagesOfAnswers ==
    /\ SearchAnswered \/ EndSearch => Stage = "search"
    /\ FetchAnswered \/ EndFetch => Stage = "fetch"
    /\ ExtractAnswered => Stage = "extract"
    /\ MemoryAnswered => Stage = "memory"
    /\ RecheckAnswered => Stage = "recheck"
    /\ SynthesisAnswered \/ MalformedAnswer => Stage = "synthesize"
<1>1. \A s, r : InTime(s, r) => Stage = s
    BY DEF InTime, At, Stage
<1>2. SearchAnswered => \E r \in Readings : InTime("search", r)
    BY DEF SearchAnswered
<1>3. FetchAnswered => \E r \in Readings : InTime("fetch", r)
    BY DEF FetchAnswered
<1>4. ExtractAnswered => \E r \in Readings : InTime("extract", r)
    BY DEF ExtractAnswered
<1>5. MemoryAnswered => \E r \in Readings : InTime("memory", r)
    BY DEF MemoryAnswered
<1>6. RecheckAnswered => \E r \in Readings : InTime("recheck", r)
    BY DEF RecheckAnswered
<1>7. SynthesisAnswered => \E r \in Readings : InTime("synthesize", r)
    BY DEF SynthesisAnswered
<1>8. (EndSearch => Stage = "search") /\ (EndFetch => Stage = "fetch")
    BY DEF EndSearch, EndFetch, At, Stage
<1>9. MalformedAnswer => Stage = "synthesize"
    BY DEF MalformedAnswer, At, Stage
<1> QED BY <1>1, <1>2, <1>3, <1>4, <1>5, <1>6, <1>7, <1>8, <1>9

LEMMA GatheringReflects ==
    ASSUME ResearchInv, ReflectInv,
           \/ SearchAnswered \/ EndSearch \/ FetchAnswered \/ ExtractAnswered \/ EndFetch
    PROVE  ReflectInv'
<1> DEFINE part == {"search", "fetch", "extract", "rank"}
<1>1. part \in Quiet /\ Stage \in part
    <2>1. part \in Quiet
        BY DEF Quiet
    <2> QED BY <2>1, StagesOfAnswers
<1>2. /\ "search" \in part /\ "fetch" \in part /\ "extract" \in part /\ "rank" \in part
      /\ Stage # "over"
    BY <1>1
<1>3. CASE SearchAnswered
    <2>1. pc' = <<"search", "begin">> /\ snapshot' = snapshot /\ events' = events
        BY <1>3 DEF SearchAnswered, Goto
    <2> HIDE DEF part
    <2> QED BY <1>1, <1>2, <2>1, QuietReflects
<1>4. CASE EndSearch
    <2>1. CASE work.found > 0
        <3>1. pc' = <<"fetch", "begin">> /\ snapshot' = snapshot /\ events' = events
            BY <1>4, <2>1 DEF EndSearch, Goto
        <3> HIDE DEF part
        <3> QED BY <1>1, <1>2, <3>1, QuietReflects
    <2>2. CASE ~(work.found > 0)
        <3>1. PICK reason \in {"no_evidence", "search_failed"} : Report(Failed(snapshot, reason))
            BY <1>4, <2>2 DEF EndSearch
        <3>2. Stage = "search"
            BY <1>4 DEF EndSearch, At, Stage
        <3> QED BY <3>1, <3>2, NothingReflects
    <2> QED BY <2>1, <2>2
<1>5. CASE FetchAnswered
    <2>1. \/ \E l : Exceeds(l)
          \/ pc' = <<"extract", "launch">> /\ snapshot' = snapshot /\ events' = events
        BY <1>5 DEF FetchAnswered, Goto
    <2> HIDE DEF part
    <2> QED BY <1>1, <1>2, <2>1, QuietReflects, ExceededReflects
<1>6. CASE ExtractAnswered
    <2>1. pc' = <<"fetch", "begin">> /\ snapshot' = snapshot /\ events' = events
        BY <1>6 DEF ExtractAnswered, Goto
    <2> HIDE DEF part
    <2> QED BY <1>1, <1>2, <2>1, QuietReflects
<1>7. CASE EndFetch
    <2>1. pc' = <<"rank", "begin">> /\ snapshot' = snapshot /\ events' = events
        BY <1>7 DEF EndFetch, Goto
    <2> HIDE DEF part
    <2> QED BY <1>1, <1>2, <2>1, QuietReflects
<1> QED BY <1>3, <1>4, <1>5, <1>6, <1>7

LEMMA RankReflects ==
    ASSUME ResearchInv, ReflectInv, Rank
    PROVE  ReflectInv'
<1>1. Stage = "rank" /\ snapshot \in Snapshots
    BY DEF Rank, At, Stage, ResearchInv, RunTypeOK
<1>2. /\ events = Searched /\ snapshot.reason = "none" /\ ~snapshot.answered
      /\ snapshot.citations = {} /\ snapshot.claims = 0
    BY <1>1 DEF ReflectInv, Told, EvidenceIsHeld
<1>3. PICK records \in SUBSET work.documents, unbuilt \in SUBSET work.documents :
        /\ records \cap unbuilt = {} /\ Cardinality(records \cup unbuilt) <= MaxSelected
        /\ IF records = {}
           THEN Report(Failed(snapshot, "no_evidence"))
           ELSE /\ snapshot' = [snapshot EXCEPT !.status = "evidence_ready", !.evidence = records]
                /\ events' = Append(events, "evidence_ready")
                /\ \E next \in {"memory", "synthesize"} : Goto(next, "begin")
    BY DEF Rank
<1>4. CASE records = {}
    BY <1>1, <1>3, <1>4, NothingReflects
<1>5. CASE records # {}
    <2>1. PICK next \in {"memory", "synthesize"} : pc' = <<next, "begin">>
        BY <1>3, <1>5 DEF Goto
    <2>2. /\ snapshot'.evidence = records /\ snapshot'.reason = "none" /\ ~snapshot'.answered
          /\ snapshot'.citations = {} /\ snapshot'.claims = 0
        BY <1>1, <1>2, <1>3, <1>5 DEF Snapshots
    <2>3. Stage' \in {"memory", "synthesize"}
        BY <2>1 DEF Stage
    <2>4. events' = Told'
        BY <1>2, <1>3, <1>5, <2>3 DEF Told
    <2>5. Cardinality(records) <= MaxSelected
        <3>1. records \cup unbuilt \in SUBSET Pages /\ records \in SUBSET Pages
            BY DEF ResearchInv, RunTypeOK
        <3>2. /\ IsFiniteSet(records \cup unbuilt) /\ Cardinality(records) \in Nat
              /\ Cardinality(records \cup unbuilt) \in Nat
            BY <3>1, PagesAreFinite
        <3>3. Cardinality(records) <= Cardinality(records \cup unbuilt)
            BY <3>2, FS_Subset
        <3> QED BY <1>3, <3>2, <3>3 DEF MaxSelected
    <2>6. EvidenceIsHeld' /\ ReportIsSound'
        BY <1>5, <2>2, <2>3, <2>5 DEF EvidenceIsHeld, ReportIsSound
    <2> QED BY <2>4, <2>6 DEF ReflectInv
<1> QED BY <1>4, <1>5

LEMMA MemoryReflects ==
    ASSUME ResearchInv, ReflectInv, MemoryAnswered \/ RecheckAnswered
    PROVE  ReflectInv'
<1> DEFINE part == {"memory", "recheck", "synthesize", "validate", "draft"}
<1>1. part \in Quiet /\ Stage \in part
    BY StagesOfAnswers DEF Quiet
<1>2. PICK next \in {"recheck", "synthesize"} :
         pc' = <<next, "begin">> /\ snapshot' = snapshot /\ events' = events
    BY DEF MemoryAnswered, RecheckAnswered, Goto
<1>3. next \in part
    OBVIOUS
<1> HIDE DEF part
<1> QED BY <1>1, <1>2, <1>3, QuietReflects

LEMMA RetryReflects ==
    ASSUME ResearchInv, ReflectInv, Stage \in {"synthesize", "validate"}, Retry
    PROVE  ReflectInv'
<1> DEFINE part == {"memory", "recheck", "synthesize", "validate", "draft"}
<1>1. part \in Quiet /\ Stage \in part /\ "synthesize" \in part /\ Stage # "over"
    BY DEF Quiet
<1>2. \/ pc' = <<"synthesize", "begin">> /\ snapshot' = snapshot /\ events' = events
      \/ Report(Stopped("invalid"))
    BY DEF Retry, Goto
<1> HIDE DEF part
<1> QED BY <1>1, <1>2, QuietReflects, StopReflects

LEMMA SynthesisReflects ==
    ASSUME ResearchInv, ReflectInv, SynthesisAnswered \/ MalformedAnswer
    PROVE  ReflectInv'
<1> DEFINE part == {"memory", "recheck", "synthesize", "validate", "draft"}
<1>1. Stage = "synthesize"
    BY StagesOfAnswers
<1>2. part \in Quiet /\ Stage \in part /\ "validate" \in part /\ Stage # "over"
    BY <1>1 DEF Quiet
<1>3. CASE SynthesisAnswered
    <2>1. \/ \E l : Exceeds(l)
          \/ pc' = <<"validate", "begin">> /\ snapshot' = snapshot /\ events' = events
        BY <1>3 DEF SynthesisAnswered, Goto
    <2> HIDE DEF part
    <2> QED BY <1>2, <2>1, QuietReflects, ExceededReflects
<1>4. CASE MalformedAnswer
    BY <1>1, <1>4, RetryReflects DEF MalformedAnswer
<1> QED BY <1>3, <1>4

LEMMA ValidateReflects ==
    ASSUME ResearchInv, ReflectInv, Validate
    PROVE  ReflectInv'
<1> DEFINE part == {"memory", "recheck", "synthesize", "validate", "draft"}
<1>1. Stage = "validate"
    BY DEF Validate, At, Stage
<1>2. part \in Quiet /\ Stage \in part /\ "draft" \in part /\ Stage # "over"
    BY <1>1 DEF Quiet
<1>3. PICK r \in Readings :
        \/ Check(r) # "fine" /\ Stop(Check(r))
        \/ \E l : Exceeds(l)
        \/ Retry
        \/ Report(Stopped("invalid"))
        \/ /\ work.citations # {} /\ work.citations \subseteq Citable
           /\ Goto("draft", "begin")
           /\ UNCHANGED <<work, snapshot, events, result, cancelled, launched, kept>>
    BY DEF Validate
<1>4. CASE /\ work.citations # {} /\ work.citations \subseteq Citable
           /\ Goto("draft", "begin")
           /\ UNCHANGED <<work, snapshot, events, result, cancelled, launched, kept>>
    <2>1. /\ pc' = <<"draft", "begin">> /\ snapshot' = snapshot /\ events' = events
          /\ work'.citations # {} /\ work'.citations \subseteq snapshot.evidence
        BY <1>4 DEF Goto, Citable
    <2> HIDE DEF part
    <2> QED BY <1>2, <2>1, QuietReflects
<1>5. CASE Check(r) # "fine" /\ Stop(Check(r))
    BY <1>2, <1>5, VerdictReflects
<1>6. CASE Retry
    BY <1>1, <1>6, RetryReflects
<1>7. CASE Report(Stopped("invalid"))
    BY <1>2, <1>7, StopReflects
<1> QED BY <1>2, <1>3, <1>4, <1>5, <1>6, <1>7, ExceededReflects

LEMMA DraftReflects ==
    ASSUME ResearchInv, ReflectInv, Draft
    PROVE  ReflectInv'
<1>1. Stage = "draft" /\ snapshot \in Snapshots
    BY DEF Draft, At, Stage, ResearchInv, RunTypeOK
<1>2. /\ events = Append(Searched, "evidence_ready") /\ snapshot.reason = "none"
      /\ work.citations # {} /\ work.citations \subseteq snapshot.evidence
      /\ snapshot.evidence # {} /\ Cardinality(snapshot.evidence) <= MaxSelected
    BY <1>1 DEF ReflectInv, Told, EvidenceIsHeld, Gathered
<1>3. PICK r \in Readings :
        \/ Check(r) # "fine" /\ Stop(Check(r))
        \/ /\ \E n \in ClaimCounts :
                 snapshot' = [snapshot EXCEPT !.status = "answer_ready", !.answered = TRUE,
                                              !.citations = work.citations, !.claims = n]
           /\ events' = Append(events, "answer_drafted")
           /\ pc' = <<"complete", "begin">>
    BY DEF Draft, Goto
<1>4. CASE Check(r) # "fine" /\ Stop(Check(r))
    BY <1>1, <1>4, VerdictReflects
<1>5. CASE /\ \E n \in ClaimCounts :
                 snapshot' = [snapshot EXCEPT !.status = "answer_ready", !.answered = TRUE,
                                              !.citations = work.citations, !.claims = n]
           /\ events' = Append(events, "answer_drafted")
           /\ pc' = <<"complete", "begin">>
    <2>1. /\ snapshot'.evidence = snapshot.evidence /\ snapshot'.reason = snapshot.reason
          /\ snapshot'.answered /\ snapshot'.citations = work.citations
        BY <1>1, <1>5 DEF Snapshots
    <2>2. Stage' = "complete" /\ Gathered'
        BY <1>5 DEF Stage, Gathered
    <2>3. events' = Told'
        BY <1>2, <1>5, <2>2 DEF Told
    <2>4. work' = work
        BY <1>5, <2>2 DEF Draft, Stop, Report, Stage
    <2>5. EvidenceIsHeld' /\ ReportIsSound'
        BY <1>2, <2>1, <2>2, <2>4 DEF EvidenceIsHeld, ReportIsSound
    <2> QED BY <2>3, <2>5 DEF ReflectInv
<1> QED BY <1>3, <1>4, <1>5

LEMMA CompleteReflects ==
    ASSUME ResearchInv, ReflectInv, Complete
    PROVE  ReflectInv'
<1>1. Stage = "complete" /\ snapshot \in Snapshots
    BY DEF Complete, At, Stage, ResearchInv, RunTypeOK
<1>2. /\ snapshot.reason = "none" /\ snapshot.answered /\ snapshot.citations # {}
      /\ snapshot.citations \subseteq snapshot.evidence
      /\ Cardinality(snapshot.evidence) <= MaxSelected
      /\ events = Append(Append(Searched, "evidence_ready"), "answer_drafted")
    BY <1>1 DEF ReflectInv, Told, EvidenceIsHeld, Gathered
<1> DEFINE final == [snapshot EXCEPT !.status = "completed"]
<1>3. PICK r \in Readings : (Check(r) # "fine" /\ Stop(Check(r))) \/ Report(final)
    BY DEF Complete
<1>4. CASE Check(r) # "fine" /\ Stop(Check(r))
    BY <1>1, <1>4, VerdictReflects
<1>5. CASE Report(final)
    <2>1. /\ final.status = "completed" /\ final.answered /\ final.reason = "none"
          /\ final.citations = snapshot.citations /\ final.evidence = snapshot.evidence
        BY <1>1, <1>2 DEF Snapshots
    <2> HIDE DEF final
    <2>2. /\ pc' = <<"over", "begin">> /\ result' = final /\ snapshot' = snapshot
          /\ events' = Append(events, Terminal("completed"))
        BY <1>5, <2>1 DEF Report
    <2>3. Stage' = "over" /\ ~Gathered'
        BY <2>2 DEF Stage, Gathered
    <2>4. events' = Told'
        BY <2>3 DEF Told
    <2>5. EvidenceIsHeld'
        BY <1>2, <2>2, <2>3 DEF EvidenceIsHeld
    <2>6. Append(Append(Searched, "evidence_ready"), "answer_drafted") \in Openings
        BY DEF Openings
    <2>7. ReportIsSound'
        BY <1>2, <2>1, <2>2, <2>3, <2>6 DEF ReportIsSound
    <2> QED BY <2>4, <2>5, <2>7 DEF ReflectInv
<1> QED BY <1>3, <1>4, <1>5

\* A step that leaves all of it alone.
LEMMA SameReflects ==
    ASSUME ReflectInv, UNCHANGED <<pc, work, snapshot, events, result>>
    PROVE  ReflectInv'
<1>1. /\ Told' = Told /\ EvidenceIsHeld' /\ ReportIsSound'
    BY DEF ReflectInv, Told, EvidenceIsHeld, ReportIsSound, Gathered, Stage
<1> QED BY <1>1 DEF ReflectInv

LEMMA RunsReflect ==
    ASSUME ResearchInv, ReflectInv, [RunNext]_runVars
    PROVE  ReflectInv'
<1>1. CASE UNCHANGED runVars
    BY <1>1, SameReflects DEF runVars
<1>2. CASE Runner
    <2>1. CASE BeginPlan \/ BeginSearch \/ BeginFetch \/ BeginMemory \/ BeginSynthesis
        <3>1. \E stage \in Stages : Begun(stage)
            BY <2>1 DEF BeginPlan, BeginSearch, BeginFetch, BeginMemory, BeginSynthesis, Stages
        <3> QED BY <3>1, BegunReflects
    <2> QED BY <1>2, <2>1, GatheringReflects, RankReflects, ValidateReflects, DraftReflects,
               CompleteReflects, LaunchReflects DEF Runner
<1>3. CASE TimeOut \/ InvalidExtractor
    <2>1. PICK stage \in Stages, v \in {"exhausted", "invalid"} :
             At(stage, "wait") /\ Report(Stopped(v))
        BY <1>3 DEF TimeOut, InvalidExtractor, Stop, Timed, Stages
    <2>2. Stage # "over"
        BY <2>1, QuietStages DEF At, Stage
    <2> QED BY <2>1, <2>2, StopReflects
<1>4. CASE Adapters
    BY <1>3, <1>4, PlanAnsweredReflects, GatheringReflects, MemoryReflects, SynthesisReflects,
       FailuresReflect DEF Adapters
<1>5. CASE RequestCancel
    BY <1>5, SameReflects DEF RequestCancel
<1> QED BY <1>1, <1>2, <1>3, <1>4, <1>5 DEF RunNext

LEMMA InitiallyReflects ==
    ASSUME RunInit
    PROVE  ReflectInv
<1>1. Stage = "plan" /\ snapshot = Created /\ events = Beginning
    BY DEF RunInit, Stage, Beginning
<1>2. /\ Created.reason = "none" /\ ~Created.answered /\ Created.citations = {}
      /\ Created.claims = 0
    BY DEF Created
<1>3. events = Told
    BY <1>1 DEF Told
<1>4. EvidenceIsHeld /\ ReportIsSound
    BY <1>1, <1>2 DEF EvidenceIsHeld, ReportIsSound, Gathered
<1> QED BY <1>3, <1>4 DEF ReflectInv
-----------------------------------------------------------------------------
\* The theorems.

\* The two inductive invariants: what is paid for, and what is told and held.
THEOREM ResearchInvariance == RunSpec => [](ResearchInv /\ ReflectInv)
<1>1. RunInit => ResearchInv /\ ReflectInv
    BY InitialRun, InitiallyReflects
<1>2. ResearchInv /\ ReflectInv /\ [RunNext]_runVars => (ResearchInv /\ ReflectInv)'
    BY RunsKeep, RunsReflect DEF ReflectInv
<1> QED BY <1>1, <1>2, PTL DEF RunSpec

\* Every budget of a run, its counts and its place among the stages stay what they are.
THEOREM RunTypes == RunSpec => []RunTypeOK
<1>1. ResearchInv /\ ReflectInv => RunTypeOK
    BY DEF ResearchInv
<1> QED BY <1>1, ResearchInvariance, PTL

\* Whatever a run has done is paid for, whichever charge did not fit and whatever failed.
THEOREM UsagePaid == RunSpec => []UsageIsPaidFor
<1>1. ResearchInv /\ ReflectInv => UsageIsPaidFor
    BY DEF ResearchInv, UsageIsPaidFor, LaunchesArePaid, BytesArePaid, AttemptsArePaid,
           PagesArePaid, MemoryIsRead
<1> QED BY <1>1, ResearchInvariance, PTL

\* A cancelled run is told so at every boundary.
LEMMA CancelledStops ==
    ASSUME RunTypeOK, cancelled, NEW r \in Readings
    PROVE  Check(r) # "fine" /\ \A stage : ~InTime(stage, r)
BY Verdicts DEF InTime

\* What a run reports when it is stopped is no completed run.
LEMMA StopsCompleteNothing ==
    ASSUME NEW v \in {"cancelled", "invalid", "exhausted"}, Report(Stopped(v))
    PROVE  launched' = launched /\ result'.status # "completed"
BY StoppedSnapshots DEF Report

\* What a step of a cancelled run may be.
LEMMA CancelledSteps ==
    ASSUME ResearchInv, cancelled, [RunNext]_runVars
    PROVE  /\ launched' = launched
           /\ result' = result \/ result'.status # "completed"
<1>1. RunTypeOK /\ snapshot \in Snapshots
    BY DEF ResearchInv, RunTypeOK
<1>2. \A r \in Readings : Check(r) # "fine" /\ \A stage : ~InTime(stage, r)
    BY <1>1, CancelledStops
<1>3. \A r \in Readings : Stop(Check(r)) => launched' = launched /\ result'.status # "completed"
    BY <1>1, <1>2, Verdicts, StopsCompleteNothing DEF Stop
<1>4. \A l : Exceeds(l) => launched' = launched /\ result'.status # "completed"
    BY StopsCompleteNothing DEF Exceeds
<1>5. \A stage : Forgive(stage) => launched' = launched /\ result' = result
    BY DEF Forgive, NextSearch, NextPage
<1>6. CASE UNCHANGED runVars
    BY <1>6 DEF runVars
<1>7. CASE \E stage \in Stages : Begun(stage)
    BY <1>2, <1>3, <1>7 DEF Begun
<1>8. CASE \E stage \in Stages : Launch(stage)
    BY <1>2, <1>3, <1>5, <1>8 DEF Launch, LaunchCheck
<1>9. CASE \E stage \in Stages : AnswerStops(stage) \/ AdapterFails(stage)
    BY <1>3, <1>5, <1>9, StopsCompleteNothing DEF AnswerStops, AdapterFails, Stop
<1>10. CASE TimeOut \/ InvalidExtractor
    BY <1>10, StopsCompleteNothing DEF TimeOut, InvalidExtractor, Stop
<1>11. \A reason : /\ Report(Failed(snapshot, reason))
                   => launched' = launched /\ result'.status # "completed"
    BY <1>1 DEF Report, Failed, Snapshots
<1>12. CASE EndSearch
    BY <1>11, <1>12 DEF EndSearch
<1>13. CASE Rank
    BY <1>11, <1>13 DEF Rank
<1>14. CASE EndFetch \/ RequestCancel
    BY <1>14 DEF EndFetch, RequestCancel
<1>15. CASE MalformedAnswer
    BY <1>15, StopsCompleteNothing DEF MalformedAnswer, Retry
<1>16. CASE Validate \/ Draft \/ Complete
    BY <1>2, <1>3, <1>16 DEF Validate, Draft, Complete
<1>17. ~PlanAnswered /\ ~SearchAnswered /\ ~FetchAnswered
    BY <1>2 DEF PlanAnswered, SearchAnswered, FetchAnswered
<1>18. ~ExtractAnswered /\ ~MemoryAnswered /\ ~RecheckAnswered /\ ~SynthesisAnswered
    BY <1>2 DEF ExtractAnswered, MemoryAnswered, RecheckAnswered, SynthesisAnswered
<1>19. BeginPlan \/ BeginSearch \/ BeginFetch \/ BeginMemory \/ BeginSynthesis
           => \E stage \in Stages : Begun(stage)
    BY DEF BeginPlan, BeginSearch, BeginFetch, BeginMemory, BeginSynthesis, Stages
<1> QED BY <1>6, <1>7, <1>8, <1>9, <1>10, <1>12, <1>13, <1>14, <1>15, <1>16, <1>17, <1>18, <1>19
    DEF RunNext, Runner, Adapters

\* After a run is cancelled it launches nothing and does not complete.
THEOREM StopsObeyed == RunSpec => StopsAreObeyed
<1>1. ResearchInv /\ ReflectInv /\ [RunNext]_runVars
          => [cancelled => /\ launched' = launched
                           /\ (result'.status = "completed" => result.status = "completed")]_runVars
    BY CancelledSteps
<1> QED BY <1>1, ResearchInvariance, PTL DEF RunSpec, StopsAreObeyed
-----------------------------------------------------------------------------
\* What the worker makes of the result.

\* A set of numbers that is not empty has a least one.
LEMMA LeastNumber ==
    ASSUME NEW S, S \subseteq Nat, S # {}
    PROVE  \E n \in S : \A m \in S : n <= m
<1> DEFINE R == {ss \in Nat \X Nat : ss[1] < ss[2]}
<1>1. IsWellFoundedOn(R, Nat)
    BY NatLessThanWellFounded DEF OpToRel
<1> HIDE DEF R
<1>2. PICK n \in S : \A m \in S : ~(<<m, n>> \in R)
    BY <1>1, WFMin, Zenon
<1>3. \A m \in S : m \in Nat /\ n \in Nat /\ ~(m < n)
    BY <1>2 DEF R
<1> QED BY <1>3

\* The passes are as many as the encodings: then nothing changes any more.
LEMMA PassesDecode ==
    ASSUME NEW c \in Components
    PROVE  FullyDecoded(c) = [c EXCEPT !.layers = 0]
<1> DEFINE last == c.layers
           S == 0..last + 1
           W == [n \in S |-> [c EXCEPT !.layers = IF n <= last THEN last - n ELSE 0]]
           F == CHOOSE f : f = [n \in S |-> IF n = 0 THEN c ELSE Pass(f[n - 1])]
           k == CHOOSE n \in 0..last : F[n] = F[n + 1]
<1>1. FullyDecoded(c) = F[k]
    BY DEF FullyDecoded
<1>2. last \in Nat /\ c = [layers |-> last, shows |-> c.shows]
    BY DEF Components
<1>3. \A n \in S : /\ n <= last => W[n] = [layers |-> last - n, shows |-> c.shows]
                   /\ ~(n <= last) => W[n] = [layers |-> 0, shows |-> c.shows]
    BY <1>2
<1>4. \A n \in S \ {0} : n - 1 \in S /\ W[n] = Pass(W[n - 1])
    <2> SUFFICES ASSUME NEW n \in S \ {0} PROVE n - 1 \in S /\ W[n] = Pass(W[n - 1])
        OBVIOUS
    <2>1. n \in Nat \ {0} /\ n - 1 \in S /\ n - 1 <= last
        BY <1>2
    <2> HIDE DEF W
    <2>2. W[n - 1] = [layers |-> last - (n - 1), shows |-> c.shows]
        BY <1>2, <1>3, <2>1
    <2>3. CASE n <= last
        <3>1. W[n] = [layers |-> last - n, shows |-> c.shows]
            BY <1>3, <2>3
        <3>2. last - (n - 1) - 1 = last - n /\ last - (n - 1) > 0
            BY <1>2, <2>1, <2>3
        <3> QED BY <2>1, <2>2, <3>1, <3>2 DEF Pass
    <2>4. CASE ~(n <= last)
        <3>1. W[n] = [layers |-> 0, shows |-> c.shows]
            BY <1>3, <2>4
        <3>2. last - (n - 1) = 0
            BY <1>2, <2>1, <2>4
        <3> QED BY <2>1, <2>2, <3>1, <3>2 DEF Pass
    <2> QED BY <2>3, <2>4
<1>5. 0 \in S /\ W[0] = c
    BY <1>2, <1>3
<1>6. F = [n \in S |-> IF n = 0 THEN c ELSE Pass(F[n - 1])]
    <2>1. W = [n \in S |-> IF n = 0 THEN c ELSE Pass(W[n - 1])]
        <3>1. W = [n \in S |-> W[n]]
            OBVIOUS
        <3> HIDE DEF W
        <3>2. \A n \in S : W[n] = IF n = 0 THEN c ELSE Pass(W[n - 1])
            BY <1>4, <1>5
        <3> HIDE DEF S
        <3> QED BY <3>1, <3>2
    <2> HIDE DEF W
    <2> QED BY <2>1
<1> HIDE DEF F, W
<1>7. \A n \in S : F[n] = W[n]
    <2> DEFINE B == {n \in S : F[n] # W[n]}
    <2> SUFFICES ASSUME B # {} PROVE FALSE
        OBVIOUS
    <2>1. B \subseteq Nat
        BY <1>2
    <2> HIDE DEF B
    <2>2. PICK n \in B : \A m \in B : n <= m
        BY <2>1, LeastNumber
    <2> USE DEF B
    <2>3. n # 0
        BY <1>5, <1>6, <2>2
    <2>4. n \in S \ {0} /\ n - 1 \in S /\ n \in Nat
        BY <1>4, <2>1, <2>2, <2>3
    <2>5. n - 1 \notin B
        BY <2>1, <2>2, <2>4
    <2>6. F[n - 1] = W[n - 1]
        BY <2>4, <2>5
    <2>7. F[n] = Pass(F[n - 1])
        BY <1>6, <2>4
    <2>8. F[n] = W[n]
        BY <1>4, <2>4, <2>6, <2>7
    <2> QED BY <2>2, <2>8
<1>8. k \in 0..last /\ F[k] = F[k + 1]
    <2>1. last \in 0..last /\ last \in S /\ last + 1 \in S
        BY <1>2
    <2>2. W[last] = W[last + 1]
        <3>1. last - last = 0 /\ ~(last + 1 <= last) /\ last <= last
            BY <1>2
        <3> QED BY <1>3, <2>1, <3>1
    <2> QED BY <1>7, <2>1, <2>2
<1> HIDE DEF k
<1>9. k = last
    <2> SUFFICES ASSUME k # last PROVE FALSE
        OBVIOUS
    <2>1. k \in S /\ k + 1 \in S /\ k <= last /\ k + 1 <= last /\ k \in Nat
        BY <1>2, <1>8
    <2>2. /\ W[k] = [layers |-> last - k, shows |-> c.shows]
          /\ W[k + 1] = [layers |-> last - (k + 1), shows |-> c.shows]
        <3> HIDE DEF S, last
        <3> QED BY <1>3, <2>1
    <2>3. last - k # last - (k + 1)
        BY <1>2, <2>1
    <2> QED BY <1>7, <1>8, <2>1, <2>2, <2>3
<1>10. W[last] = [layers |-> 0, shows |-> c.shows]
    <2>1. last \in S /\ last <= last /\ last - last = 0
        BY <1>2
    <2> QED BY <1>3, <2>1
<1>11. last \in S
    BY <1>2
<1>12. FullyDecoded(c) = [layers |-> 0, shows |-> c.shows]
    BY <1>1, <1>7, <1>9, <1>10, <1>11
<1>13. [c EXCEPT !.layers = 0] = [layers |-> 0, shows |-> c.shows]
    BY DEF Components
<1> QED BY <1>12, <1>13

\* An address is safe exactly if it is public and discloses nothing at any depth.
LEMMA SafeAddresses ==
    ASSUME NEW url \in EvidenceUrls
    PROVE  SafeUrl(url) <=> url.origin = "public" /\ ~Discloses(url)
<1>1. url.path \in Components /\ url.query \in Components
    BY ReflectionAssumption
<1>2. \A c \in Components : Seen(FullyDecoded(c)) = c.shows
    <2> SUFFICES ASSUME NEW c \in Components PROVE Seen(FullyDecoded(c)) = c.shows
        OBVIOUS
    <2>1. [c EXCEPT !.layers = 0].layers = 0 /\ [c EXCEPT !.layers = 0].shows = c.shows
        BY DEF Components
    <2> QED BY <2>1, PassesDecode DEF Seen
<1> QED BY <1>1, <1>2 DEF SafeUrl, Discloses

\* What a run tells at its end, and before.
Terminals == {"run_completed", "run_failed", "run_cancelled"}
Waypoints == {"run_created", "plan_accepted", "search_started", "evidence_ready", "answer_drafted"}

LEMMA TellingMore ==
    ASSUME NEW S, NEW told \in Seq(S), NEW word \in S
    PROVE  LET all == Append(told, word) IN
           /\ all \in Seq(S) /\ Len(told) \in Nat /\ Len(all) = Len(told) + 1
           /\ all[Len(all)] = word /\ \A i \in 1..Len(told) : all[i] = told[i]
BY AppendProperties, LenProperties

LEMMA OpeningsAreTold ==
    /\ \A told \in Openings : told \in Seq(Waypoints) /\ Len(told) <= 5
    /\ Append(Beginning, "answer_drafted") \in Seq({"run_created", "answer_drafted"})
    /\ Searched \in Seq(Waypoints) /\ Len(Searched) = 3
<1> DEFINE searched == <<"plan_accepted", "search_started">>
           gathered == Append(Searched, "evidence_ready")
           drafted == Append(gathered, "answer_drafted")
           answered == Append(Beginning, "answer_drafted")
<1>1. "evidence_ready" \in Waypoints /\ "answer_drafted" \in Waypoints
    BY DEF Waypoints
<1>2. Beginning \in Seq({"run_created", "answer_drafted"}) /\ Len(Beginning) = 1
    BY DEF Beginning
<1>3. Beginning \in Seq(Waypoints)
    BY DEF Beginning, Waypoints
<1>4. searched \in Seq(Waypoints) /\ Len(searched) = 2 /\ Searched = Beginning \o searched
    BY DEF Waypoints, Searched
<1> HIDE DEF searched
<1>5. Searched \in Seq(Waypoints) /\ Len(Searched) = 3
    <2>1. Searched \in Seq(Waypoints) /\ Len(Searched) = Len(Beginning) + Len(searched)
        BY <1>3, <1>4, ConcatProperties
    <2> QED BY <1>2, <1>4, <2>1
<1>6. Searched \in Seq(Waypoints)
    BY <1>5
<1>7. gathered \in Seq(Waypoints) /\ Len(gathered) = Len(Searched) + 1
    BY <1>1, <1>6, TellingMore
<1> HIDE DEF gathered
<1>8. gathered \in Seq(Waypoints)
    BY <1>7
<1>9. drafted \in Seq(Waypoints) /\ Len(drafted) = Len(gathered) + 1
    BY <1>1, <1>8, TellingMore
<1>10. answered \in Seq(Waypoints) /\ Len(answered) = Len(Beginning) + 1
    BY <1>1, <1>3, TellingMore
<1>11. answered \in Seq({"run_created", "answer_drafted"})
    BY <1>2, AppendProperties
<1> HIDE DEF drafted, answered
<1>12. Len(gathered) = 4 /\ Len(drafted) = 5 /\ Len(answered) = 2
    BY <1>2, <1>5, <1>7, <1>9, <1>10
<1>13. Openings = {Beginning, Searched, gathered, drafted, answered}
    BY DEF Openings, gathered, drafted, answered
<1>14. \A told \in Openings : told \in Seq(Waypoints) /\ Len(told) <= 5
    <2>1. /\ Len(Beginning) <= 5 /\ Len(Searched) <= 5 /\ Len(gathered) <= 5
          /\ Len(drafted) <= 5 /\ Len(answered) <= 5
        BY <1>2, <1>5, <1>12
    <2>2. /\ Beginning \in Seq(Waypoints) /\ Searched \in Seq(Waypoints) /\ gathered \in Seq(Waypoints)
          /\ drafted \in Seq(Waypoints) /\ answered \in Seq(Waypoints)
        BY <1>3, <1>5, <1>8, <1>9, <1>10
    <2> QED BY <1>13, <2>1, <2>2, Zenon
<1> QED BY <1>5, <1>11, <1>14 DEF answered

\* A run's events have one end, and that is their last.
LEMMA EndedEvents ==
    ASSUME NEW told \in Openings, NEW last \in Terminals
    PROVE  LET all == Append(told, last) IN
           /\ Len(all) \in 1..6 /\ all[Len(all)] = last
           /\ {i \in DOMAIN all : all[i] \in Terminals} = {Len(all)}
<1> DEFINE all == Append(told, last)
<1>1. told \in Seq(Waypoints) /\ Len(told) \in Nat /\ Len(told) <= 5
    BY OpeningsAreTold, LenProperties
<1>2. told \in Seq(Waypoints \cup Terminals) /\ last \in Waypoints \cup Terminals
    BY <1>1, SeqMonotonic
<1>3. /\ all \in Seq(Waypoints \cup Terminals) /\ Len(all) = Len(told) + 1
      /\ \A i \in 1..Len(told) : all[i] = told[i]
      /\ all[Len(told) + 1] = last
    BY <1>2, AppendProperties
<1>4. DOMAIN all = 1..Len(all)
    BY <1>3, LenProperties
<1>5. \A i \in 1..Len(told) : told[i] \in Waypoints
    BY <1>1, ElementOfSeq
<1>6. \A word \in Waypoints : word \notin Terminals
    BY DEF Waypoints, Terminals
<1> HIDE DEF all
<1>7. \A i \in DOMAIN all : all[i] \in Terminals <=> i = Len(all)
    <2> SUFFICES ASSUME NEW i \in DOMAIN all
                 PROVE  all[i] \in Terminals <=> i = Len(all)
        OBVIOUS
    <2>1. i \in 1..Len(told) \/ i = Len(told) + 1
        BY <1>1, <1>3, <1>4
    <2>2. CASE i \in 1..Len(told)
        BY <1>1, <1>3, <1>5, <1>6, <2>2
    <2>3. CASE i = Len(told) + 1
        BY <1>3, <2>3
    <2> QED BY <2>1, <2>2, <2>3
<1>8. Len(all) \in DOMAIN all /\ Len(all) \in 1..6
    BY <1>1, <1>3, <1>4
<1>9. {i \in DOMAIN all : all[i] \in Terminals} = {Len(all)}
    BY <1>7, <1>8
<1> QED BY <1>3, <1>8, <1>9 DEF all

\* A completed run has told of evidence exactly if it searched.
LEMMA EvidenceIsTold ==
    /\ Contains(Append(Append(Append(Searched, "evidence_ready"), "answer_drafted"),
                       "run_completed"), "evidence_ready")
    /\ ~Contains(Append(Append(Beginning, "answer_drafted"), "run_completed"), "evidence_ready")
<1>1. Contains(Append(Append(Append(Searched, "evidence_ready"), "answer_drafted"),
                      "run_completed"), "evidence_ready")
    <2> DEFINE a == Append(Searched, "evidence_ready")
               b == Append(a, "answer_drafted")
               c == Append(b, "run_completed")
               All == Waypoints \cup {"run_completed"}
    <2>1. Searched \in Seq(All) /\ Len(Searched) = 3
        BY OpeningsAreTold, SeqMonotonic
    <2>2. "evidence_ready" \in All /\ "answer_drafted" \in All /\ "run_completed" \in All
        BY DEF Waypoints
    <2> HIDE DEF All
    <2>3. a \in Seq(All) /\ Len(a) = 4 /\ a[4] = "evidence_ready"
        <3>1. Searched \in Seq(All) /\ "evidence_ready" \in All
            BY <2>1, <2>2
        <3>2. /\ a \in Seq(All) /\ Len(a) = Len(Searched) + 1
              /\ a[Len(a)] = "evidence_ready"
            BY <3>1, TellingMore
        <3> QED BY <2>1, <3>2
    <2> HIDE DEF a
    <2>4. b \in Seq(All) /\ Len(b) = 5 /\ b[4] = a[4]
        <3>1. a \in Seq(All) /\ "answer_drafted" \in All
            BY <2>3, <2>2
        <3>2. /\ b \in Seq(All) /\ Len(b) = Len(a) + 1
              /\ \A i \in 1..Len(a) : b[i] = a[i]
            BY <3>1, TellingMore
        <3> QED BY <2>3, <3>2
    <2> HIDE DEF b
    <2>5. c \in Seq(All) /\ Len(c) = 6 /\ c[4] = b[4]
        <3>1. b \in Seq(All) /\ "run_completed" \in All
            BY <2>4, <2>2
        <3>2. /\ c \in Seq(All) /\ Len(c) = Len(b) + 1
              /\ \A i \in 1..Len(b) : c[i] = b[i]
            BY <3>1, TellingMore
        <3> QED BY <2>4, <3>2
    <2> HIDE DEF c
    <2>6. Contains(c, "evidence_ready")
        BY <2>3, <2>4, <2>5 DEF Contains
    <2> QED BY <2>6 DEF a, b, c
<1>2. ~Contains(Append(Append(Beginning, "answer_drafted"), "run_completed"), "evidence_ready")
    <2> DEFINE All == {"run_created", "answer_drafted", "run_completed"}
               a == Append(Beginning, "answer_drafted")
               b == Append(a, "run_completed")
    <2>1. a \in Seq(All)
        BY OpeningsAreTold, SeqMonotonic
    <2> HIDE DEF a
    <2>2. b \in Seq(All)
        BY <2>1, AppendProperties
    <2> HIDE DEF b
    <2>3. \A i \in 1..Len(b) : b[i] \in All
        BY <2>2, ElementOfSeq
    <2>4. ~Contains(b, "evidence_ready")
        BY <2>3 DEF Contains
    <2> QED BY <2>4 DEF a, b
<1> QED BY <1>1, <1>2

LEMMA ResultsReflect ==
    ASSUME ResearchInv, ReflectInv, At("over", "begin")
    PROVE  /\ {i \in DOMAIN events :
                  events[i] \in {"run_completed", "run_failed", "run_cancelled"}} = {Len(events)}
           /\ events[Len(events)] = Terminal(result.status)
           /\ \A urls \in [result.citations -> EvidenceUrls] :
                 LET lost == /\ result.status = "completed"
                             /\ \/ result.claims > 16
                                \/ \E p \in result.citations :
                                      urls[p].origin # "public" \/ Discloses(urls[p])
                 IN Projection(urls) = [state |-> IF lost THEN "failed" ELSE result.status,
                                        reflected |-> ~lost]
<1>1. Stage = "over"
    BY DEF At, Stage
<1>2. PICK told \in Openings :
              /\ events = Append(told, Terminal(result.status))
              /\ \/ /\ result.status = "completed" /\ result.answered /\ result.reason = "none"
                    /\ \/ result.citations = {} /\ told = Append(Beginning, "answer_drafted")
                       \/ /\ result.citations # {}
                          /\ told = Append(Append(Searched, "evidence_ready"), "answer_drafted")
                 \/ /\ result.status \in {"failed", "cancelled"} /\ ~result.answered
                    /\ result.status = "failed" <=> result.reason # "none"
                    /\ result.claims = 0 /\ result.citations = {}
    BY <1>1 DEF ReflectInv, ReportIsSound
<1>3. /\ result.citations \subseteq result.evidence
      /\ Cardinality(result.evidence) <= MaxSelected
    BY <1>1 DEF ReflectInv, ReportIsSound
<1>4. /\ RunTypeOK /\ result \in Snapshots /\ result.claims \in Nat
      /\ Cardinality(result.evidence) \in Nat
    <2>1. RunTypeOK /\ result \in Snapshots
        BY DEF ResearchInv, RunTypeOK
    <2>2. result.evidence \in SUBSET Pages /\ result.claims \in Nat
        BY <2>1 DEF Snapshots
    <2> QED BY <2>1, <2>2, PagesAreFinite
<1>5. Terminal(result.status) \in Terminals
    BY <1>2 DEF Terminal, Terminals
<1>6. /\ Len(events) \in 1..6 /\ events[Len(events)] = Terminal(result.status)
      /\ {i \in DOMAIN events : events[i] \in Terminals} = {Len(events)}
    BY <1>2, <1>5, EndedEvents
<1>7. ValidResult <=> result.claims <= 16
    <2>1. ledger.failed <= ledger.pages
        <3>1. /\ ledger.failed + Cardinality(snapshot.evidence) <= ledger.pages
              /\ ledger.failed \in Nat /\ ledger.pages \in Nat
            BY <1>4, RunNumbers DEF ResearchInv, PagesArePaid
        <3>2. Cardinality(snapshot.evidence) \in Nat
            BY <1>4, PagesAreFinite DEF RunTypeOK, Snapshots
        <3> QED BY <3>1, <3>2
    <2>2. ledger.attempts <= ledger.calls * MaxAttempts
        BY DEF ResearchInv, AttemptsArePaid
    <2>3. Len(events) <= 16 /\ Cardinality(result.evidence) <= 24
        BY <1>3, <1>4, <1>6 DEF MaxSelected
    <2> QED BY <2>1, <2>2, <2>3, Zenon DEF ValidResult
<1>8. ASSUME NEW urls \in [result.citations -> EvidenceUrls]
      PROVE  LET lost == /\ result.status = "completed"
                         /\ \/ result.claims > 16
                            \/ \E p \in result.citations :
                                  urls[p].origin # "public" \/ Discloses(urls[p])
             IN Projection(urls) = [state |-> IF lost THEN "failed" ELSE result.status,
                                    reflected |-> ~lost]
    <2>1. \A p \in result.citations :
             SafeUrl(urls[p]) <=> urls[p].origin = "public" /\ ~Discloses(urls[p])
        BY SafeAddresses
    <2>2. CASE result.status = "completed"
        <3>1. result.answered /\ result.reason = "none" /\ Cited = result.citations
            BY <1>2, <2>2 DEF Cited
        <3>2. EvidenceRefused(urls) <=> \E p \in result.citations :
                                           urls[p].origin # "public" \/ Discloses(urls[p])
            BY <1>3, <2>1, <2>2, <3>1 DEF EvidenceRefused
        <3>3. Contains(events, "evidence_ready") <=> result.citations # {}
            BY <1>2, <2>2, EvidenceIsTold DEF Terminal
        <3>4. /\ Reflection.outcome = "completed" /\ Reflection.actions = events
              /\ Reflection.evidence = result.citations /\ Reflection.unresolved = {}
            BY <2>2, <3>1 DEF Reflection
        <3>5. ValidReflection(Reflection)
            BY <3>3, <3>4 DEF ValidReflection
        <3>6. ~(result.claims <= 16) <=> result.claims > 16
            BY <1>4
        <3> QED BY <1>7, <2>2, <3>1, <3>2, <3>5, <3>6 DEF Projection
    <2>3. CASE result.status # "completed"
        <3>1. /\ result.status \in {"failed", "cancelled"} /\ Cited = {} /\ result.claims = 0
              /\ result.status = "failed" <=> result.reason # "none"
            BY <1>2, <2>3 DEF Cited
        <3>2. /\ Reflection.outcome = result.status /\ Reflection.evidence = {}
              /\ Reflection.claims = {}
              /\ result.status = "cancelled" => Reflection.unresolved = {"cancelled"}
              /\ result.status = "failed" => Reflection.unresolved # {}
            BY <3>1 DEF Reflection
        <3>3. ValidReflection(Reflection) /\ ~EvidenceRefused(urls)
            BY <2>3, <3>1, <3>2 DEF ValidReflection, EvidenceRefused
        <3>4. ValidResult
            BY <1>7, <3>1
        <3>5. Projection(urls) = [state |-> result.status, reflected |-> TRUE]
            BY <2>3, <3>1, <3>3, <3>4 DEF Projection
        <3> QED BY <2>3, <3>5
    <2> QED BY <2>2, <2>3
<1> QED BY <1>6, <1>8 DEF Terminals

\* Every run ends in one event, and what it reports is what is stored of it, unless an
\* address it cites is not fit to be kept or its answer makes too many claims.
THEOREM ResultsReflected == RunSpec => []ResultsCanBeReflected
<1>1. ResearchInv /\ ReflectInv => ResultsCanBeReflected
    BY ResultsReflect DEF ResultsCanBeReflected
<1> QED BY <1>1, ResearchInvariance, PTL
-----------------------------------------------------------------------------
\* The planner.

\* What a decision is for the request r, however it came about.
Scoped(r, context, d) ==
    /\ ~Forbids(r.text) /\ Screened(d)
    /\ d.category = "research" =>
          /\ d.plan # {}
          /\ \A t \in {d.focus} \cup d.plan :
                t \ (Years \cup Generic) \subseteq Scope(r, context)
    /\ d.category # "research" => d.plan = {}
    /\ d.offers.given => d.offers.offer \ (Years \cup Generic) \subseteq Scope(r, context)

\* What the repair of drafts adds to that.
Repaired(r, d) ==
    /\ NamesResearch(r) => d.category = "research"
    /\ r.question /\ ~r.chat => ~AddsNothing(r, d)

\* A claim that may be made, of all that it says.
ClaimScoped(scope, focus, claim) ==
    LET all == UNION ToSet(claim.sentences) IN
    /\ ~Forbids(all)
    /\ all \cap Controls # {} /\ all \cap Controlled # {} => all \cap Controls \subseteq scope
    /\ ~claim.positional =>
          \A text \in ToSet(claim.sentences) :
             Meaningful(text) \ Years # {} =>
                Shared(scope \cup (focus \cap Years), text, TRUE) # {}

PlannerInv ==
    /\ DOMAIN planner = {"at", "request", "context", "repair", "attempts", "own", "draft",
                         "decision", "claims"}
    /\ planner.at # "new" => planner.request \in PlanRequests /\ planner.context \in Contexts
    /\ planner.at # "answered" => planner.claims = <<>>
    /\ planner.at \in {"planned", "answered"} =>
          /\ Scoped(planner.request, planner.context, planner.decision)
          /\ planner.own /\ planner.repair => Repaired(planner.request, planner.decision)
          /\ planner.decision.category = "research" => IsFiniteSet(planner.decision.focus)
    /\ planner.at = "answered" =>
          \A i \in DOMAIN planner.claims :
             ClaimScoped(Scope(planner.request, planner.context), planner.decision.focus,
                         planner.claims[i])

\* A text that stays strictly in a scope has no words of its own but years.
LEMMA StrictlyScoped ==
    ASSUME NEW scope, NEW text, NEW least, StaysScoped(scope, text, least, TRUE, FALSE)
    PROVE  text \ (Years \cup Generic) \subseteq scope
<1>1. CASE scope = text
    BY <1>1
<1>2. CASE Meaningful(text) \ Meaningful(scope) \subseteq Years
    BY <1>2 DEF Meaningful
<1> QED BY <1>1, <1>2 DEF StaysScoped

\* The least of three numbers is one of them.
LEMMA LeastOfThree ==
    ASSUME NEW a \in Nat, NEW b \in Nat, NEW c \in Nat
    PROVE  Min({a, b, c}) \in Nat
<1>1. \E x \in {a, b, c} : \A y \in {a, b, c} : x <= y
    OBVIOUS
<1>2. Min({a, b, c}) \in {a, b, c}
    BY <1>1 DEF Min
<1> QED BY <1>2

\* A text that stays in a scope, strictly or not, has a word of it.
LEMMA SomethingShared ==
    ASSUME NEW scope, NEW text, NEW least \in Nat, NEW strict, NEW related,
           StaysScoped(scope, text, least, strict, related), scope # text,
           IsFiniteSet(scope), IsFiniteSet(text)
    PROVE  Shared(Meaningful(scope), Meaningful(text), related) # {}
<1> DEFINE asked == Meaningful(scope)
           said == Meaningful(text)
           needed == Min({least, Cardinality(asked), Cardinality(said \ Years)})
<1>1. needed > 0 /\ Cardinality(Shared(asked, said, related)) >= needed
    BY DEF StaysScoped
<1>2. IsFiniteSet(asked) /\ IsFiniteSet(said \ Years)
    BY FS_Subset DEF Meaningful
<1>3. needed \in Nat
    BY <1>2, FS_CardinalityType, LeastOfThree
<1> HIDE DEF needed, asked, said
<1> SUFFICES ASSUME Shared(asked, said, related) = {} PROVE FALSE
    BY DEF asked, said
<1>4. Cardinality(Shared(asked, said, related)) = 0
    BY FS_EmptySet
<1> QED BY <1>1, <1>3, <1>4

\* What touches the scope or the focus of a plan touches the scope or a year of the focus.
LEMMA TouchingShares ==
    ASSUME NEW scope, NEW focus, NEW text, IsFiniteSet(scope), IsFiniteSet(focus),
           IsFiniteSet(text), StaysScoped(scope, focus, 1, TRUE, FALSE),
           Touches(scope, focus, text), Meaningful(text) \ Years # {}
    PROVE  Shared(scope \cup (focus \cap Years), text, TRUE) # {}
<1>1. PICK of \in {scope, focus} : StaysScoped(of, text, 2, FALSE, TRUE)
    BY DEF Touches
<1>2. \A w \in of \ Generic : w \in scope \cup (focus \cap Years)
    BY StrictlyScoped
<1>3. CASE of = text
    <2>1. PICK w : w \in text \ Generic
        BY DEF Meaningful
    <2>2. w \in scope \cup (focus \cap Years)
        BY <1>2, <1>3, <2>1
    <2> QED BY <2>1, <2>2 DEF Shared
<1>4. CASE of # text
    <2>1. Shared(Meaningful(of), Meaningful(text), TRUE) # {}
        BY <1>1, <1>4, SomethingShared
    <2>2. PICK w \in Meaningful(of) :
             \E v \in Meaningful(text) : v = w \/ <<v, w>> \in Alike \/ <<w, v>> \in Alike
        BY <2>1 DEF Shared
    <2>3. w \in scope \cup (focus \cap Years)
        BY <1>2, <2>2 DEF Meaningful
    <2> QED BY <2>2, <2>3 DEF Shared, Meaningful
<1> QED BY <1>3, <1>4

\* What is validated is scoped, if it has a plan exactly for research.
LEMMA ApprovedIsScoped ==
    ASSUME NEW r, NEW context, NEW d, Approved(r, context, d),
           d.category = "research" <=> d.plan # {}
    PROVE  Scoped(r, context, d)
<1> DEFINE scope == Scope(r, context)
<1>1. ~Forbids(r.text) /\ ~Forbids(d.focus)
    BY DEF Approved
<1>2. CASE d.category = "clarification"
    <2>1. ~d.offers.given /\ d.plan = {}
        BY <1>2 DEF Approved
    <2> QED BY <1>1, <1>2, <2>1 DEF Scoped, Screened, Texts
<1>3. CASE d.category # "clarification"
    <2>1. /\ d.category = "research" => StaysScoped(scope, d.focus, 1, TRUE, FALSE)
          /\ \A t \in d.plan : ~Forbids(t) /\ StaysScoped(scope, t, 2, TRUE, FALSE)
          /\ d.offers.given => /\ \A t \in {d.offers.offer} \cup d.offers.followUps : ~Forbids(t)
                               /\ StaysScoped(scope, d.offers.offer, 1, TRUE, FALSE)
        BY <1>3 DEF Approved, OffersStayScoped
    <2> HIDE DEF scope
    <2>2. Screened(d)
        BY <1>1, <2>1 DEF Screened, Texts
    <2>3. d.category = "research" =>
             \A t \in {d.focus} \cup d.plan : t \ (Years \cup Generic) \subseteq scope
        BY <2>1, StrictlyScoped
    <2>4. d.offers.given => d.offers.offer \ (Years \cup Generic) \subseteq scope
        BY <2>1, StrictlyScoped
    <2> QED BY <1>1, <2>2, <2>3, <2>4 DEF Scoped, scope
<1> QED BY <1>2, <1>3

\* The four steps from a draft to its decision.
LEMMA DecidedHasItsPlan ==
    ASSUME NEW r, NEW repair, NEW draft \in Drafts, Decided(r, repair, draft) # NoDecision
    PROVE  LET d == Decided(r, repair, draft) IN
           /\ d.category = "research" <=> d.plan # {}
           /\ d.focus \in {draft.focus, r.text}
<1> DEFINE unused == ~draft.requires /\ draft.plan # {}
           dropped == IF unused THEN [draft EXCEPT !.plan = {}, !.fits = TRUE] ELSE draft
           own == Decision(dropped.category, dropped.focus, dropped.plan, dropped.offers)
           d == Decided(r, repair, draft)
<1>1. (d = own /\ WellFormed(dropped)) \/ d = Bounded(r)
    BY DEF Decided
<1>2. dropped.focus = draft.focus
    BY DraftAssumption DEF NoDraft
<1> HIDE DEF d, dropped
<1>3. CASE d = own /\ WellFormed(dropped)
    BY <1>2, <1>3 DEF WellFormed, Decision, d
<1>4. CASE d = Bounded(r)
    <2>1. d = Decision("research", r.text, {r.text}, NoOffers)
        BY <1>4 DEF Bounded, d
    <2> QED BY <2>1 DEF Decision, d
<1> QED BY <1>1, <1>3, <1>4

\* The bounded plan of a request, when it can be built.
LEMMA BoundedIsResearch ==
    ASSUME NEW r, Bounded(r) # NoDecision
    PROVE  /\ Bounded(r).category = "research" /\ Bounded(r).plan # {}
           /\ Bounded(r).focus = r.text
BY DEF Bounded, Decision

LEMMA RoutedIsRepaired ==
    ASSUME NEW r, NEW repair, NEW d, d # NoDecision, Routed(r, repair, d) # NoDecision,
           d.category = "research" <=> d.plan # {}
    PROVE  LET e == Routed(r, repair, d) IN
           /\ e.category = "research" <=> e.plan # {}
           /\ e.focus \in {d.focus, r.text}
           /\ repair => Repaired(r, e)
<1> DEFINE e == Routed(r, repair, d)
           chosen == repair /\ \/ d.category # "research" /\ NamesResearch(r)
                               \/ AddsNothing(r, d) /\ r.question /\ ~Conversational(r, 0)
<1>1. CASE chosen
    <2>1. e = Bounded(r)
        BY <1>1 DEF Routed
    <2>2. /\ e.category = "research" /\ e.plan # {} /\ e.focus = r.text
        BY <2>1, BoundedIsResearch
    <2> HIDE DEF e
    <2> QED BY <2>2 DEF Repaired, AddsNothing, e
<1>2. CASE ~chosen
    <2>1. e = d
        BY <1>2 DEF Routed
    <2>2. repair => Repaired(r, d)
        BY <1>2 DEF Repaired, Conversational
    <2> QED BY <2>1, <2>2
<1> QED BY <1>1, <1>2

LEMMA FixedStaysRepaired ==
    ASSUME NEW r, NEW repair, NEW d, d # NoDecision, Fixed(r, d) # NoDecision,
           d.category = "research" <=> d.plan # {}, repair => Repaired(r, d)
    PROVE  LET e == Fixed(r, d) IN
           /\ e.category = "research" <=> e.plan # {}
           /\ e.category = "research" => e.focus = d.focus
           /\ repair => Repaired(r, e)
<1> DEFINE e == Fixed(r, d)
<1>1. CASE Conversational(r, 0) /\ AddsNothing(r, d)
    <2>1. e = Decision("reply", FixedReply, {}, NoOffers)
        <3>1. d.category # "clarification"
            BY <1>1 DEF AddsNothing
        <3> QED BY <1>1, <3>1 DEF Fixed
    <2>2. e.category = "reply" /\ e.plan = {}
        BY <2>1 DEF Decision
    <2>3. d.category = "reply" /\ r.chat
        BY <1>1 DEF AddsNothing, Conversational
    <2> HIDE DEF e
    <2> QED BY <2>2, <2>3 DEF Repaired, e
<1>2. CASE ~(Conversational(r, 0) /\ AddsNothing(r, d)) /\ d.category = "clarification"
    <2>1. e = Decision("clarification", FixedQuestion, {}, NoOffers)
        BY <1>2 DEF Fixed
    <2>2. e.category = "clarification" /\ e.plan = {}
        BY <2>1 DEF Decision
    <2> HIDE DEF e
    <2> QED BY <1>2, <2>2 DEF Repaired, AddsNothing, e
<1>3. CASE ~(Conversational(r, 0) /\ AddsNothing(r, d)) /\ d.category # "clarification"
    <2>1. e = d
        BY <1>3 DEF Fixed
    <2> QED BY <2>1
<1> QED BY <1>1, <1>2, <1>3

LEMMA CheckedIsScoped ==
    ASSUME NEW r, NEW context, NEW repair, NEW d, Checked(r, context, repair, d) # NoDecision,
           d.category = "research" <=> d.plan # {}, repair => Repaired(r, d)
    PROVE  LET e == Checked(r, context, repair, d) IN
           /\ Scoped(r, context, e)
           /\ e.category = "research" =>
                 e.focus = r.text \/ (d.category = "research" /\ e.focus = d.focus)
           /\ repair => Repaired(r, e)
<1> DEFINE e == Checked(r, context, repair, d)
<1>1. CASE e = d /\ Approved(r, context, d)
    BY <1>1, ApprovedIsScoped
<1>2. CASE e = Bounded(r) /\ Approved(r, context, Bounded(r))
    <2>1. Scoped(r, context, Bounded(r))
        BY <1>2, BoundedIsResearch, ApprovedIsScoped
    <2>2. Repaired(r, Bounded(r)) /\ Bounded(r).focus = r.text
        BY <1>2, BoundedIsResearch DEF Repaired, AddsNothing
    <2> QED BY <1>2, <2>1, <2>2
<1> QED BY <1>1, <1>2 DEF Checked

LEMMA PlannedIsScoped ==
    ASSUME NEW r, NEW context, NEW repair, NEW draft \in Drafts,
           Planned(r, context, repair, draft) # NoDecision
    PROVE  LET e == Planned(r, context, repair, draft) IN
           /\ Scoped(r, context, e)
           /\ e.category = "research" => e.focus \in {draft.focus, r.text}
           /\ repair => Repaired(r, e)
<1> DEFINE d1 == Decided(r, repair, draft)
           d2 == Routed(r, repair, d1)
           d3 == Fixed(r, d2)
           d4 == Checked(r, context, repair, d3)
<1>1. /\ d1 # NoDecision /\ d2 # NoDecision /\ d3 # NoDecision /\ d4 # NoDecision
      /\ Planned(r, context, repair, draft) = d4
    BY DEF Planned, Then
<1>2. /\ d1.category = "research" <=> d1.plan # {}
      /\ d1.focus \in {draft.focus, r.text}
    BY <1>1, DecidedHasItsPlan
<1> HIDE DEF d1
<1>3. /\ d2.category = "research" <=> d2.plan # {}
      /\ d2.focus \in {d1.focus, r.text}
      /\ repair => Repaired(r, d2)
    BY <1>1, <1>2, RoutedIsRepaired
<1> HIDE DEF d2
<1>4. /\ d3.category = "research" <=> d3.plan # {}
      /\ d3.category = "research" => d3.focus = d2.focus
      /\ repair => Repaired(r, d3)
    BY <1>1, <1>3, FixedStaysRepaired
<1> HIDE DEF d3
<1>5. /\ Scoped(r, context, d4)
      /\ d4.category = "research" =>
            d4.focus = r.text \/ (d3.category = "research" /\ d4.focus = d3.focus)
      /\ repair => Repaired(r, d4)
    BY <1>1, <1>4, CheckedIsScoped
<1>6. d4.category = "research" => d4.focus \in {draft.focus, r.text}
    BY <1>2, <1>3, <1>4, <1>5
<1> QED BY <1>1, <1>5, <1>6

\* What is adopted of a draft, or of a failure to draft.
LEMMA AdoptedIsScoped ==
    ASSUME PlannerInv, planner.at = "asked", NEW d, NEW draft, Adopt(d, draft),
           d # NoDecision =>
              /\ Scoped(planner.request, planner.context, d)
              /\ planner.own /\ planner.repair => Repaired(planner.request, d)
              /\ d.category = "research" => IsFiniteSet(d.focus)
    PROVE  PlannerInv'
<1>1. /\ DOMAIN planner' = DOMAIN planner
      /\ planner'.request = planner.request /\ planner'.context = planner.context
      /\ planner'.own = planner.own /\ planner'.repair = planner.repair
      /\ planner'.claims = planner.claims
    BY DEF PlannerInv, Adopt
<1>2. /\ planner'.at = IF d = NoDecision THEN "refused" ELSE "planned"
      /\ planner'.decision = d
    BY DEF PlannerInv, Adopt
<1>3. /\ planner.request \in PlanRequests /\ planner.context \in Contexts
      /\ planner.claims = <<>> /\ planner'.at # "answered" /\ planner'.at # "new"
    BY <1>2 DEF PlannerInv
<1>4. planner'.at = "planned" => d # NoDecision
    BY <1>2
<1> QED BY <1>1, <1>2, <1>3, <1>4 DEF PlannerInv

\* What an answer may claim.
LEMMA AnswersAreScoped ==
    ASSUME NEW scope, NEW focus, NEW answer \in ScopedAnswers, IsFiniteSet(scope),
           IsFiniteSet(focus), AnswerStaysScoped(scope, focus, answer.claims),
           NEW i \in DOMAIN answer.claims
    PROVE  ClaimScoped(scope, focus, answer.claims[i])
<1> DEFINE claims == answer.claims
           claim == claims[i]
           all == UNION ToSet(claim.sentences)
<1>1. \A text \in ToSet(claim.sentences) : IsFiniteSet(text)
    BY PlannerAssumption
<1>2. all \subseteq Said(claims)
    BY DEF Said
<1>3. ~Forbids(Said(claims)) /\ ~Instructs(scope, Said(claims))
    BY DEF AnswerStaysScoped
<1>4. StaysScoped(scope, focus, 1, TRUE, FALSE)
    BY DEF AnswerStaysScoped
<1>5. ~claim.positional =>
          \A text \in ToSet(claim.sentences) :
             Meaningful(text) \ Years # {} => Touches(scope, focus, text)
    BY DEF AnswerStaysScoped
<1> HIDE DEF all
<1>6. ~Forbids(all)
    BY <1>2, <1>3 DEF Forbids
<1>7. all \cap Controls # {} /\ all \cap Controlled # {} => all \cap Controls \subseteq scope
    BY <1>2, <1>3 DEF Instructs
<1> HIDE DEF claims, claim
<1>8. ~claim.positional =>
          \A text \in ToSet(claim.sentences) :
             Meaningful(text) \ Years # {} =>
                Shared(scope \cup (focus \cap Years), text, TRUE) # {}
    BY <1>1, <1>4, <1>5, TouchingShares
<1> QED BY <1>6, <1>7, <1>8 DEF ClaimScoped, all, claim, claims

LEMMA PlannersStayScoped ==
    ASSUME PlannerInv, [PlannerNext]_planner
    PROVE  PlannerInv'
<1>1. CASE UNCHANGED planner
    BY <1>1 DEF PlannerInv
<1>2. CASE \E r \in PlanRequests, c \in Contexts, repair, own \in BOOLEAN :
             AskPlan(r, c, repair, own)
    <2>1. PICK r \in PlanRequests, c \in Contexts, repair \in BOOLEAN, own \in BOOLEAN :
             AskPlan(r, c, repair, own)
        BY <1>2
    <2>2. /\ DOMAIN planner' = DOMAIN planner /\ planner'.at \in {"refused", "asked"}
          /\ planner'.request = r /\ planner'.context = c /\ planner'.claims = planner.claims
          /\ planner.at = "new"
        BY <2>1 DEF AskPlan, PlannerInv
    <2> QED BY <2>2 DEF PlannerInv
<1>3. CASE TransportFails
    <2>1. /\ DOMAIN planner' = DOMAIN planner /\ planner'.at \in {"refused", "asked"}
          /\ planner'.request = planner.request /\ planner'.context = planner.context
          /\ planner'.claims = planner.claims /\ planner.at = "asked"
        BY <1>3 DEF TransportFails, PlannerInv
    <2> QED BY <2>1 DEF PlannerInv
<1>4. CASE ContentFails
    <2> DEFINE r == planner.request
               d == IF planner.repair /\ r.web /\ Approved(r, planner.context, Bounded(r))
                    THEN Bounded(r) ELSE NoDecision
    <2>1. planner.at = "asked" /\ Adopt(d, NoDraft)
        BY <1>4 DEF ContentFails
    <2>2. IsFiniteSet(r.text)
        BY <2>1, PlannerAssumption DEF PlannerInv
    <2>3. ASSUME d # NoDecision
          PROVE  /\ Scoped(r, planner.context, d) /\ Repaired(r, d) /\ IsFiniteSet(d.focus)
        <3>1. /\ d = Bounded(r) /\ Approved(r, planner.context, Bounded(r))
              /\ Bounded(r) # NoDecision
            BY <2>3
        <3>2. /\ Bounded(r).category = "research" /\ Bounded(r).plan # {}
              /\ Bounded(r).focus = r.text
            BY <3>1, BoundedIsResearch
        <3> HIDE DEF d, r
        <3> QED BY <2>2, <3>1, <3>2, ApprovedIsScoped DEF Repaired, AddsNothing
    <2> HIDE DEF d
    <2> QED BY <2>1, <2>3, AdoptedIsScoped
<1>5. CASE planner.at = "asked" /\ \E draft \in Drafts : DraftAnswered(draft)
    <2>1. PICK draft \in Drafts : DraftAnswered(draft)
        BY <1>5
    <2> DEFINE r == planner.request
               d == Planned(r, planner.context, planner.repair, draft)
    <2>2. Adopt(d, draft)
        BY <2>1 DEF DraftAnswered
    <2>3. IsFiniteSet(r.text) /\ IsFiniteSet(draft.focus)
        BY <1>5, PlannerAssumption, DraftAssumption DEF PlannerInv
    <2>4. d # NoDecision => /\ Scoped(r, planner.context, d)
                            /\ planner.repair => Repaired(r, d)
                            /\ d.category = "research" => IsFiniteSet(d.focus)
        BY <2>3, PlannedIsScoped
    <2> HIDE DEF d
    <2> QED BY <1>5, <2>2, <2>4, AdoptedIsScoped
<1>6. CASE planner.at = "asked" /\ \E draft \in Drafts : Inject(draft)
    <2>1. PICK draft \in Drafts : Inject(draft)
        BY <1>6
    <2> DEFINE r == planner.request
               own == Decision(draft.category, draft.focus, draft.plan, draft.offers)
               d == IF Approved(r, planner.context, own) THEN own ELSE NoDecision
    <2>2. Adopt(d, draft) /\ WellFormed(draft) /\ ~planner.own
        BY <2>1 DEF Inject
    <2>3. /\ own.category = "research" <=> own.plan # {}
          /\ own.focus = draft.focus /\ IsFiniteSet(draft.focus)
        BY <2>2, DraftAssumption DEF WellFormed, Decision
    <2> HIDE DEF own
    <2>4. d # NoDecision => /\ Scoped(r, planner.context, d)
                            /\ d.category = "research" => IsFiniteSet(d.focus)
        BY <2>3, ApprovedIsScoped
    <2> HIDE DEF d
    <2> QED BY <1>6, <2>2, <2>4, AdoptedIsScoped
<1>7. CASE Reply
    <2>1. /\ DOMAIN planner' = DOMAIN planner /\ planner.at = "planned"
          /\ planner'.at \in {"answered", "refused"}
          /\ planner'.request = planner.request /\ planner'.context = planner.context
          /\ planner'.own = planner.own /\ planner'.repair = planner.repair
          /\ planner'.decision = planner.decision /\ planner'.claims = planner.claims
        BY <1>7 DEF Reply, PlannerInv
    <2>2. planner.claims = <<>>
        BY <2>1 DEF PlannerInv
    <2> QED BY <2>1, <2>2 DEF PlannerInv
<1>8. CASE planner.at = "planned" /\ \E answer \in ScopedAnswers : AnswerPlan(answer)
    <2>1. PICK answer \in ScopedAnswers : AnswerPlan(answer)
        BY <1>8
    <2> DEFINE scope == Scope(planner.request, planner.context)
               focus == planner.decision.focus
               ok == /\ AnswerStaysScoped(scope, focus, answer.claims)
                     /\ OffersStayScoped(scope, answer.offers)
    <2>2. /\ DOMAIN planner' = DOMAIN planner
          /\ planner'.at = IF ok THEN "answered" ELSE "refused"
          /\ planner'.request = planner.request /\ planner'.context = planner.context
          /\ planner'.own = planner.own /\ planner'.repair = planner.repair
          /\ planner'.decision = planner.decision
          /\ planner'.claims = IF ok THEN answer.claims ELSE planner.claims
        BY <2>1 DEF AnswerPlan, PlannerInv
    <2>3. /\ planner.claims = <<>> /\ planner.decision.category = "research"
          /\ IsFiniteSet(focus)
          /\ planner.request \in PlanRequests /\ planner.context \in Contexts
        BY <1>8, <2>1 DEF PlannerInv, AnswerPlan
    <2>4. IsFiniteSet(scope)
        BY <2>3, PlannerAssumption, FS_Union DEF Scope
    <2>5. ok => \A i \in DOMAIN answer.claims : ClaimScoped(scope, focus, answer.claims[i])
        BY <2>3, <2>4, AnswersAreScoped
    <2> HIDE DEF ok
    <2>6. planner'.at = "answered" =>
             \A i \in DOMAIN planner'.claims : ClaimScoped(scope, focus, planner'.claims[i])
        BY <2>2, <2>5
    <2> QED BY <1>8, <2>2, <2>3, <2>6 DEF PlannerInv
<1> QED BY <1>1, <1>2, <1>3, <1>4, <1>5, <1>6, <1>7, <1>8 DEF PlannerNext

\* What is searched for, offered and said stays within the request and its conversation, for
\* any words, any drafts and answers of a model, and any way in which a draft is replaced.
THEOREM PlansStayInScope == PlannerSpec => []PlansStayScoped
<1>1. PlannerInit => PlannerInv
    BY DEF PlannerInit, PlannerInv
<1>2. PlannerInv /\ [PlannerNext]_planner => PlannerInv'
    BY PlannersStayScoped
<1>3. PlannerInv => PlansStayScoped
    BY DEF PlannerInv, PlansStayScoped, Scoped, Repaired, ClaimScoped
<1> QED BY <1>1, <1>2, <1>3, PTL DEF PlannerSpec

-----------------------------------------------------------------------------
\* What the memory holds, and what a context is made of.

\* A row that cannot be read is proposed: what is approved was written whole.
StatesAgree ==
    \A f \in KeptFacts :
        /\ facts[f].columns.state = facts[f].payload.state
        /\ facts[f].payload.state = "approved" => Decodes(f)

ApprovalsAreDated ==
    \A f \in KeptFacts : facts[f].payload.state = "approved" =>
        facts[f].payload.reviewed <= reviews[facts[f].payload.conflict_key].last

FactInv == FactTypeOK /\ StatesAgree /\ ApprovalsAreDated /\ NoContradiction

ProcedureShapes ==
    /\ versions \in [Keys -> Versions \cup {NoVersion}]
    /\ generations \in [Keys -> 0..MaxGeneration]
    /\ generation \in 0..MaxGeneration
    /\ latest \in [ProcedureIds -> 0..MaxVersion]
    /\ active \in [ProcedureIds -> Numbers \cup {NoVersion}]
    /\ calls \in [Callers -> Calls \cup {NoCall}]
    /\ approvals \in [Keys -> 0..MaxGeneration]

\* What is stored has been proposed, under a number its head has reached.
StoredAreProposed == \A k \in StoredKeys : generations[k] # 0

\* What a caller holds between the two halves of its operation allowed it to begin.
SoundCall(call) ==
    /\ call.op \in {"propose", "review"} => call.row.state = "proposed"
    /\ call.op = "propose" => call.latest < MaxVersion
    /\ call.op \in {"review", "activate"} => call.row # NoVersion
    /\ call.op = "activate" => call.row.state = "approved"

CallsAreSound == \A c \in Callers : calls[c] # NoCall => SoundCall(calls[c])

ActiveAreApproved ==
    \A p \in ProcedureIds : active[p] # NoVersion =>
        <<p, active[p]>> \in StoredKeys /\ versions[<<p, active[p]>>].state = "approved"

ReviewsAreOfTheRow ==
    \A k \in StoredKeys : versions[k].state # "proposed" => approvals[k] = generations[k]

NumbersAreFresh == issued = latest

ProcedureInv ==
    /\ ProcedureShapes
    /\ StoredAreProposed /\ HeadsAreSound /\ CallsAreSound
    /\ ActiveAreApproved /\ ReviewsAreOfTheRow /\ NumbersAreFresh

\* Between two readings of equal counts nothing happened to the active procedures; the
\* second reading of the facts is the one that history keeps.
CountsAreRead ==
    /\ reader.step \in {"read", "relisted"} => reader.revision <= revision
    /\ reader.step = "relisted" =>
          /\ reader.again = together.facts
          /\ reader.revision = revision => together.procedures = ActiveProcedures

ReaderShape ==
    /\ reader \in [step : Steps, at : Instants, facts : ListedFacts, again : ListedFacts,
                   procedures : Selections, revision : Nat]
    /\ together \in [facts : ListedFacts, procedures : Selections]
    /\ revision \in Nat

MemoryInv == FactInv /\ ProcedureInv /\ ReaderShape /\ CountsAreRead /\ ContextIsASnapshot

-----------------------------------------------------------------------------
\* The facts.

LEMMA InstantsAreIntegers == 0 \in Instants /\ \A t \in Instants : t \in Int /\ 0 <= t
BY FactAssumption DEF Instants

\* The columns of a fact are the fact without its claim and review.
LEMMA ColumnsOfFact ==
    ASSUME NEW fact \in Facts
    PROVE  /\ ColumnsOf(fact) \in Columns
           /\ ColumnsOf(fact).state = fact.state
           /\ ColumnsOf(fact).conflict_key = fact.conflict_key
           /\ ColumnsOf(fact).expires = fact.expires
<1>1. DOMAIN fact \ {"claim", "reviewed"}
          = {"conflict_key", "source", "session", "expires", "state"}
    BY DEF Facts
<1>2. ColumnsOf(fact) = [conflict_key |-> fact.conflict_key, source |-> fact.source,
                         session |-> fact.session, expires |-> fact.expires,
                         state |-> fact.state]
    BY <1>1 DEF ColumnsOf
<1> QED BY <1>2 DEF Facts, Columns

LEMMA RowOfFact ==
    ASSUME NEW fact \in Facts
    PROVE  /\ RowOf(fact) \in Rows /\ RowOf(fact).payload = fact
           /\ RowOf(fact).columns = ColumnsOf(fact) /\ RowOf(fact).columns.state = fact.state
BY ColumnsOfFact DEF RowOf, Rows

\* The rows that are kept, and what the columns of an approved one say.
LEMMA KeptRows ==
    ASSUME FactInv, NEW f \in KeptFacts
    PROVE  /\ f \in FactIds /\ facts[f] \in Rows /\ facts[f].payload \in Facts
           /\ facts[f].payload.state = "approved" =>
                  /\ facts[f].columns.conflict_key = facts[f].payload.conflict_key
                  /\ facts[f].columns.expires = facts[f].payload.expires
                  /\ facts[f].columns.state = "approved"
<1>1. /\ f \in FactIds /\ facts[f] \in Rows /\ facts[f].payload \in Facts
    BY DEF FactInv, FactTypeOK, KeptFacts, Rows
<1> QED BY <1>1, ColumnsOfFact DEF FactInv, StatesAgree, Decodes

LEMMA FactInitHolds == FactInit => FactInv
<1> SUFFICES ASSUME FactInit PROVE FactInv
    OBVIOUS
<1>1. FactTypeOK
    BY InstantsAreIntegers DEF FactInit, FactTypeOK
<1>2. KeptFacts = {}
    BY DEF FactInit, KeptFacts
<1> QED BY <1>1, <1>2 DEF FactInv, StatesAgree, ApprovalsAreDated, NoContradiction

\* A fact that is not in force is written: proposed, rejected or reopened.
LEMMA UnapprovedRow ==
    ASSUME FactInv, NEW f \in FactIds, NEW row \in Rows,
           row.columns.state = row.payload.state, row.payload.state # "approved",
           facts' = [facts EXCEPT ![f] = row],
           reopening' \in [Editors -> [id : FactIds, fact : Facts] \cup {NoFact}],
           UNCHANGED reviews
    PROVE  FactInv'
<1>1. facts'[f] = row /\ \A g \in FactIds : g # f => facts'[g] = facts[g]
    BY DEF FactInv, FactTypeOK
<1>2. FactTypeOK'
    BY DEF FactInv, FactTypeOK
<1>3. \A g \in KeptFacts' : \/ g = f /\ facts'[g] = row
                            \/ g # f /\ g \in KeptFacts /\ facts'[g] = facts[g]
    BY <1>1 DEF KeptFacts
<1>4. StatesAgree'
    BY <1>3 DEF FactInv, StatesAgree, Decodes
<1>5. ApprovalsAreDated'
    BY <1>3 DEF FactInv, ApprovalsAreDated
<1>6. NoContradiction'
    BY <1>3 DEF FactInv, NoContradiction, InForce
<1> QED BY <1>2, <1>4, <1>5, <1>6 DEF FactInv

LEMMA FewerFacts ==
    ASSUME FactInv, facts' \in [FactIds -> Rows \cup {NoFact}],
           reopening' \in [Editors -> [id : FactIds, fact : Facts] \cup {NoFact}],
           UNCHANGED reviews, \A f \in FactIds : facts'[f] \in {facts[f], NoFact}
    PROVE  FactInv'
<1>1. \A g \in KeptFacts' : g \in KeptFacts /\ facts'[g] = facts[g]
    BY DEF KeptFacts
<1>2. FactTypeOK'
    BY DEF FactInv, FactTypeOK
<1>3. StatesAgree' /\ ApprovalsAreDated'
    BY <1>1 DEF FactInv, StatesAgree, ApprovalsAreDated, Decodes
<1>4. NoContradiction'
    BY <1>1 DEF FactInv, NoContradiction, InForce
<1> QED BY <1>2, <1>3, <1>4 DEF FactInv

LEMMA ProposeKeepsFacts ==
    ASSUME FactInv, ProposeFact
    PROVE  FactInv'
<1>1. PICK f \in FactIds \ KeptFacts, k \in ConflictKeys, u \in Sources, s \in FactSessions,
           c \in Claims, e \in Instants \ {0} :
        facts' = [facts EXCEPT ![f] = RowOf([conflict_key |-> k, source |-> u, session |-> s,
                     claim |-> c, expires |-> e, state |-> "proposed", reviewed |-> 0])]
    BY DEF ProposeFact
<1> DEFINE fact == [conflict_key |-> k, source |-> u, session |-> s,
                    claim |-> c, expires |-> e, state |-> "proposed", reviewed |-> 0]
<1>2. fact \in Facts /\ fact.state = "proposed"
    BY InstantsAreIntegers DEF Facts, FactStates
<1> HIDE DEF fact
<1>3. UNCHANGED <<reopening, reviews>> /\ facts' = [facts EXCEPT ![f] = RowOf(fact)]
    BY <1>1 DEF ProposeFact, fact
<1> QED BY <1>2, <1>3, RowOfFact, UnapprovedRow DEF FactInv, FactTypeOK

LEMMA RejectKeepsFacts ==
    ASSUME FactInv, NEW f \in KeptFacts, NEW t \in Instants, RejectFact(f, t)
    PROVE  FactInv'
<1> DEFINE fact == [facts[f].payload EXCEPT !.state = "rejected"]
<1>1. facts[f].payload \in Facts /\ f \in FactIds
    BY KeptRows
<1>2. fact \in Facts /\ fact.state = "rejected"
    BY <1>1 DEF Facts, FactStates
<1> HIDE DEF fact
<1>3. UNCHANGED <<reopening, reviews>> /\ facts' = [facts EXCEPT ![f] = RowOf(fact)]
    BY DEF RejectFact, fact
<1> QED BY <1>1, <1>2, <1>3, RowOfFact, UnapprovedRow DEF FactInv, FactTypeOK

LEMMA BeginReopenKeepsFacts ==
    ASSUME FactInv, NEW f \in KeptFacts, NEW e \in Editors, BeginReopen(e, f)
    PROVE  FactInv'
<1>1. /\ reopening' = [reopening EXCEPT ![e] = [id |-> f, fact |-> facts[f].payload]]
      /\ UNCHANGED <<facts, reviews>>
    BY DEF BeginReopen
<1>2. [id |-> f, fact |-> facts[f].payload] \in [id : FactIds, fact : Facts]
    BY KeptRows
<1>3. reopening' \in [Editors -> [id : FactIds, fact : Facts] \cup {NoFact}]
    BY <1>1, <1>2 DEF FactInv, FactTypeOK
<1> QED BY <1>1, <1>3, FewerFacts DEF FactInv, FactTypeOK

LEMMA EndReopenKeepsFacts ==
    ASSUME FactInv, NEW e \in Editors, EndReopen(e)
    PROVE  FactInv'
<1> DEFINE f == reopening[e].id
           fact == [reopening[e].fact EXCEPT !.state = "proposed", !.reviewed = 0]
           columns == [facts[f].columns EXCEPT !.state = "proposed"]
<1>1. reopening[e] # NoFact /\ f \in FactIds /\ reopening[e].fact \in Facts
    BY DEF EndReopen, FactInv, FactTypeOK
<1>2. fact \in Facts /\ fact.state = "proposed"
    BY <1>1, InstantsAreIntegers DEF Facts, FactStates
<1>3. reopening' \in [Editors -> [id : FactIds, fact : Facts] \cup {NoFact}]
    BY DEF EndReopen, FactInv, FactTypeOK
<1>4. CASE f \in KeptFacts /\ facts[f].columns.state = reopening[e].fact.state
    <2>1. facts[f].columns \in Columns
        BY <1>4, KeptRows DEF Rows
    <2>2. columns \in Columns /\ columns.state = "proposed"
        BY <2>1 DEF Columns, FactStates
    <2> DEFINE row == [columns |-> columns, payload |-> fact]
    <2>3. facts' = [facts EXCEPT ![f] = row] /\ UNCHANGED reviews
        BY <1>4 DEF EndReopen
    <2> HIDE DEF columns, fact, f
    <2>4. /\ row \in Rows /\ row.columns.state = row.payload.state
          /\ row.payload.state # "approved"
        BY <1>2, <2>2 DEF Rows
    <2> HIDE DEF row
    <2> QED BY <1>1, <1>3, <2>3, <2>4, UnapprovedRow
<1>5. CASE ~(f \in KeptFacts /\ facts[f].columns.state = reopening[e].fact.state)
    <2>1. facts' = facts
        BY <1>5 DEF EndReopen
    <2> QED BY <1>3, <2>1, FewerFacts DEF EndReopen, FactInv, FactTypeOK
<1> QED BY <1>4, <1>5

LEMMA DeleteKeepsFacts ==
    ASSUME FactInv, DeleteFacts
    PROVE  FactInv'
<1>1. PICK doomed : facts' = [f \in FactIds |-> IF f \in doomed THEN NoFact ELSE facts[f]]
    BY DEF DeleteFacts
<1>2. UNCHANGED <<reopening, reviews>>
    BY DEF DeleteFacts
<1> QED BY <1>1, <1>2, FewerFacts DEF FactInv, FactTypeOK

\* What an approval in order finds in force, later: a rival, so that the candidate makes
\* the claim of one of them, which makes the claim of all of them already.
LEMMA ApprovedInOrder ==
    ASSUME FactInv, NEW f \in KeptFacts, NEW t \in Instants, Reviewable(f, t), Approvable(f, t),
           reviews[facts[f].payload.conflict_key].ordered,
           reviews[facts[f].payload.conflict_key].last <= t,
           NEW g \in KeptFacts, g # f,
           facts[g].payload.conflict_key = facts[f].payload.conflict_key,
           NEW u \in Instants, t <= u, InForce(facts[g].payload, u)
    PROVE  facts[g].payload.claim = facts[f].payload.claim
<1> DEFINE k == facts[f].payload.conflict_key
<1>1. facts[f].columns.conflict_key = k /\ facts[f].payload \in Facts
    BY KeptRows, ColumnsOfFact DEF Reviewable, Decodes
<1>2. k \in ConflictKeys
    BY <1>1 DEF Facts
<1>3. reviews[k].last \in Instants
    BY <1>2 DEF FactInv, FactTypeOK
<1>4. \A h \in KeptFacts :
        facts[h].payload.state = "approved" /\ facts[h].payload.conflict_key = k =>
            facts[h].payload.reviewed <= t
    <2> SUFFICES ASSUME NEW h \in KeptFacts, facts[h].payload.state = "approved",
                        facts[h].payload.conflict_key = k
                 PROVE  facts[h].payload.reviewed <= t
        OBVIOUS
    <2>1. facts[h].payload.reviewed <= reviews[k].last
        BY DEF FactInv, ApprovalsAreDated
    <2>2. facts[h].payload.reviewed \in Instants
        BY KeptRows DEF Facts
    <2> QED BY <1>3, <2>1, <2>2, InstantsAreIntegers
<1>5. /\ facts[g].payload.state = "approved" /\ facts[g].payload.expires \in Instants
      /\ facts[g].columns.conflict_key = k /\ facts[g].columns.state = "approved"
      /\ facts[g].columns.expires = facts[g].payload.expires
    BY KeptRows DEF InForce, Facts
<1>6. t < facts[g].payload.expires
    BY <1>5, InstantsAreIntegers DEF InForce
<1>7. g \in Rivals(f, t)
    BY <1>1, <1>5, <1>6 DEF Rivals
<1>8. PICK h \in Rivals(f, t) :
        Decodes(h) /\ facts[h].payload.claim = facts[f].payload.claim
    BY <1>7, Zenon DEF Approvable
<1>9. h \in KeptFacts /\ facts[h].columns.conflict_key = k /\ facts[h].columns.state = "approved"
        /\ facts[h].columns.expires > t
    BY <1>1, <1>8 DEF Rivals
<1>10. /\ facts[h].payload.state = "approved" /\ facts[h].payload.conflict_key = k
       /\ facts[h].payload.expires = facts[h].columns.expires
       /\ facts[h].payload.expires \in Instants
    BY <1>9, KeptRows DEF FactInv, StatesAgree, Facts
<1>11. InForce(facts[h].payload, t) /\ InForce(facts[g].payload, t)
    BY <1>4, <1>5, <1>6, <1>9, <1>10, InstantsAreIntegers DEF InForce
<1> QED BY <1>5, <1>8, <1>9, <1>10, <1>11, Zenon DEF FactInv, NoContradiction

LEMMA ApproveKeepsFacts ==
    ASSUME FactInv, NEW f \in KeptFacts, NEW t \in Instants, ApproveFact(f, t)
    PROVE  FactInv'
<1> DEFINE fact == [facts[f].payload EXCEPT !.state = "approved", !.reviewed = t]
           k == facts[f].payload.conflict_key
           review == [last |-> IF t > reviews[k].last THEN t ELSE reviews[k].last,
                      ordered |-> reviews[k].ordered /\ t >= reviews[k].last]
<1>1. f \in FactIds /\ facts[f].payload \in Facts
    BY KeptRows
<1>2. /\ fact \in Facts /\ fact.state = "approved" /\ fact.reviewed = t
      /\ fact.conflict_key = k /\ fact.claim = facts[f].payload.claim
    BY <1>1 DEF Facts, FactStates
<1>3. k \in ConflictKeys
    BY <1>1 DEF Facts
<1>4. reviews[k] \in [last : Instants, ordered : BOOLEAN]
    BY <1>3 DEF FactInv, FactTypeOK
<1>5. /\ facts' = [facts EXCEPT ![f] = RowOf(fact)]
      /\ reopening' = reopening
      /\ Reviewable(f, t) /\ Approvable(f, t)
    BY DEF ApproveFact
<1>6. reviews' = [reviews EXCEPT ![k] = review]
    BY DEF ApproveFact
<1>7. review \in [last : Instants, ordered : BOOLEAN]
    BY <1>4
<1>8. t <= review.last /\ reviews[k].last <= review.last
    BY <1>4, InstantsAreIntegers
<1>9. ASSUME review.ordered PROVE reviews[k].ordered /\ reviews[k].last <= t
    <2>1. reviews[k].ordered /\ t >= reviews[k].last
        BY <1>9, Zenon
    <2> QED BY <2>1
<1> HIDE DEF fact, review
<1>10. RowOf(fact) \in Rows /\ RowOf(fact).payload = fact /\ RowOf(fact).columns = ColumnsOf(fact)
    BY <1>2, RowOfFact
<1>11. FactTypeOK'
    BY <1>1, <1>5, <1>6, <1>7, <1>10 DEF FactInv, FactTypeOK
<1>12. facts'[f] = RowOf(fact) /\ \A g \in FactIds : g # f => facts'[g] = facts[g]
    BY <1>1, <1>5 DEF FactInv, FactTypeOK
<1>13. reviews'[k] = review /\ \A c \in ConflictKeys : c # k => reviews'[c] = reviews[c]
    BY <1>3, <1>6 DEF FactInv, FactTypeOK
<1>14. \A g \in KeptFacts' : \/ g = f
                             \/ g # f /\ g \in KeptFacts /\ facts'[g] = facts[g]
    BY <1>12 DEF KeptFacts
<1>15. facts'[f].payload = fact /\ facts'[f].columns = ColumnsOf(fact)
    BY <1>10, <1>12
<1>16. StatesAgree'
    <2>1. facts'[f].columns.state = fact.state /\ Decodes(f)'
        BY <1>2, <1>15, ColumnsOfFact DEF Decodes
    <2> QED BY <1>14, <1>15, <2>1 DEF FactInv, StatesAgree, Decodes
<1>17. ApprovalsAreDated'
    <2> SUFFICES ASSUME NEW g \in KeptFacts', facts'[g].payload.state = "approved"
                 PROVE  facts'[g].payload.reviewed <= reviews'[facts'[g].payload.conflict_key].last
        BY DEF ApprovalsAreDated
    <2>1. CASE g = f
        BY <1>2, <1>8, <1>13, <1>15, <2>1
    <2>2. CASE g # f
        <3>1. /\ g \in KeptFacts /\ facts'[g] = facts[g]
              /\ facts[g].payload.conflict_key \in ConflictKeys
              /\ facts[g].payload.reviewed \in Instants
            BY <1>14, <2>2, KeptRows DEF Facts
        <3>2. facts[g].payload.reviewed <= reviews[facts[g].payload.conflict_key].last
            BY <3>1 DEF FactInv, ApprovalsAreDated
        <3>3. CASE facts[g].payload.conflict_key = k
            BY <1>4, <1>7, <1>8, <1>13, <3>1, <3>2, <3>3, InstantsAreIntegers
        <3>4. CASE facts[g].payload.conflict_key # k
            BY <1>13, <3>1, <3>2, <3>4
        <3> QED BY <3>3, <3>4
    <2> QED BY <2>1, <2>2
\* The candidate, and another fact in force with it.
<1>18. ASSUME NEW g \in KeptFacts, g # f, facts[g].payload.conflict_key = k, review.ordered,
              NEW u \in Instants, InForce(fact, u), InForce(facts[g].payload, u)
       PROVE  facts[g].payload.claim = fact.claim
    <2>1. t <= u
        BY <1>2, <1>18 DEF InForce
    <2>2. reviews[k].ordered /\ reviews[k].last <= t
        BY <1>9, <1>18
    <2> QED BY <1>2, <1>5, <1>18, <2>1, <2>2, ApprovedInOrder
<1>19. NoContradiction'
    <2> SUFFICES ASSUME NEW g \in KeptFacts', NEW h \in KeptFacts',
                        facts'[g].payload.conflict_key = facts'[h].payload.conflict_key,
                        reviews'[facts'[g].payload.conflict_key].ordered,
                        facts'[g].payload.claim # facts'[h].payload.claim, NEW u \in Instants,
                        InForce(facts'[g].payload, u), InForce(facts'[h].payload, u)
                 PROVE  FALSE
        BY Zenon DEF NoContradiction, InForce
    <2>1. CASE g = f
        <3>1. h # f /\ h \in KeptFacts /\ facts'[h] = facts[h]
            BY <1>14, <2>1
        <3> QED BY <1>2, <1>13, <1>15, <1>18, <2>1, <3>1
    <2>2. CASE h = f
        <3>1. g # f /\ g \in KeptFacts /\ facts'[g] = facts[g]
            BY <1>14, <2>2
        <3> QED BY <1>2, <1>13, <1>15, <1>18, <2>2, <3>1
    <2>3. CASE g # f /\ h # f
        <3>1. /\ g \in KeptFacts /\ h \in KeptFacts
              /\ facts'[g] = facts[g] /\ facts'[h] = facts[h]
              /\ facts[g].payload.conflict_key \in ConflictKeys
            BY <1>14, <2>3, KeptRows DEF Facts
        <3>2. reviews[facts[g].payload.conflict_key].ordered
            BY <1>9, <1>13, <3>1, Zenon
        <3> QED BY <3>1, <3>2, Zenon DEF FactInv, NoContradiction
    <2> QED BY <2>1, <2>2, <2>3
<1> QED BY <1>11, <1>16, <1>17, <1>19 DEF FactInv

LEMMA FactStep == FactInv /\ [FactNext]_factVars => FactInv'
<1> SUFFICES ASSUME FactInv, [FactNext]_factVars
             PROVE  FactInv'
    OBVIOUS
<1>1. CASE ProposeFact
    BY <1>1, ProposeKeepsFacts
<1>2. ASSUME NEW f \in KeptFacts, NEW t \in Instants, ApproveFact(f, t) PROVE FactInv'
    BY <1>2, ApproveKeepsFacts
<1>3. ASSUME NEW f \in KeptFacts, NEW t \in Instants, RejectFact(f, t) PROVE FactInv'
    BY <1>3, RejectKeepsFacts
<1>4. ASSUME NEW f \in KeptFacts, NEW e \in Editors, BeginReopen(e, f) PROVE FactInv'
    BY <1>4, BeginReopenKeepsFacts
<1>5. ASSUME NEW e \in Editors, EndReopen(e) PROVE FactInv'
    BY <1>5, EndReopenKeepsFacts
<1>6. CASE DeleteFacts
    BY <1>6, DeleteKeepsFacts
<1>7. CASE UNCHANGED factVars
    BY <1>7, FewerFacts DEF factVars, FactInv, FactTypeOK
<1> QED BY <1>1, <1>2, <1>3, <1>4, <1>5, <1>6, <1>7 DEF FactNext

\* The table of facts and the reopenings under way keep their shape, for any number of
\* facts, keys, claims and editors.
THEOREM FactTypes == FactSpec => []FactTypeOK
<1>1. FactInv => FactTypeOK
    BY DEF FactInv
<1> QED BY <1>1, FactInitHolds, FactStep, PTL DEF FactSpec

\* No two facts of a key that contradict each other are in force at one instant, as long as
\* the approvals of that key were made in the order of their instants.
THEOREM FactsStayConsistent == FactSpec => []NoContradiction
<1>1. FactInv => NoContradiction
    BY DEF FactInv
<1> QED BY <1>1, FactInitHolds, FactStep, PTL DEF FactSpec

-----------------------------------------------------------------------------
\* The procedures.

LEMMA BoundsAreIntegers ==
    MaxVersion \in Nat /\ MaxGeneration \in Nat /\ MaxActivations \in Nat /\ NoVersion \notin Nat
BY ProcedureAssumption

LEMMA KeysArePairs ==
    /\ \A k \in Keys : k = <<k[1], k[2]>> /\ k[1] \in ProcedureIds /\ k[2] \in Numbers
    /\ \A p \in ProcedureIds, n \in Numbers :
           <<p, n>> \in Keys /\ <<p, n>>[1] = p /\ <<p, n>>[2] = n
BY DEF Keys

LEMMA StoredKey ==
    ASSUME ProcedureInv, NEW k \in StoredKeys
    PROVE  /\ k \in Keys /\ versions[k] \in Versions /\ versions[k] # NoVersion
           /\ k[1] \in ProcedureIds /\ k[2] \in Numbers /\ k = <<k[1], k[2]>>
           /\ k[2] <= latest[k[1]] /\ generations[k] \in Generations
<1>1. k \in Keys /\ versions[k] \in Versions /\ versions[k] # NoVersion
    BY DEF ProcedureInv, ProcedureShapes, StoredKeys
<1>2. generations[k] \in 0..MaxGeneration /\ generations[k] # 0 /\ k[2] <= latest[k[1]]
    BY <1>1 DEF ProcedureInv, ProcedureShapes, StoredAreProposed, HeadsAreSound
<1>3. generations[k] \in Generations
    BY <1>2, BoundsAreIntegers DEF Generations
<1> QED BY <1>1, <1>2, <1>3, KeysArePairs

\* An active key is stored and approved.
LEMMA ActiveKey ==
    ASSUME ProcedureInv, NEW k \in ActiveKeys
    PROVE  /\ k \in StoredKeys /\ versions[k].state = "approved"
           /\ active[k[1]] = k[2] /\ active[k[1]] # NoVersion
<1>1. k \in Keys /\ active[k[1]] = k[2]
    BY DEF ActiveKeys
<1>2. k = <<k[1], k[2]>> /\ k[1] \in ProcedureIds /\ k[2] \in Numbers
    BY <1>1, KeysArePairs
<1>3. active[k[1]] # NoVersion
    BY <1>1, <1>2, BoundsAreIntegers DEF Numbers
<1> QED BY <1>1, <1>2, <1>3 DEF ProcedureInv, ActiveAreApproved

LEMMA SoundProcedures == ProcedureInv => ProceduresAreSound
<1> SUFFICES ASSUME ProcedureInv PROVE ProceduresAreSound
    OBVIOUS
<1>1. \A p \in ProcedureIds : issued[p] = latest[p]
    BY DEF ProcedureInv, NumbersAreFresh
<1> QED BY <1>1 DEF ProcedureInv, ActiveAreApproved, ReviewsAreOfTheRow, ProceduresAreSound

LEMMA ProcedureInitHolds == ProcedureInit => ProcedureInv
<1> SUFFICES ASSUME ProcedureInit PROVE ProcedureInv
    OBVIOUS
<1>1. ProcedureShapes
    BY BoundsAreIntegers DEF ProcedureInit, ProcedureShapes
<1>2. StoredKeys = {}
    BY DEF ProcedureInit, StoredKeys
<1>3. CallsAreSound /\ ActiveAreApproved /\ NumbersAreFresh
    BY DEF ProcedureInit, CallsAreSound, ActiveAreApproved, NumbersAreFresh
<1> QED BY <1>1, <1>2, <1>3
        DEF ProcedureInv, StoredAreProposed, HeadsAreSound, ReviewsAreOfTheRow

-----------------------------------------------------------------------------
\* The writes that the operations of both stores come down to.

\* A call begins or ends.
LEMMA CallKeepsProcedures ==
    ASSUME ProcedureInv,
           UNCHANGED <<versions, generations, generation, latest, active, issued, approvals>>,
           NEW c \in Callers, NEW call \in Calls \cup {NoCall},
           calls' = [calls EXCEPT ![c] = call],
           call # NoCall => SoundCall(call)
    PROVE  ProcedureInv'
<1>1. ProcedureShapes'
    BY DEF ProcedureInv, ProcedureShapes
<1>2. CallsAreSound'
    <2>1. \A d \in Callers : calls'[d] = IF d = c THEN call ELSE calls[d]
        BY DEF ProcedureInv, ProcedureShapes
    <2> QED BY <2>1 DEF ProcedureInv, CallsAreSound
<1>3. /\ StoredAreProposed' /\ HeadsAreSound' /\ ActiveAreApproved'
      /\ ReviewsAreOfTheRow' /\ NumbersAreFresh'
    BY DEF ProcedureInv, StoredAreProposed, HeadsAreSound, ActiveAreApproved,
           ReviewsAreOfTheRow, NumbersAreFresh, StoredKeys
<1> QED BY <1>1, <1>2, <1>3 DEF ProcedureInv

\* A version is proposed under the number after the head.
LEMMA NewVersion ==
    ASSUME ProcedureInv, NEW p \in ProcedureIds, latest[p] < MaxVersion,
           generation < MaxGeneration,
           NEW row \in Versions, row.state = "proposed",
           versions' = [versions EXCEPT ![<<p, latest[p] + 1>>] = row],
           latest' = [latest EXCEPT ![p] = latest[p] + 1],
           generation' = generation + 1,
           generations' = [generations EXCEPT ![<<p, latest[p] + 1>>] = generation + 1],
           issued' = [issued EXCEPT ![p] = issued[p] + 1],
           approvals' \in [Keys -> 0..MaxGeneration],
           \A k \in Keys \ {<<p, latest[p] + 1>>} : approvals'[k] = approvals[k],
           UNCHANGED active,
           calls' \in [Callers -> Calls \cup {NoCall}],
           \A c \in Callers : calls'[c] \in {calls[c], NoCall}
    PROVE  ProcedureInv'
<1> DEFINE k == <<p, latest[p] + 1>>
<1>1. latest[p] \in 0..MaxVersion /\ generation \in 0..MaxGeneration
    BY DEF ProcedureInv, ProcedureShapes
<1>2. latest[p] + 1 \in Numbers /\ latest[p] + 1 \in 0..MaxVersion
      /\ generation + 1 \in 0..MaxGeneration /\ generation + 1 # 0
    BY <1>1, BoundsAreIntegers DEF Numbers
<1>3. k \in Keys /\ k[1] = p /\ k[2] = latest[p] + 1
    BY <1>2, KeysArePairs
<1>4. ProcedureShapes'
    BY <1>2, <1>3 DEF ProcedureInv, ProcedureShapes
<1>5. /\ versions'[k] = row /\ generations'[k] = generation + 1
      /\ \A l \in Keys : l # k => versions'[l] = versions[l] /\ generations'[l] = generations[l]
    BY <1>3 DEF ProcedureInv, ProcedureShapes
<1>6. latest'[p] = latest[p] + 1 /\ \A q \in ProcedureIds : q # p => latest'[q] = latest[q]
    BY DEF ProcedureInv, ProcedureShapes
<1>7. \A l \in StoredKeys' : l = k \/ (l # k /\ l \in StoredKeys)
    BY <1>5 DEF StoredKeys
<1>8. StoredAreProposed'
    BY <1>2, <1>5, <1>7, StoredKey DEF ProcedureInv, StoredAreProposed
<1>9. HeadsAreSound'
    <2> SUFFICES ASSUME NEW l \in StoredKeys' PROVE l[2] <= latest'[l[1]]
        BY DEF HeadsAreSound
    <2>1. CASE l = k
        BY <1>1, <1>3, <1>6, <2>1
    <2>2. CASE l # k
        <3>1. l[1] \in ProcedureIds /\ l[2] \in Numbers /\ l[2] <= latest[l[1]]
            BY <1>7, <2>2, StoredKey
        <3>2. latest[l[1]] \in 0..MaxVersion
            BY <3>1 DEF ProcedureInv, ProcedureShapes
        <3> QED BY <1>6, <3>1, <3>2, BoundsAreIntegers DEF Numbers
    <2> QED BY <2>1, <2>2
<1>10. CallsAreSound'
    BY Zenon DEF ProcedureInv, CallsAreSound
<1>11. ActiveAreApproved'
    <2> SUFFICES ASSUME NEW q \in ProcedureIds, active[q] # NoVersion
                 PROVE  /\ <<q, active[q]>> \in StoredKeys'
                        /\ versions'[<<q, active[q]>>].state = "approved"
        BY DEF ActiveAreApproved
    <2>1. <<q, active[q]>> \in StoredKeys /\ versions[<<q, active[q]>>].state = "approved"
        BY DEF ProcedureInv, ActiveAreApproved
    <2>2. active[q] \in Numbers /\ active[q] <= latest[q]
        BY <2>1 DEF ProcedureInv, ProcedureShapes, HeadsAreSound
    <2>3. <<q, active[q]>> # k
        BY <1>1, <2>2, BoundsAreIntegers DEF Numbers
    <2> QED BY <1>5, <2>1, <2>3 DEF StoredKeys
<1>12. ReviewsAreOfTheRow'
    <2> SUFFICES ASSUME NEW l \in StoredKeys', versions'[l].state # "proposed"
                 PROVE  approvals'[l] = generations'[l]
        BY DEF ReviewsAreOfTheRow
    <2>1. l # k /\ l \in StoredKeys /\ l \in Keys
        BY <1>5, <1>7 DEF StoredKeys
    <2> QED BY <1>5, <2>1 DEF ProcedureInv, ReviewsAreOfTheRow
<1>13. NumbersAreFresh'
    BY DEF ProcedureInv, NumbersAreFresh
<1> QED BY <1>4, <1>8, <1>9, <1>10, <1>11, <1>12, <1>13 DEF ProcedureInv

\* A proposed version is approved or rejected.
LEMMA NewReview ==
    ASSUME ProcedureInv, NEW k \in Keys, versions[k].state = "proposed",
           NEW row \in Versions,
           versions' = [versions EXCEPT ![k] = row],
           k \in StoredKeys,
           approvals' = [approvals EXCEPT ![k] = generations[k]],
           UNCHANGED <<generations, generation, latest, active, issued>>,
           calls' \in [Callers -> Calls \cup {NoCall}],
           \A c \in Callers : calls'[c] \in {calls[c], NoCall}
    PROVE  ProcedureInv'
<1>1. ProcedureShapes'
    BY DEF ProcedureInv, ProcedureShapes
<1>2. /\ \A l \in Keys : l # k => versions'[l] = versions[l] /\ approvals'[l] = approvals[l]
      /\ versions'[k] = row /\ approvals'[k] = generations[k]
    BY DEF ProcedureInv, ProcedureShapes
<1>3. \A l \in StoredKeys' : l \in Keys /\ l \in StoredKeys
    BY <1>2 DEF StoredKeys
<1>4. StoredAreProposed' /\ HeadsAreSound' /\ NumbersAreFresh'
    BY <1>3 DEF ProcedureInv, StoredAreProposed, HeadsAreSound, NumbersAreFresh
<1>5. CallsAreSound'
    BY Zenon DEF ProcedureInv, CallsAreSound
<1>6. ActiveAreApproved'
    <2> SUFFICES ASSUME NEW q \in ProcedureIds, active[q] # NoVersion
                 PROVE  /\ <<q, active[q]>> \in StoredKeys'
                        /\ versions'[<<q, active[q]>>].state = "approved"
        BY DEF ActiveAreApproved
    <2>1. <<q, active[q]>> \in StoredKeys /\ versions[<<q, active[q]>>].state = "approved"
        BY DEF ProcedureInv, ActiveAreApproved
    <2>2. <<q, active[q]>> # k
        BY <2>1
    <2> QED BY <1>2, <2>1, <2>2 DEF StoredKeys
<1>7. ReviewsAreOfTheRow'
    BY <1>2, <1>3 DEF ProcedureInv, ReviewsAreOfTheRow
<1> QED BY <1>1, <1>4, <1>5, <1>6, <1>7 DEF ProcedureInv

\* A pointer is set to an approved version.
LEMMA NewPointer ==
    ASSUME ProcedureInv, NEW k \in StoredKeys, versions[k].state = "approved",
           active' = [active EXCEPT ![k[1]] = k[2]],
           UNCHANGED <<versions, generations, generation, latest, issued, approvals>>,
           calls' \in [Callers -> Calls \cup {NoCall}],
           \A c \in Callers : calls'[c] \in {calls[c], NoCall}
    PROVE  ProcedureInv'
<1>1. k[1] \in ProcedureIds /\ k[2] \in Numbers /\ k = <<k[1], k[2]>>
    BY StoredKey
<1>2. ProcedureShapes'
    BY <1>1 DEF ProcedureInv, ProcedureShapes
<1>3. StoredKeys' = StoredKeys
    BY DEF StoredKeys
<1>4. StoredAreProposed' /\ HeadsAreSound' /\ ReviewsAreOfTheRow' /\ NumbersAreFresh'
    BY <1>3 DEF ProcedureInv, StoredAreProposed, HeadsAreSound, ReviewsAreOfTheRow,
                NumbersAreFresh
<1>5. CallsAreSound'
    BY Zenon DEF ProcedureInv, CallsAreSound
<1>6. ActiveAreApproved'
    <2>1. \A q \in ProcedureIds : active'[q] = IF q = k[1] THEN k[2] ELSE active[q]
        BY <1>1 DEF ProcedureInv, ProcedureShapes
    <2> QED BY <1>1, <1>3, <2>1 DEF ProcedureInv, ActiveAreApproved
<1> QED BY <1>2, <1>4, <1>5, <1>6 DEF ProcedureInv

\* Rows are removed with the pointers to them, and their numbers stay given out.
Removed(doomed) ==
    /\ versions' = [k \in Keys |-> IF k \in doomed THEN NoVersion ELSE versions[k]]
    /\ generations' = [k \in Keys |-> IF k \in doomed THEN 0 ELSE generations[k]]
    /\ approvals' = [k \in Keys |-> IF k \in doomed THEN 0 ELSE approvals[k]]
    /\ active' = [p \in ProcedureIds |->
                     IF \E k \in ActiveKeys \cap doomed : k[1] = p THEN NoVersion ELSE active[p]]
    /\ UNCHANGED <<generation, calls>>

LEMMA FewerVersions ==
    ASSUME ProcedureInv, NEW doomed, Removed(doomed),
           \/ UNCHANGED <<latest, issued>>
           \/ /\ doomed = StoredKeys
              /\ latest' = [p \in ProcedureIds |-> 0]
              /\ issued' = [p \in ProcedureIds |-> 0]
    PROVE  ProcedureInv'
<1>1. ProcedureShapes'
    <2>1. latest' \in [ProcedureIds -> 0..MaxVersion]
        BY BoundsAreIntegers DEF ProcedureInv, ProcedureShapes
    <2>2. versions' \in [Keys -> Versions \cup {NoVersion}]
        BY DEF ProcedureInv, ProcedureShapes, Removed
    <2>3. /\ generations' \in [Keys -> 0..MaxGeneration]
          /\ approvals' \in [Keys -> 0..MaxGeneration]
        BY BoundsAreIntegers DEF ProcedureInv, ProcedureShapes, Removed
    <2>4. active' \in [ProcedureIds -> Numbers \cup {NoVersion}]
        BY DEF ProcedureInv, ProcedureShapes, Removed
    <2> QED BY <2>1, <2>2, <2>3, <2>4 DEF ProcedureInv, ProcedureShapes, Removed
<1>2. \A k \in StoredKeys' :
        /\ k \in StoredKeys /\ k \in Keys /\ k \notin doomed /\ versions'[k] = versions[k]
        /\ generations'[k] = generations[k] /\ approvals'[k] = approvals[k]
    BY DEF Removed, StoredKeys
<1>3. UNCHANGED <<latest, issued>> \/ StoredKeys' = {}
    BY <1>2
<1>4. StoredAreProposed' /\ ReviewsAreOfTheRow'
    BY <1>2 DEF ProcedureInv, StoredAreProposed, ReviewsAreOfTheRow
<1>5. HeadsAreSound'
    BY <1>2, <1>3 DEF ProcedureInv, HeadsAreSound
<1>6. CallsAreSound'
    BY DEF ProcedureInv, CallsAreSound, Removed
<1>7. NumbersAreFresh'
    BY DEF ProcedureInv, NumbersAreFresh
<1>8. ActiveAreApproved'
    <2> SUFFICES ASSUME NEW p \in ProcedureIds, active'[p] # NoVersion
                 PROVE  /\ <<p, active'[p]>> \in StoredKeys'
                        /\ versions'[<<p, active'[p]>>].state = "approved"
        BY DEF ActiveAreApproved
    <2> DEFINE k == <<p, active[p]>>
    <2>1. active'[p] = active[p] /\ ~\E l \in ActiveKeys \cap doomed : l[1] = p
        BY DEF Removed
    <2>2. k \in StoredKeys /\ versions[k].state = "approved" /\ active[p] \in Numbers
        BY <2>1 DEF ProcedureInv, ProcedureShapes, ActiveAreApproved
    <2>3. k \in Keys /\ k[1] = p /\ k[2] = active[p]
        BY <2>2, KeysArePairs
    <2>4. k \notin doomed
        BY <2>1, <2>3 DEF ActiveKeys
    <2>5. versions'[k] = versions[k]
        BY <2>3, <2>4 DEF Removed
    <2> QED BY <2>1, <2>2, <2>5 DEF StoredKeys
<1> QED BY <1>1, <1>4, <1>5, <1>6, <1>7, <1>8 DEF ProcedureInv

-----------------------------------------------------------------------------
\* The operations in memory, whose two halves other callers come between.

\* What a caller has read under a key that is stored.
LEMMA ReadIsACall ==
    ASSUME ProcedureInv, NEW k \in StoredKeys, NEW op \in {"review", "activate"}
    PROVE  /\ Read(op, k) \in Calls /\ Read(op, k).op = op
           /\ Read(op, k).row = versions[k]
<1>1. k[1] \in ProcedureIds /\ k[2] \in Numbers /\ versions[k] \in Versions
      /\ generations[k] \in Generations
    BY StoredKey
<1>2. active[k[1]] \in Numbers \cup {NoVersion}
    BY <1>1 DEF ProcedureInv, ProcedureShapes
<1> QED BY <1>1, <1>2 DEF Read, Calls

LEMMA BeginProposeKeepsProcedures ==
    ASSUME ProcedureInv, NEW c \in Callers, NEW p \in ProcedureIds, BeginPropose(c, p)
    PROVE  ProcedureInv'
<1>1. PICK x \in Contents, s \in ProcedureSessions :
        Begin(c, [op |-> "propose", p |-> p, latest |-> latest[p],
                  row |-> [content |-> x, session |-> s, state |-> "proposed"]])
    BY DEF BeginPropose
<1> DEFINE row == [content |-> x, session |-> s, state |-> "proposed"]
           call == [op |-> "propose", p |-> p, latest |-> latest[p], row |-> row]
<1>2. row \in Versions /\ row.state = "proposed"
    BY DEF Versions
<1>3. latest[p] \in 0..MaxVersion
    BY DEF ProcedureInv, ProcedureShapes
<1> HIDE DEF row
<1>4. call \in Calls /\ SoundCall(call)
    BY <1>2, <1>3 DEF Calls, BeginPropose, SoundCall
<1>5. Begin(c, call)
    BY <1>1 DEF row
<1> HIDE DEF call
<1>6. calls' = [calls EXCEPT ![c] = call]
      /\ UNCHANGED <<versions, generations, generation, latest, active, issued, approvals>>
    BY <1>5 DEF Begin
<1> QED BY <1>4, <1>6, CallKeepsProcedures

LEMMA BeginReviewKeepsProcedures ==
    ASSUME ProcedureInv, NEW c \in Callers, NEW k \in StoredKeys,
           BeginReview(c, k) \/ BeginActivate(c, k)
    PROVE  ProcedureInv'
<1>1. PICK op \in {"review", "activate"} :
        /\ Begin(c, Read(op, k))
        /\ op = "review" => versions[k].state = "proposed"
        /\ op = "activate" => versions[k].state = "approved"
    BY DEF BeginReview, BeginActivate
<1>2. Read(op, k) \in Calls /\ Read(op, k).op = op /\ Read(op, k).row = versions[k]
    BY ReadIsACall
<1>3. calls' = [calls EXCEPT ![c] = Read(op, k)]
      /\ UNCHANGED <<versions, generations, generation, latest, active, issued, approvals>>
    BY <1>1 DEF Begin
<1>4. versions[k] # NoVersion
    BY StoredKey
<1>5. SoundCall(Read(op, k))
    BY <1>1, <1>2, <1>4 DEF SoundCall
<1> QED BY <1>2, <1>3, <1>5, CallKeepsProcedures

\* A caller that returns.
LEMMA Returned ==
    ASSUME ProcedureInv, NEW c \in Callers, Return(c)
    PROVE  /\ calls' \in [Callers -> Calls \cup {NoCall}]
           /\ \A d \in Callers : calls'[d] \in {calls[d], NoCall}
           /\ calls' = [calls EXCEPT ![c] = NoCall]
BY DEF ProcedureInv, ProcedureShapes, Return

\* The call that a caller is in.
LEMMA CallUnderWay ==
    ASSUME ProcedureInv, NEW c \in Callers, calls[c] # NoCall
    PROVE  /\ calls[c] \in Calls /\ calls[c].p \in ProcedureIds /\ calls[c].row \in Versions
           /\ calls[c].op \in {"review", "activate"} => calls[c].v \in Numbers
           /\ SoundCall(calls[c])
<1>1. calls[c] \in Calls
    BY DEF ProcedureInv, ProcedureShapes
<1>2. /\ calls[c].p \in ProcedureIds /\ calls[c].row \in Versions
      /\ calls[c].op \in {"review", "activate"} => calls[c].v \in Numbers
    BY <1>1 DEF Calls
<1> QED BY <1>1, <1>2 DEF ProcedureInv, CallsAreSound

LEMMA EndProposeKeepsProcedures ==
    ASSUME ProcedureInv, NEW c \in Callers, EndPropose(c)
    PROVE  ProcedureInv'
<1> DEFINE call == calls[c]
           k == <<call.p, call.latest + 1>>
<1>1. call # NoCall /\ call.op = "propose" /\ Return(c) /\ UNCHANGED active
    BY DEF EndPropose
<1>2. /\ calls' \in [Callers -> Calls \cup {NoCall}]
      /\ \A d \in Callers : calls'[d] \in {calls[d], NoCall}
      /\ calls' = [calls EXCEPT ![c] = NoCall]
    BY <1>1, Returned
<1>3. /\ call.p \in ProcedureIds /\ call.row \in Versions /\ call.row.state = "proposed"
      /\ call.latest < MaxVersion
    BY <1>1, CallUnderWay DEF SoundCall
<1>4. CASE latest[call.p] # call.latest
    <2>1. UNCHANGED <<versions, generations, generation, latest, active, issued, approvals>>
        BY <1>1, <1>4 DEF EndPropose
    <2> QED BY <1>2, <2>1, CallKeepsProcedures
<1>5. CASE latest[call.p] = call.latest
    <2>1. /\ generation < MaxGeneration
          /\ generation' = generation + 1
          /\ versions' = [versions EXCEPT ![k] = call.row]
          /\ generations' = [generations EXCEPT ![k] = generation + 1]
          /\ latest' = [latest EXCEPT ![call.p] = k[2]]
          /\ issued' = [issued EXCEPT ![call.p] = issued[call.p] + 1]
          /\ approvals' = [approvals EXCEPT ![k] = 0]
        BY <1>5 DEF EndPropose
    <2>2. k = <<call.p, latest[call.p] + 1>> /\ k[2] = latest[call.p] + 1
        BY <1>5
    <2> HIDE DEF k, call
    <2>3. /\ approvals' \in [Keys -> 0..MaxGeneration]
          /\ \A l \in Keys \ {k} : approvals'[l] = approvals[l]
        <3>1. approvals \in [Keys -> 0..MaxGeneration] /\ 0 \in 0..MaxGeneration
            BY BoundsAreIntegers DEF ProcedureInv, ProcedureShapes
        <3> QED BY <2>1, <3>1
    <2> QED BY <1>1, <1>2, <1>3, <1>5, <2>1, <2>2, <2>3, NewVersion
<1> QED BY <1>4, <1>5

LEMMA EndReviewKeepsProcedures ==
    ASSUME ProcedureInv, NEW c \in Callers, NEW decision \in {"approved", "rejected"},
           EndReview(c, decision)
    PROVE  ProcedureInv'
<1> DEFINE call == calls[c]
           k == <<call.p, call.v>>
           row == [call.row EXCEPT !.state = decision]
<1>1. call # NoCall /\ call.op = "review" /\ Return(c)
      /\ UNCHANGED <<generations, generation, latest, active, issued>>
    BY DEF EndReview
<1>2. /\ calls' \in [Callers -> Calls \cup {NoCall}]
      /\ \A d \in Callers : calls'[d] \in {calls[d], NoCall}
      /\ calls' = [calls EXCEPT ![c] = NoCall]
    BY <1>1, Returned
<1>3. /\ call.p \in ProcedureIds /\ call.row \in Versions /\ call.row.state = "proposed"
      /\ call.v \in Numbers /\ call.row # NoVersion
    BY <1>1, CallUnderWay DEF SoundCall
<1>4. CASE ~UnchangedSince(call)
    <2>1. UNCHANGED <<versions, generations, generation, latest, active, issued, approvals>>
        BY <1>1, <1>4 DEF EndReview
    <2> QED BY <1>2, <2>1, CallKeepsProcedures
<1>5. CASE UnchangedSince(call)
    <2>1. /\ versions' = [versions EXCEPT ![k] = row]
          /\ approvals' = [approvals EXCEPT ![k] = call.generation]
        BY <1>5 DEF EndReview
    <2>2. versions[k] = call.row /\ generations[k] = call.generation
        BY <1>5 DEF UnchangedSince
    <2>3. k \in Keys
        BY <1>3, KeysArePairs
    <2>4. row \in Versions
        BY <1>3 DEF Versions
    <2> HIDE DEF k, call, row
    <2>5. k \in StoredKeys
        BY <1>3, <2>2, <2>3 DEF StoredKeys
    <2> QED BY <1>1, <1>2, <1>3, <2>1, <2>2, <2>3, <2>4, <2>5, NewReview
<1> QED BY <1>4, <1>5

LEMMA EndActivateKeepsProcedures ==
    ASSUME ProcedureInv, NEW c \in Callers, EndActivate(c)
    PROVE  ProcedureInv'
<1> DEFINE call == calls[c]
           k == <<call.p, call.v>>
<1>1. call # NoCall /\ call.op = "activate" /\ Return(c)
      /\ UNCHANGED <<versions, generations, generation, latest, issued, approvals>>
    BY DEF EndActivate
<1>2. /\ calls' \in [Callers -> Calls \cup {NoCall}]
      /\ \A d \in Callers : calls'[d] \in {calls[d], NoCall}
      /\ calls' = [calls EXCEPT ![c] = NoCall]
    BY <1>1, Returned
<1>3. /\ call.p \in ProcedureIds /\ call.row # NoVersion /\ call.row.state = "approved"
      /\ call.v \in Numbers
    BY <1>1, CallUnderWay DEF SoundCall
<1>4. CASE ~(PointerUnchanged(call) /\ UnchangedSince(call))
    <2>1. UNCHANGED active
        BY <1>1, <1>4 DEF EndActivate
    <2> QED BY <1>1, <1>2, <2>1, CallKeepsProcedures
<1>5. CASE PointerUnchanged(call) /\ UnchangedSince(call)
    <2>1. active' = [active EXCEPT ![call.p] = call.v]
        BY <1>5 DEF EndActivate
    <2>2. versions[k] = call.row
        BY <1>5 DEF UnchangedSince
    <2>3. k \in Keys /\ k[1] = call.p /\ k[2] = call.v
        BY <1>3, KeysArePairs
    <2> HIDE DEF k, call
    <2>4. k \in StoredKeys /\ versions[k].state = "approved"
        BY <1>3, <2>2, <2>3 DEF StoredKeys
    <2> QED BY <1>1, <1>2, <2>1, <2>3, <2>4, NewPointer
<1> QED BY <1>4, <1>5

LEMMA RemovalKeepsProcedures ==
    ASSUME ProcedureInv,
           \/ \E p \in ProcedureIds : DeleteProcedure(p)
           \/ \E s \in ProcedureSessions : DeleteProcedureSession(s)
           \/ DeleteProcedureTenant
    PROVE  ProcedureInv'
<1>1. \A doomed : RemoveVersions(doomed) => Removed(doomed)
    BY DEF RemoveVersions, Removed
<1>2. ASSUME NEW doomed, DeleteVersions(doomed) PROVE ProcedureInv'
    BY <1>1, <1>2, FewerVersions DEF DeleteVersions
<1>3. CASE DeleteProcedureTenant
    BY <1>1, <1>3, FewerVersions DEF DeleteProcedureTenant
<1> QED BY <1>2, <1>3 DEF DeleteProcedure, DeleteProcedureSession

LEMMA ProcedureStep == ProcedureInv /\ [ProcedureNext]_procedureVars => ProcedureInv'
<1> SUFFICES ASSUME ProcedureInv, [ProcedureNext]_procedureVars
             PROVE  ProcedureInv'
    OBVIOUS
<1>1. ASSUME NEW c \in Callers, NEW p \in ProcedureIds, BeginPropose(c, p) PROVE ProcedureInv'
    BY <1>1, BeginProposeKeepsProcedures
<1>2. ASSUME NEW c \in Callers, NEW k \in StoredKeys, BeginReview(c, k) \/ BeginActivate(c, k)
      PROVE  ProcedureInv'
    BY <1>2, BeginReviewKeepsProcedures
<1>3. ASSUME NEW c \in Callers, EndPropose(c) PROVE ProcedureInv'
    BY <1>3, EndProposeKeepsProcedures
<1>4. ASSUME NEW c \in Callers, NEW decision \in {"approved", "rejected"},
             EndReview(c, decision)
      PROVE  ProcedureInv'
    BY <1>4, EndReviewKeepsProcedures
<1>5. ASSUME NEW c \in Callers, EndActivate(c) PROVE ProcedureInv'
    BY <1>5, EndActivateKeepsProcedures
<1>6. CASE UNCHANGED procedureVars
    BY <1>6, Zenon DEF procedureVars, ProcedureInv, ProcedureShapes, StoredAreProposed,
       HeadsAreSound, CallsAreSound, ActiveAreApproved, ReviewsAreOfTheRow, NumbersAreFresh,
       StoredKeys
<1> QED BY <1>1, <1>2, <1>3, <1>4, <1>5, <1>6, RemovalKeepsProcedures, Zenon
        DEF ProcedureNext

\* In memory, whatever callers do between the two halves of each other's operations, an
\* active version is stored and approved, a decision is about the proposal that was read,
\* and no number is given out twice, for any number of procedures, versions and callers.
THEOREM ProceduresStaySound == ProcedureSpec => []ProceduresAreSound
BY ProcedureInitHolds, ProcedureStep, SoundProcedures, PTL DEF ProcedureSpec

-----------------------------------------------------------------------------
\* The operations in SQLite, each one transaction.

\* No call is under way in a store whose operations are transactions.
LEMMA CallsStay ==
    ASSUME ProcedureInv, UNCHANGED calls
    PROVE  /\ calls' \in [Callers -> Calls \cup {NoCall}]
           /\ \A c \in Callers : calls'[c] \in {calls[c], NoCall}
BY DEF ProcedureInv, ProcedureShapes

\* The active procedures, when no pointer moves and no active row changes.
LEMMA SameActive ==
    ASSUME UNCHANGED active, \A k \in ActiveKeys : versions'[k] = versions[k]
    PROVE  UNCHANGED ActiveProcedures
<1>1. ActiveKeys' = ActiveKeys
    BY DEF ActiveKeys
<1> QED BY <1>1 DEF ActiveProcedures, Snapshot

\* What a change of the store does to the count of changes of pointers.
Counted ==
    /\ revision' \in Nat /\ revision <= revision'
    /\ revision' = revision => UNCHANGED ActiveProcedures

LEMMA SqlProposeKeepsProcedures ==
    ASSUME ProcedureInv, revision \in Nat, NEW p \in ProcedureIds, SqlPropose(p)
    PROVE  ProcedureInv' /\ Counted
<1> DEFINE k == <<p, latest[p] + 1>>
<1>1. PICK x \in Contents, s \in ProcedureSessions :
        versions' = [versions EXCEPT ![k] = [content |-> x, session |-> s, state |-> "proposed"]]
    BY DEF SqlPropose
<1> DEFINE row == [content |-> x, session |-> s, state |-> "proposed"]
<1>2. row \in Versions /\ row.state = "proposed"
    BY DEF Versions
<1>3. /\ latest[p] < MaxVersion /\ generation < MaxGeneration
      /\ latest' = [latest EXCEPT ![p] = latest[p] + 1]
      /\ generation' = generation + 1
      /\ generations' = [generations EXCEPT ![k] = generation + 1]
      /\ issued' = [issued EXCEPT ![p] = issued[p] + 1]
      /\ UNCHANGED <<active, revision, calls, approvals>>
    BY DEF SqlPropose
<1>4. approvals' \in [Keys -> 0..MaxGeneration]
      /\ \A l \in Keys \ {k} : approvals'[l] = approvals[l]
    BY <1>3 DEF ProcedureInv, ProcedureShapes
<1>5. latest[p] \in 0..MaxVersion
    BY DEF ProcedureInv, ProcedureShapes
<1>6. k \in Keys /\ k[1] = p /\ k[2] = latest[p] + 1
    BY <1>3, <1>5, BoundsAreIntegers, KeysArePairs DEF Numbers
<1> HIDE DEF row
<1>7. versions' = [versions EXCEPT ![k] = row]
    BY <1>1 DEF row
<1>8. ProcedureInv'
    BY <1>2, <1>3, <1>4, <1>7, CallsStay, NewVersion
<1>9. \A l \in ActiveKeys : versions'[l] = versions[l]
    <2> SUFFICES ASSUME NEW l \in ActiveKeys PROVE l \in Keys /\ l # k
        BY <1>7 DEF ProcedureInv, ProcedureShapes
    <2>1. l \in StoredKeys
        BY ActiveKey
    <2>2. l \in Keys /\ l[2] <= latest[l[1]] /\ l[2] \in Numbers
        BY <2>1, StoredKey
    <2> QED BY <1>5, <1>6, <2>2 DEF Numbers
<1> QED BY <1>3, <1>8, <1>9, SameActive DEF Counted

LEMMA SqlReviewKeepsProcedures ==
    ASSUME ProcedureInv, revision \in Nat, NEW k \in StoredKeys,
           NEW decision \in {"approved", "rejected"}, SqlReview(k, decision)
    PROVE  ProcedureInv' /\ Counted
<1> DEFINE row == [versions[k] EXCEPT !.state = decision]
<1>1. versions[k] \in Versions /\ k \in Keys
    BY StoredKey
<1>2. row \in Versions
    BY <1>1 DEF Versions
<1>3. /\ versions' = [versions EXCEPT ![k] = row]
      /\ versions[k].state = "proposed"
      /\ approvals' = [approvals EXCEPT ![k] = generations[k]]
      /\ UNCHANGED <<generations, generation, latest, active, revision, calls, issued>>
    BY DEF SqlReview
<1> HIDE DEF row
<1>4. ProcedureInv'
    BY <1>1, <1>2, <1>3, CallsStay, NewReview
<1>5. \A l \in ActiveKeys : versions'[l] = versions[l]
    BY <1>1, <1>3, ActiveKey, StoredKey DEF ProcedureInv, ProcedureShapes
<1> QED BY <1>3, <1>4, <1>5, SameActive DEF Counted

LEMMA SqlActivateKeepsProcedures ==
    ASSUME ProcedureInv, revision \in Nat, NEW k \in StoredKeys, SqlActivate(k)
    PROVE  ProcedureInv' /\ Counted
<1>1. ProcedureInv'
    BY CallsStay, NewPointer DEF SqlActivate
<1>2. revision' = revision + 1
    BY DEF SqlActivate
<1> QED BY <1>1, <1>2 DEF Counted

LEMMA SqlRemoveKeepsProcedures ==
    ASSUME ProcedureInv, revision \in Nat, NEW doomed, SqlRemove(doomed),
           \/ UNCHANGED <<latest, issued>>
           \/ /\ doomed = StoredKeys
              /\ latest' = [p \in ProcedureIds |-> 0]
              /\ issued' = [p \in ProcedureIds |-> 0]
    PROVE  ProcedureInv' /\ Counted
<1>1. Removed(doomed)
    BY DEF SqlRemove, Removed
<1>2. ProcedureInv'
    BY <1>1, FewerVersions
<1>3. revision' = IF ActiveKeys \cap doomed = {} THEN revision ELSE revision + 1
    BY DEF SqlRemove
<1>4. CASE ActiveKeys \cap doomed = {}
    <2>1. active' = active
        BY <1>1, <1>4 DEF Removed, ProcedureInv, ProcedureShapes
    <2>2. \A k \in ActiveKeys : versions'[k] = versions[k]
        BY <1>1, <1>4 DEF Removed, ActiveKeys
    <2> QED BY <1>2, <1>3, <1>4, <2>1, <2>2, SameActive DEF Counted
<1>5. CASE ActiveKeys \cap doomed # {}
    BY <1>2, <1>3, <1>5 DEF Counted
<1> QED BY <1>4, <1>5

\* Every change of the active procedures raises the count of changes.
LEMMA SqlProcedureStep ==
    ASSUME ProcedureInv, revision \in Nat, SqlProcedureNext
    PROVE  ProcedureInv' /\ Counted
<1>1. ASSUME NEW p \in ProcedureIds, SqlPropose(p) PROVE ProcedureInv' /\ Counted
    BY <1>1, SqlProposeKeepsProcedures
<1>2. ASSUME NEW p \in ProcedureIds, SqlDeleteProcedure(p) PROVE ProcedureInv' /\ Counted
    BY <1>2, SqlRemoveKeepsProcedures DEF SqlDeleteProcedure
<1>3. ASSUME NEW k \in StoredKeys, SqlActivate(k) PROVE ProcedureInv' /\ Counted
    BY <1>3, SqlActivateKeepsProcedures
<1>4. ASSUME NEW k \in StoredKeys, NEW decision \in {"approved", "rejected"},
             SqlReview(k, decision)
      PROVE  ProcedureInv' /\ Counted
    BY <1>4, SqlReviewKeepsProcedures
<1>5. ASSUME NEW s \in ProcedureSessions, SqlDeleteSession(s) PROVE ProcedureInv' /\ Counted
    BY <1>5, SqlRemoveKeepsProcedures DEF SqlDeleteSession
<1>6. CASE SqlDeleteTenant
    BY <1>6, SqlRemoveKeepsProcedures DEF SqlDeleteTenant
<1> QED BY <1>1, <1>2, <1>3, <1>4, <1>5, <1>6, Zenon DEF SqlProcedureNext

-----------------------------------------------------------------------------
\* The reader of both memories.

LEMMA WhatIsListed ==
    ASSUME MemoryInv
    PROVE  /\ \A t : ListOfFacts(t) \in ListedFacts
           /\ ActiveProcedures \in Selections
<1>1. \A f \in KeptFacts : f \in FactIds /\ facts[f].payload \in Facts
    BY KeptRows DEF MemoryInv
<1>2. \A t : ListOfFacts(t) \in ListedFacts
    BY <1>1 DEF ListOfFacts, ListedFacts, ActiveFacts
<1>3. \A k \in ActiveKeys : k \in Keys /\ versions[k] \in Versions
    BY ActiveKey, StoredKey DEF MemoryInv
<1>4. ActiveProcedures \in Selections
    BY <1>3 DEF ActiveProcedures, Snapshot, Selections
<1> QED BY <1>2, <1>4

LEMMA MemoryInitHolds == MemoryInit => MemoryInv
<1> SUFFICES ASSUME MemoryInit PROVE MemoryInv
    OBVIOUS
<1>1. FactInv /\ ProcedureInv
    BY FactInitHolds, ProcedureInitHolds DEF MemoryInit
<1>2. ReaderShape
    BY InstantsAreIntegers DEF MemoryInit, ReaderInit, ProcedureInit, ReaderShape, Idle,
       Nothing, Steps, ListedFacts, Selections
<1>3. CountsAreRead /\ ContextIsASnapshot
    BY DEF MemoryInit, ReaderInit, Idle, CountsAreRead, ContextIsASnapshot
<1> QED BY <1>1, <1>2, <1>3 DEF MemoryInv

\* The reader does not move while the stores do.
LEMMA StoresMove ==
    ASSUME ReaderShape, CountsAreRead, ContextIsASnapshot, UNCHANGED readerVars, Counted
    PROVE  ReaderShape' /\ CountsAreRead' /\ ContextIsASnapshot'
<1>1. reader' = reader /\ together' = together
    BY DEF readerVars
<1>2. ReaderShape'
    BY <1>1 DEF ReaderShape, Counted
<1>3. ContextIsASnapshot'
    BY <1>1 DEF ContextIsASnapshot
<1>4. revision \in Nat /\ revision' \in Nat /\ reader.revision \in Nat
    BY DEF ReaderShape, Counted
<1>5. ASSUME reader.step \in {"read", "relisted"} PROVE reader.revision <= revision'
    BY <1>4, <1>5 DEF CountsAreRead, Counted
<1>6. ASSUME reader.step = "relisted", reader.revision = revision'
      PROVE  together.procedures = ActiveProcedures'
    <2>1. reader.revision = revision /\ revision' = revision
        BY <1>4, <1>6 DEF CountsAreRead, Counted
    <2> QED BY <1>6, <2>1 DEF CountsAreRead, Counted
<1>7. CountsAreRead'
    BY <1>1, <1>5, <1>6, Zenon DEF CountsAreRead
<1> QED BY <1>2, <1>3, <1>7

\* The reader moves while the stores do not.
LEMMA ReaderMoves ==
    ASSUME MemoryInv, ReaderNext, UNCHANGED <<factVars, procedureVars>>
    PROVE  ReaderShape' /\ CountsAreRead' /\ ContextIsASnapshot'
<1>1. UNCHANGED <<revision, ActiveProcedures>>
    <2>1. revision' = revision /\ versions' = versions /\ active' = active
        BY DEF procedureVars
    <2> QED BY <2>1, SameActive
<1>2. /\ revision \in Nat /\ ActiveProcedures \in Selections
      /\ \A t : ListOfFacts(t) \in ListedFacts
    BY WhatIsListed DEF MemoryInv, ReaderShape
<1>3. ReaderShape /\ CountsAreRead /\ ContextIsASnapshot
    BY DEF MemoryInv
<1>4. Snapshot.revision = revision
    BY DEF Snapshot
<1>5. CASE GiveUp
    <2>1. ReaderShape'
        BY <1>1, <1>2, <1>5, InstantsAreIntegers
        DEF GiveUp, ReaderShape, Idle, Nothing, Steps, ListedFacts, Selections
    <2>2. CountsAreRead' /\ ContextIsASnapshot'
        BY <1>5 DEF GiveUp, Idle, CountsAreRead, ContextIsASnapshot
    <2> QED BY <2>1, <2>2
<1>6. ASSUME NEW t \in Instants, ListFacts(t)
      PROVE  ReaderShape' /\ CountsAreRead' /\ ContextIsASnapshot'
    <2> DEFINE listed == ListOfFacts(t)
    <2>1. reader' = [Idle EXCEPT !.step = "listed", !.at = t, !.facts = listed]
          /\ together' = together /\ listed \in ListedFacts
        BY <1>2, <1>6 DEF ListFacts
    <2> HIDE DEF listed
    <2>2. ReaderShape'
        BY <1>1, <1>3, <2>1 DEF ReaderShape, Idle, Steps, ListedFacts, Selections
    <2>3. reader'.step = "listed"
        BY <2>1 DEF Idle
    <2> QED BY <2>2, <2>3 DEF CountsAreRead, ContextIsASnapshot
<1>7. ASSUME ReadProcedures, ~GiveUp
      PROVE  ReaderShape' /\ CountsAreRead' /\ ContextIsASnapshot'
    <2>1. /\ reader' = [reader EXCEPT
                          !.step = IF ActiveProcedures = {} THEN "returned" ELSE "read",
                          !.procedures = ActiveProcedures, !.revision = revision]
          /\ together' = together
        BY <1>4, <1>7 DEF ReadProcedures
    <2>2. ReaderShape'
        BY <1>1, <1>2, <1>3, <2>1 DEF ReaderShape, Steps
    <2>3. /\ reader'.step = IF ActiveProcedures = {} THEN "returned" ELSE "read"
          /\ reader'.procedures = ActiveProcedures /\ reader'.revision = revision
        BY <1>3, <2>1 DEF ReaderShape
    <2> QED BY <1>1, <1>2, <2>2, <2>3 DEF CountsAreRead, ContextIsASnapshot
<1>8. ASSUME RelistFacts, ~GiveUp
      PROVE  ReaderShape' /\ CountsAreRead' /\ ContextIsASnapshot'
    <2> DEFINE listed == ListOfFacts(reader.at)
    <2>1. /\ reader' = [reader EXCEPT !.step = "relisted", !.again = listed]
          /\ together' = [facts |-> listed, procedures |-> ActiveProcedures]
          /\ listed \in ListedFacts /\ reader.step = "read"
        BY <1>2, <1>8 DEF RelistFacts
    <2> HIDE DEF listed
    <2>2. ReaderShape'
        BY <1>1, <1>2, <1>3, <2>1 DEF ReaderShape, Steps
    <2>3. /\ reader'.step = "relisted" /\ reader'.again = listed
          /\ reader'.revision = reader.revision
        BY <1>3, <2>1 DEF ReaderShape
    <2> QED BY <1>1, <1>3, <2>1, <2>2, <2>3 DEF CountsAreRead, ContextIsASnapshot
<1>9. ASSUME RereadProcedures, ~GiveUp
      PROVE  ReaderShape' /\ CountsAreRead' /\ ContextIsASnapshot'
    <2>1. /\ reader' = [reader EXCEPT !.step = "returned"] /\ together' = together
          /\ reader.step = "relisted" /\ SameContext(reader)
        BY <1>9 DEF RereadProcedures
    <2>2. ReaderShape'
        BY <1>1, <1>3, <2>1 DEF ReaderShape, Steps
    <2>3. /\ reader'.step = "returned" /\ reader'.facts = reader.facts
          /\ reader'.procedures = reader.procedures
        BY <1>3, <2>1 DEF ReaderShape
    <2>4. reader.facts = together.facts /\ reader.procedures = together.procedures
        BY <1>3, <1>4, <2>1 DEF CountsAreRead, SameContext
    <2> QED BY <2>1, <2>2, <2>3, <2>4 DEF CountsAreRead, ContextIsASnapshot
<1> QED BY <1>5, <1>6, <1>7, <1>8, <1>9, Zenon DEF ReaderNext, Forget

LEMMA MemoryStep == MemoryInv /\ [MemoryNext]_memoryVars => MemoryInv'
<1> SUFFICES ASSUME MemoryInv, [MemoryNext]_memoryVars
             PROVE  MemoryInv'
    OBVIOUS
<1>1. ASSUME UNCHANGED factVars PROVE FactInv'
    BY <1>1, FactStep DEF MemoryInv
<1>2. ASSUME UNCHANGED procedureVars PROVE ProcedureInv' /\ Counted
    <2>1. ProcedureInv'
        BY <1>2, ProcedureStep DEF MemoryInv
    <2>2. revision' = revision /\ versions' = versions /\ active' = active
        BY <1>2 DEF procedureVars
    <2> QED BY <2>1, <2>2, SameActive DEF Counted, MemoryInv, ReaderShape
<1>3. ASSUME UNCHANGED readerVars, Counted
      PROVE  ReaderShape' /\ CountsAreRead' /\ ContextIsASnapshot'
    BY <1>3, StoresMove DEF MemoryInv
<1>4. CASE FactNext /\ UNCHANGED <<procedureVars, readerVars>>
    <2>1. FactInv'
        BY <1>4, FactStep DEF MemoryInv
    <2> QED BY <1>2, <1>3, <1>4, <2>1 DEF MemoryInv
<1>5. CASE SqlProcedureNext /\ UNCHANGED <<factVars, readerVars>>
    <2>1. ProcedureInv' /\ Counted
        BY <1>5, SqlProcedureStep DEF MemoryInv, ReaderShape
    <2> QED BY <1>1, <1>3, <1>5, <2>1 DEF MemoryInv
<1>6. CASE ReaderNext /\ UNCHANGED <<factVars, procedureVars>>
    BY <1>1, <1>2, <1>6, ReaderMoves DEF MemoryInv
<1>7. CASE UNCHANGED memoryVars
    BY <1>1, <1>2, <1>3, <1>7 DEF memoryVars, MemoryInv
<1> QED BY <1>4, <1>5, <1>6, <1>7 DEF MemoryNext

\* A context handed over with procedures is what both stores held together, whatever
\* happens in them between the four readings.
THEOREM ContextsAreSnapshots == MemorySpec => []ContextIsASnapshot
<1>1. MemoryInv => ContextIsASnapshot
    BY DEF MemoryInv
<1> QED BY <1>1, MemoryInitHolds, MemoryStep, PTL DEF MemorySpec

\* In SQLite too the procedures stay sound, and the facts beside them consistent.
THEOREM MemoriesStaySound == MemorySpec => [](ProceduresAreSound /\ NoContradiction)
<1>1. MemoryInv => ProceduresAreSound /\ NoContradiction
    BY SoundProcedures DEF MemoryInv, FactInv
<1> QED BY <1>1, MemoryInitHolds, MemoryStep, PTL DEF MemorySpec

\* The reader keeps its shape.
THEOREM ReaderTypes == MemorySpec => []ReaderTypeOK
<1>1. MemoryInv => ReaderTypeOK
    BY DEF MemoryInv, ReaderShape, ReaderTypeOK
<1> QED BY <1>1, MemoryInitHolds, MemoryStep, PTL DEF MemorySpec
=============================================================================

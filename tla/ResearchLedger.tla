--------------------------- MODULE ResearchLedger ---------------------------
(***************************************************************************)
(* The ledger of a research run: what the run may still consume, and the   *)
(* boundaries at which it must stop.  A charge that does not fit leaves    *)
(* what was charged before it and marks the ledger as over.                *)
(***************************************************************************)
EXTENDS Integers

CONSTANTS
    Deadline,     \* max_seconds
    MaxIterations, MaxQueries, MaxPages, MaxRaw, MaxDecoded, MaxCalls, MaxTokens,
    MaxAttempts,  \* max_attempts_per_model_call
    Reservation,  \* fetch_reservation_bytes
    Broken        \* a reading that is no finite number

ASSUME LedgerAssumption ==
    /\ \A n \in {MaxIterations, MaxQueries, MaxPages, MaxRaw, MaxDecoded, MaxCalls, MaxTokens} :
          n \in Nat
    /\ \A n \in {Deadline, MaxAttempts, Reservation} : n \in Nat \ {0}
    /\ Broken \notin Nat

Readings == 0..Deadline \cup {Broken}

\* RunBudget and RunUsage; records is what memory contributed.
Ledgers == [last : 0..Deadline, valid : BOOLEAN, over : BOOLEAN,
            iterations : 0..MaxIterations, queries : 0..MaxQueries,
            pages : 0..MaxPages, failed : 0..MaxPages,
            raw : 0..MaxRaw, decoded : 0..MaxDecoded, calls : 0..MaxCalls,
            attempts : 0..(MaxCalls * MaxAttempts), tokens : 0..MaxTokens, records : 0..12]

\* _Ledger.create, by the first reading of the clock
NewLedger(r) ==
    [last |-> IF r = Broken THEN 0 ELSE r, valid |-> r # Broken, over |-> FALSE,
     iterations |-> 0, queries |-> 0, pages |-> 0, failed |-> 0, raw |-> 0, decoded |-> 0,
     calls |-> 0, attempts |-> 0, tokens |-> 0, records |-> 0]

\* check_boundary: cancellation first, then a clock that cannot be read, then one that
\* went back or has reached the deadline.
Verdict(l, r, cancelled) ==
    CASE cancelled -> "cancelled"
      [] ~cancelled /\ (~l.valid \/ r = Broken) -> "invalid"
      [] ~cancelled /\ l.valid /\ r # Broken ->
            IF r < l.last \/ r >= Deadline THEN "exhausted" ELSE "fine"

\* _consume
Consume(l, field, amount, maximum) ==
    IF l.over \/ l[field] > maximum - amount THEN [l EXCEPT !.over = TRUE]
    ELSE [l EXCEPT ![field] = @ + amount]

\* A page whose body is accounted when it comes, without a reservation before.
ReservePageOnly(l) == Consume(l, "pages", 1, MaxPages)
ReservePage(l) ==
    Consume(Consume(l, "pages", 1, MaxPages), "raw", Reservation, MaxRaw)

ConsumeQuery(l) == Consume(l, "queries", 1, MaxQueries)

StartIteration(l, r) == Consume([l EXCEPT !.last = r], "iterations", 1, MaxIterations)

\* account_page_body and consume_decoded
AccountBody(l, size) ==
    LET extra == IF size > Reservation THEN size - Reservation ELSE 0 IN
    Consume(Consume(l, "raw", extra, MaxRaw), "decoded", size, MaxDecoded)

\* _consume_tokens: a budget that is exceeded is reported as used up.
ConsumeTokens(l, amount) ==
    IF ~l.over /\ l.tokens > MaxTokens - amount
    THEN [l EXCEPT !.over = TRUE, !.tokens = MaxTokens]
    ELSE Consume(l, "tokens", amount, MaxTokens)

BeginModelCall(l, prompt) ==
    Consume(ConsumeTokens(Consume(l, "calls", 1, MaxCalls), prompt),
            "attempts", 1, MaxCalls * MaxAttempts)

\* finish_model_call: the attempts the provider reports, and the tokens beyond the prompt.
FinishModelCall(l, attempts, reply) ==
    IF attempts \notin 1..MaxAttempts THEN [l EXCEPT !.over = TRUE]
    ELSE ConsumeTokens(Consume(l, "attempts", attempts - 1, MaxCalls * MaxAttempts), reply)
=============================================================================

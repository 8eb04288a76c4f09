------------------------------ MODULE WebSearch ------------------------------
(***************************************************************************)
(* One search: the configured backends are asked in turn until one has     *)
(* hits, and all of them once more when every attempt so far failed.  A    *)
(* failure of the service must not look like a question without results,   *)
(* or the run would conclude from it.                                      *)
(***************************************************************************)
EXTENDS SitePolicy

CONSTANTS
    Backends,    \* the configured names, a sequence
    Sweeps,      \* _SEARCH_SWEEPS
    RowsPerHit,  \* _ROWS_PER_REQUESTED_HIT
    Limits,      \* the max_results of the queries
    ResultRows   \* what a backend may return in a row

ASSUME SearchAssumption ==
    /\ Backends \in Seq(ToSet(Backends)) /\ Len(Backends) >= 1 /\ IsInjective(Backends)
    /\ {Sweeps, RowsPerHit} \subseteq Nat \ {0}
    /\ Limits \subseteq Nat \ {0}

VARIABLE search

Failing == {"exception", "invalid"}

\* A row is no mapping of strings, or names a page; two spellings
\* of one page differ by a root dot, a fragment or the case of an escape.
Reason(row) ==
    CASE row.shape # "link" -> "invalid"
      [] row.shape = "link" /\ (row.user \/ row.port \notin AllowedPorts) -> "policy"
      [] row.shape = "link" /\ ~row.user /\ row.port \in AllowedPorts ->
            IF SiteAllowed(row.host) THEN "accepted" ELSE "policy"

Canonical(row) == [host |-> row.host, port |-> row.port, page |-> row.page]

NothingRead == [hits |-> <<>>, raw |-> 0, invalid |-> 0, policy |-> 0, duplicate |-> 0]

\* One row more.
WithRow(result, row) ==
    LET one    == [result EXCEPT !.raw = @ + 1]
        reason == Reason(row)
        page   == Canonical(row)
    IN CASE reason = "invalid" -> [one EXCEPT !.invalid = @ + 1]
         [] reason = "policy" -> [one EXCEPT !.policy = @ + 1]
         [] reason = "accepted" /\ page \in ToSet(result.hits) -> [one EXCEPT !.duplicate = @ + 1]
         [] reason = "accepted" /\ page \notin ToSet(result.hits) ->
               [one EXCEPT !.hits = Append(@, page)]

\* A row after the last one that is wanted is not looked at.
ReadEnough(result, limit) == Len(result.hits) = limit \/ result.raw = RowsPerHit * limit

\* _attempt_outcome
OutcomeOf(result) ==
    CASE result.hits # <<>> -> "success"
      [] result.hits = <<>> /\ result.raw = 0 -> "raw_empty"
      [] result.hits = <<>> /\ result.raw # 0 ->
            IF result.policy > 0 /\ result.invalid = 0 /\ result.duplicate = 0
            THEN "all_policy_rejected" ELSE "normalized_empty"

NoSearch ==
    [at |-> "new", limit |-> 0, sweep |-> 0, next |-> 1, attempts |-> <<>>, result |-> NothingRead,
     hits |-> <<>>]

SearchInit == search = NoSearch

OpenSearch(limit) ==
    /\ search.at = "new"
    /\ search' = [search EXCEPT !.at = "asking", !.limit = limit, !.sweep = 1]

Tried(attempt) ==
    [search EXCEPT !.attempts = Append(@, attempt), !.next = @ + 1, !.result = NothingRead,
                   !.at = IF search.next = Len(Backends) THEN "swept" ELSE "asking"]

Attempt(outcome, result) ==
    [backend |-> Backends[search.next], outcome |-> outcome,
     raw |-> result.raw, accepted |-> Len(result.hits),
     rejected |-> result.invalid + result.policy + result.duplicate]

\* The backend raises, or answers with what is no sequence.
BackendFails(outcome) ==
    /\ search.at = "asking"
    /\ search' = Tried(Attempt(outcome, NothingRead))

BackendAnswers ==
    /\ search.at = "asking"
    /\ search' = [search EXCEPT !.at = "reading"]

\* _normalize, row by row; a row that raises when it is read makes the answer invalid.
ReadRow(row) ==
    /\ search.at = "reading" /\ ~ReadEnough(search.result, search.limit)
    /\ search' = [search EXCEPT !.result = WithRow(@, row)]

RowRaises ==
    /\ search.at = "reading" /\ ~ReadEnough(search.result, search.limit)
    /\ search' = Tried(Attempt("invalid", NothingRead))

\* The rows are at their end, or enough were read.
EndRows ==
    LET outcome == OutcomeOf(search.result)
        tried   == Tried(Attempt(outcome, search.result))
    IN /\ search.at = "reading"
       /\ search' = IF outcome = "success"
                    THEN [tried EXCEPT !.at = "found", !.hits = search.result.hits] ELSE tried

AllFailing == \A i \in DOMAIN search.attempts : search.attempts[i].outcome \in Failing

\* After a sweep without hits: another one is worth its delay only when nothing answered.
EndSweep ==
    /\ search.at = "swept"
    /\ search' = CASE AllFailing /\ search.sweep < Sweeps ->
                        [search EXCEPT !.at = "asking", !.sweep = @ + 1, !.next = 1]
                   [] AllFailing /\ search.sweep = Sweeps -> [search EXCEPT !.at = "failed"]
                   [] ~AllFailing -> [search EXCEPT !.at = "empty"]

SearchNext ==
    \/ \E limit \in Limits : OpenSearch(limit)
    \/ \E outcome \in Failing : BackendFails(outcome)
    \/ BackendAnswers \/ \E row \in ResultRows : ReadRow(row)
    \/ RowRaises \/ EndRows \/ EndSweep

SearchSpec == SearchInit /\ [][SearchNext]_search

(***************************************************************************)
(* What a search reports is what happened: a failure only after every      *)
(* backend was asked in every sweep and not one gave a readable answer, an *)
(* empty result only when one did and none had a page to read; the hits    *)
(* are distinct pages of allowed sites, as many as were asked for at most, *)
(* and every row that was looked at is accounted for.                      *)
(***************************************************************************)
SearchIsHonest ==
    LET outcomes == {search.attempts[i].outcome : i \in DOMAIN search.attempts} IN
    /\ search.at = "failed" => /\ outcomes \subseteq Failing
                               /\ Len(search.attempts) = Sweeps * Len(Backends)
    /\ search.at = "empty" => /\ outcomes \ Failing # {}
                              /\ "success" \notin outcomes
                              /\ \A b \in ToSet(Backends) :
                                    \E i \in DOMAIN search.attempts : search.attempts[i].backend = b
    /\ search.at = "found" => Len(search.hits) \in 1..search.limit
    /\ IsInjective(search.hits)
    /\ \A page \in ToSet(search.hits) : SiteAllowed(page.host) /\ page.port \in AllowedPorts
    /\ \A i \in DOMAIN search.attempts :
          LET a == search.attempts[i]
          IN /\ a.raw = a.accepted + a.rejected
             /\ a.raw <= RowsPerHit * search.limit
=============================================================================

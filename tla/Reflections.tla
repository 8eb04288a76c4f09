----------------------------- MODULE Reflections -----------------------------
(***************************************************************************)
(* reflect_run, and what the worker stores for a run: the reflection that  *)
(* is kept of its result, which holds the addresses of what a completed    *)
(* answer cites.  Addresses that would disclose a secret are not kept: a   *)
(* run that cites one is stored as failed.                                 *)
(*                                                                         *)
(* Abstractions: an address is what the check tells apart, its origin and  *)
(* two components; a component is how often it is percent-encoded, and     *)
(* what shows when it no longer is.  Texts, their redaction and the trace  *)
(* are left out.                                                           *)
(***************************************************************************)
EXTENDS ResearchRun

CONSTANTS
    EvidenceUrls  \* addresses that pages may have

\* What an address has as its scheme, user, port and host, where only one kind is kept.
Origins == {"public", "credentials", "port", "private", "denied", "sensitive"}

\* What a component shows once it is decoded, if it can be: a secret itself, or, in a query,
\* a name that such things go by.
Components == [layers : Nat, shows : {"nothing", "secret", "name", "undecodable"}]

ASSUME ReflectionAssumption ==
    \A url \in EvidenceUrls :
        url.origin \in Origins /\ url.path \in Components /\ url.query \in Components
-----------------------------------------------------------------------------
(* _safe_public_url *)

\* One pass of unquote.
Pass(c) == IF c.layers > 0 THEN [c EXCEPT !.layers = @ - 1] ELSE c

\* Passes until nothing changes; an address is longer than it has layers.
FullyDecoded(c) ==
    LET after[n \in 0..c.layers + 1] == IF n = 0 THEN c ELSE Pass(after[n - 1])
    IN after[CHOOSE n \in 0..c.layers : after[n] = after[n + 1]]

\* What is seen of a component; what lies below an encoding is not.
Seen(c) == IF c.layers = 0 THEN c.shows ELSE "nothing"

SafeUrl(url) ==
    /\ url.origin = "public"
    /\ Seen(FullyDecoded(url.path)) = "nothing"
    /\ Seen(FullyDecoded(url.query)) = "nothing"
-----------------------------------------------------------------------------
\* What the answer of the result cites, if there is one.
Cited == IF result.answered THEN result.citations ELSE {}

\* _completion_evidence raises: a citation without its evidence, or an unsafe address.
EvidenceRefused(urls) ==
    result.status = "completed" /\ \E p \in Cited : p \notin result.evidence \/ ~SafeUrl(urls[p])

\* reflect_run
Reflection ==
    [outcome |-> result.status,
     actions |-> events,
     failures |-> [page_processing_failed |-> ledger.failed,
                   reason |-> result.reason],
     recovered |-> ledger.failed > 0 /\ result.evidence # {},
     evidence |-> IF result.status = "completed" THEN Cited ELSE {},
     unresolved |-> IF result.status = "cancelled" THEN {"cancelled"}
                    ELSE {result.reason} \ {"none"},
     claims |-> Cited]

\* _validate_run_result, and ReflectionUsage.validate_related_counts
ValidResult ==
    /\ Len(events) <= 16
    /\ Cardinality(result.evidence) <= 24 /\ result.claims <= 16
    /\ ledger.failed <= ledger.pages
    /\ ledger.attempts <= ledger.calls * MaxAttempts

\* RunReflection.validate_outcome_and_text
ValidReflection(r) ==
    /\ IF r.outcome = "completed"
       THEN /\ Contains(r.actions, "evidence_ready") <=> r.evidence # {}
            /\ r.unresolved = {}
       ELSE r.evidence = {} /\ r.claims = {}
    /\ r.outcome = "cancelled" => r.unresolved = {"cancelled"}
    /\ r.outcome = "failed" => r.unresolved # {}

\* _projection_from_result: a result that cannot be reflected becomes a failed run.
Projection(urls) ==
    IF \/ ~ValidResult \/ EvidenceRefused(urls) \/ ~ValidReflection(Reflection)
       \/ result.status = "completed" /\ ~result.answered
       \/ result.status = "failed" /\ result.reason = "none"
    THEN [state |-> "failed", reflected |-> FALSE]
    ELSE [state |-> result.status, reflected |-> TRUE]
-----------------------------------------------------------------------------
\* Whatever is under its encodings.
Discloses(url) == {url.path.shows, url.query.shows} # {"nothing"}

\* Whichever way a run ended, its events end in the one terminal event that matches its
\* status and the worker stores what the run reports, with a reflection of it; a completed
\* run alone becomes a failed one, exactly when a page that it cites has an address that
\* is not public, discloses a secret below any number of encodings, or cannot be decoded,
\* or when its answer makes more claims than a reflection holds, of which nothing before
\* it takes notice (RunResult, reflect_run, RunReflection, _projection_from_result).
ResultsCanBeReflected ==
    At("over", "begin") =>
        /\ {i \in DOMAIN events : events[i] \in {"run_completed", "run_failed", "run_cancelled"}}
              = {Len(events)}
        /\ events[Len(events)] = Terminal(result.status)
        /\ \A urls \in [result.citations -> EvidenceUrls] :
              LET lost == /\ result.status = "completed"
                          /\ \/ result.claims > 16
                             \/ \E p \in result.citations :
                                   urls[p].origin # "public" \/ Discloses(urls[p])
              IN Projection(urls) = [state |-> IF lost THEN "failed" ELSE result.status,
                                     reflected |-> ~lost]
=============================================================================

----------------------------- MODULE ToolProofs -----------------------------
(***************************************************************************)
(* Theorems of WebSearch, WebFetch, PageBlocks, PageExtraction and         *)
(* Grounding, for any answers of the services, any addresses, words,       *)
(* pages, texts and drafts.                                                *)
(*                                                                         *)
(* Of a search the invariant says how many services were asked and with    *)
(* what outcome, and of a fetch what was checked for every request; of a   *)
(* page which of its text is in its blocks, and what became of the worker  *)
(* that read it; of an answer from which pages each record and each chunk  *)
(* is.  What the folds over a page and its texts compute is unfolded       *)
(* element by element.                                                     *)
(***************************************************************************)
EXTENDS WebSearch, WebFetch, PageExtraction, Grounding, FiniteSetTheorems,
        SequenceTheorems, WellFoundedInduction, TLAPS

\* A set of numbers that is not empty has a least one.
LEMMA LeastNumber ==
    ASSUME NEW S, S \subseteq Nat, S # {}
    PROVE  \E n \in S : \A m \in S : n <= m
<1> DEFINE R == {ss \in Nat \X Nat : ss[1] < ss[2]}
<1>1. IsWellFoundedOn(R, Nat)
    BY NatLessThanWellFounded DEF OpToRel
<1> HIDE DEF R
<1>2. PICK n \in S : \A m \in S : ~(<<m, n>> \in R)
    BY <1>1, WFMin, Zenon
<1>3. \A m \in S : m \in Nat /\ n \in Nat /\ ~(m < n)
    BY <1>2 DEF R
<1> QED BY <1>3

-----------------------------------------------------------------------------
\* Searches.

HitPages == {Canonical(row) : row \in ResultRows}
AttemptOutcomes == Failing \cup {"success", "raw_empty", "all_policy_rejected", "normalized_empty"}

Results == [hits : Seq(HitPages), raw : Nat, invalid : Nat, policy : Nat, duplicate : Nat]

AttemptRecords ==
    [backend : ToSet(Backends), outcome : AttemptOutcomes,
     raw : Nat, accepted : Nat, rejected : Nat]

SearchShape ==
    search \in [at : {"new", "asking", "reading", "swept", "found", "empty", "failed"},
                limit : Nat, sweep : Nat, next : 1..(Len(Backends) + 1),
                attempts : Seq(AttemptRecords), result : Results, hits : Seq(HitPages)]

\* Distinct pages of allowed sites, no more than were asked for.
ReadableHits(hits) ==
    /\ Len(hits) <= search.limit /\ IsInjective(hits)
    /\ \A hit \in ToSet(hits) : SiteAllowed(hit.host) /\ hit.port \in AllowedPorts

\* Every row that was read is a hit or was rejected.
RowsAreCounted ==
    LET r == search.result IN
    /\ r.raw = Len(r.hits) + r.invalid + r.policy + r.duplicate
    /\ r.raw <= RowsPerHit * search.limit
    /\ ReadableHits(r.hits) /\ ReadableHits(search.hits)
    /\ search.at # "reading" => r = NothingRead
    /\ search.at # "found" => search.hits = <<>>

\* How many backends were asked, which of them in this sweep, and with what outcome.
AttemptsAreCounted ==
    /\ search.at = "new" => search.attempts = <<>> /\ search.next = 1
    /\ search.at \notin {"new"} => search.limit \in Limits /\ search.sweep \in 1..Sweeps
    /\ search.at \in {"asking", "reading"} => search.next <= Len(Backends)
    /\ search.at \in {"swept", "empty", "failed"} => search.next = Len(Backends) + 1
    /\ search.at = "failed" => search.sweep = Sweeps /\ AllFailing
    /\ search.at = "empty" => ~AllFailing
    /\ search.at = "found" => search.hits # <<>>
    /\ search.at # "new" =>
           Len(search.attempts) = (search.sweep - 1) * Len(Backends) + search.next - 1
    /\ \A k \in 1..(search.next - 1) :
          \E i \in DOMAIN search.attempts : search.attempts[i].backend = Backends[k]

AttemptsAreSound ==
    \A i \in DOMAIN search.attempts :
        LET a == search.attempts[i] IN
        /\ a.raw = a.accepted + a.rejected /\ a.raw <= RowsPerHit * search.limit
        /\ a.outcome = "success" => search.at = "found"

SearchInv == SearchShape /\ RowsAreCounted /\ AttemptsAreCounted /\ AttemptsAreSound

LEMMA BackendsAreListed ==
    Len(Backends) \in Nat \ {0} /\ \A i \in 1..Len(Backends) : Backends[i] \in ToSet(Backends)
BY SearchAssumption DEF ToSet

LEMMA NothingIsRead == NothingRead \in Results /\ NothingRead.hits = <<>> /\ NothingRead.raw = 0
BY DEF NothingRead, Results

LEMMA SearchStarts == SearchInit => SearchInv
<1> SUFFICES ASSUME SearchInit PROVE SearchInv
    OBVIOUS
<1> USE SearchAssumption, BackendsAreListed, NothingIsRead DEF SearchInit, NoSearch
<1>1. SearchShape
    BY DEF SearchShape
<1>2. RowsAreCounted
    BY DEF RowsAreCounted, ReadableHits, NothingRead, IsInjective, ToSet
<1>3. AttemptsAreCounted
    BY DEF AttemptsAreCounted
<1>4. AttemptsAreSound
    BY DEF AttemptsAreSound
<1> QED BY <1>1, <1>2, <1>3, <1>4 DEF SearchInv

LEMMA NoPageIsReadable == ASSUME search.limit \in Nat PROVE ReadableHits(<<>>)
BY DEF ReadableHits, IsInjective, ToSet

LEMMA OpenKeepsSearch == ASSUME SearchInv, NEW limit \in Limits, OpenSearch(limit) PROVE SearchInv'
<1>1. /\ search.at = "new"
      /\ search' = [search EXCEPT !.at = "asking", !.limit = limit, !.sweep = 1]
    BY DEF OpenSearch
<1>2. /\ search.attempts = <<>> /\ search.result = NothingRead /\ search.hits = <<>>
      /\ search.next \in 1..(Len(Backends) + 1)
    BY <1>1 DEF SearchInv, SearchShape, AttemptsAreCounted, RowsAreCounted
<1>3. search.next = 1
    BY <1>1, <1>2, BackendsAreListed DEF SearchInv, AttemptsAreCounted
<1>4. limit \in Nat \ {0}
    BY SearchAssumption
<1>5. SearchShape'
    BY <1>1, <1>4 DEF SearchInv, SearchShape
<1>6. /\ search'.at = "asking" /\ search'.limit = limit /\ search'.sweep = 1
      /\ search'.attempts = <<>> /\ search'.result = NothingRead /\ search'.hits = <<>>
      /\ search'.next = 1
    BY <1>1, <1>2, <1>3 DEF SearchInv, SearchShape
<1>7. RowsAreCounted'
    BY <1>4, <1>6, SearchAssumption DEF RowsAreCounted, ReadableHits, NothingRead, IsInjective, ToSet
<1>8. AttemptsAreCounted'
    BY <1>6, BackendsAreListed, SearchAssumption DEF AttemptsAreCounted
<1>9. AttemptsAreSound'
    BY <1>6 DEF AttemptsAreSound
<1> QED BY <1>5, <1>7, <1>8, <1>9 DEF SearchInv

\* An attempt more, after which the search asks on, is swept or has found something.
LEMMA TriedKeepsSearch ==
    ASSUME SearchInv, search.at \in {"asking", "reading"},
           NEW read \in Results, NEW outcome \in AttemptOutcomes, NEW hits \in Seq(HitPages), NEW at,
           outcome = "success" => at = "found",
           outcome # "success" => at = IF search.next = Len(Backends) THEN "swept" ELSE "asking",
           search' = [search EXCEPT !.attempts = Append(@, Attempt(outcome, read)),
                                    !.next = @ + 1, !.result = NothingRead, !.at = at,
                                    !.hits = hits],
           outcome = "success" => /\ hits = read.hits /\ hits # <<>> /\ ReadableHits(hits),
           outcome # "success" => hits = <<>>,
           read.raw = Len(read.hits) + read.invalid + read.policy + read.duplicate,
           read.raw <= RowsPerHit * search.limit
    PROVE  SearchInv'
<1> DEFINE attempt == Attempt(outcome, read)
<1>1. /\ search.next \in 1..Len(Backends) /\ search.attempts \in Seq(AttemptRecords)
      /\ search.limit \in Nat /\ search.limit \in Limits /\ search.sweep \in 1..Sweeps
    BY BackendsAreListed DEF SearchInv, SearchShape, AttemptsAreCounted
<1>2. /\ attempt \in AttemptRecords /\ attempt.backend = Backends[search.next]
      /\ attempt.outcome = outcome /\ attempt.raw = read.raw
      /\ attempt.raw = attempt.accepted + attempt.rejected
    <2>1. Backends[search.next] \in ToSet(Backends)
        BY <1>1, BackendsAreListed
    <2>2. /\ read.raw \in Nat /\ Len(read.hits) \in Nat
          /\ read.invalid + read.policy + read.duplicate \in Nat
        BY DEF Results
    <2>3. attempt = [backend |-> Backends[search.next], outcome |-> outcome, raw |-> read.raw,
                     accepted |-> Len(read.hits),
                     rejected |-> read.invalid + read.policy + read.duplicate]
        BY DEF Attempt
    <2>4. /\ attempt.backend = Backends[search.next] /\ attempt.outcome = outcome
          /\ attempt.raw = read.raw /\ attempt.accepted = Len(read.hits)
          /\ attempt.rejected = read.invalid + read.policy + read.duplicate
        BY <2>3
    <2>5. attempt \in AttemptRecords
        BY <2>1, <2>2, <2>3 DEF AttemptRecords
    <2>6. read.raw = Len(read.hits) + (read.invalid + read.policy + read.duplicate)
        BY DEF Results
    <2> QED BY <2>4, <2>5, <2>6
<1> HIDE DEF attempt
<1>3. /\ Append(search.attempts, attempt) \in Seq(AttemptRecords)
      /\ Len(Append(search.attempts, attempt)) = Len(search.attempts) + 1
      /\ Append(search.attempts, attempt)[Len(search.attempts) + 1] = attempt
      /\ \A i \in 1..Len(search.attempts) : Append(search.attempts, attempt)[i] = search.attempts[i]
      /\ Len(search.attempts) \in Nat /\ DOMAIN search.attempts = 1..Len(search.attempts)
    BY <1>1, <1>2
<1>4. /\ search'.at = at /\ search'.limit = search.limit /\ search'.sweep = search.sweep
      /\ search'.next = search.next + 1 /\ search'.result = NothingRead /\ search'.hits = hits
      /\ search'.attempts = Append(search.attempts, attempt)
    BY DEF SearchInv, SearchShape, attempt
<1>5. at \in {"found", "swept", "asking"}
    OBVIOUS
<1>6. SearchShape'
    <2>1. search.next + 1 \in 1..(Len(Backends) + 1)
        BY <1>1, BackendsAreListed
    <2> QED BY <1>3, <1>4, <1>5, <2>1, NothingIsRead DEF SearchInv, SearchShape, attempt
<1>7. RowsAreCounted'
    <2>1. ReadableHits(<<>>) /\ ReadableHits(hits)
        BY <1>1, NoPageIsReadable
    <2>2. ASSUME NEW some, ReadableHits(some) PROVE ReadableHits(some)'
        BY <1>4, <2>2 DEF ReadableHits
    <2>3. ReadableHits(<<>>)' /\ ReadableHits(hits)'
        BY <2>1, <2>2
    <2>4. 0 <= RowsPerHit * search'.limit
        BY <1>1, <1>4, SearchAssumption
    <2>5. at # "found" => hits = <<>>
        OBVIOUS
    <2> HIDE DEF attempt
    <2> QED BY <1>4, <2>3, <2>4, <2>5 DEF RowsAreCounted, NothingRead, ReadableHits
<1>8. AttemptsAreCounted'
    <2>1. Len(search'.attempts) = (search'.sweep - 1) * Len(Backends) + search'.next - 1
        <3>1. Len(search.attempts) = (search.sweep - 1) * Len(Backends) + search.next - 1
            BY DEF SearchInv, AttemptsAreCounted
        <3>2. PICK before \in Int : before = (search.sweep - 1) * Len(Backends)
            BY <1>1, BackendsAreListed, SearchAssumption
        <3>3. /\ Len(search.attempts) = before + search.next - 1
              /\ Len(search'.attempts) = Len(search.attempts) + 1
              /\ (search'.sweep - 1) * Len(Backends) = before /\ search'.next = search.next + 1
            BY <1>3, <1>4, <3>1, <3>2
        <3> QED BY <1>1, <3>2, <3>3
    <2>2. ASSUME NEW k \in 1..(search'.next - 1)
          PROVE  \E i \in DOMAIN search'.attempts : search'.attempts[i].backend = Backends[k]
        <3>1. k \in 1..(search.next - 1) \/ k = search.next
            BY <1>1, <1>4
        <3>2. CASE k = search.next
            <4>1. Len(search.attempts) + 1 \in DOMAIN search'.attempts
                BY <1>3, <1>4
            <4>2. search'.attempts[Len(search.attempts) + 1].backend = Backends[k]
                BY <1>2, <1>3, <1>4, <3>2
            <4> QED BY <4>1, <4>2
        <3>3. CASE k \in 1..(search.next - 1)
            <4>1. PICK i \in 1..Len(search.attempts) : search.attempts[i].backend = Backends[k]
                BY <1>3, <3>3 DEF SearchInv, AttemptsAreCounted
            <4>2. i \in DOMAIN search'.attempts /\ search'.attempts[i] = search.attempts[i]
                BY <1>3, <1>4
            <4> QED BY <4>1, <4>2
        <3> QED BY <3>1, <3>2, <3>3
    <2>3. /\ at = "asking" => search'.next <= Len(Backends)
          /\ at = "swept" => search'.next = Len(Backends) + 1
          /\ at = "found" => search'.hits # <<>>
        BY <1>1, <1>4, BackendsAreListed
    <2> QED BY <1>1, <1>4, <1>5, <2>1, <2>2, <2>3 DEF AttemptsAreCounted
<1>9. AttemptsAreSound'
    <2> SUFFICES ASSUME NEW i \in DOMAIN search'.attempts
                 PROVE  LET a == search'.attempts[i] IN
                        /\ a.raw = a.accepted + a.rejected /\ a.raw <= RowsPerHit * search'.limit
                        /\ a.outcome = "success" => search'.at = "found"
        BY DEF AttemptsAreSound
    <2>1. CASE i = Len(search.attempts) + 1
        BY <1>2, <1>3, <1>4, <2>1
    <2>2. CASE i \in 1..Len(search.attempts)
        <3>1. search'.attempts[i] = search.attempts[i] /\ i \in DOMAIN search.attempts
            BY <1>3, <1>4, <2>2
        <3> QED BY <1>4, <3>1 DEF SearchInv, AttemptsAreSound
    <2> QED BY <1>3, <1>4, <2>1, <2>2
<1> QED BY <1>6, <1>7, <1>8, <1>9 DEF SearchInv

LEMMA UnsuccessfulKeepsSearch ==
    ASSUME SearchInv, search.at \in {"asking", "reading"},
           NEW read \in Results, NEW outcome \in AttemptOutcomes \ {"success"},
           search' = Tried(Attempt(outcome, read)),
           read.raw = Len(read.hits) + read.invalid + read.policy + read.duplicate,
           read.raw <= RowsPerHit * search.limit
    PROVE  SearchInv'
<1>0. PICK at : at = IF search.next = Len(Backends) THEN "swept" ELSE "asking"
    OBVIOUS
<1>1. search' = [search EXCEPT !.attempts = Append(@, Attempt(outcome, read)),
                               !.next = @ + 1, !.result = NothingRead, !.at = at]
    BY <1>0 DEF Tried
<1>2. PICK hits \in Seq(HitPages) : hits = <<>> /\ search.hits = hits
    <2>1. search.hits \in Seq(HitPages)
        BY DEF SearchInv, SearchShape
    <2>2. search.at # "found"
        OBVIOUS
    <2>3. search.hits = <<>>
        BY <2>2 DEF SearchInv, RowsAreCounted
    <2> QED BY <2>1, <2>3
<1>3. search' = [search EXCEPT !.attempts = Append(@, Attempt(outcome, read)),
                               !.next = @ + 1, !.result = NothingRead, !.at = at, !.hits = hits]
    BY <1>1, <1>2 DEF SearchInv, SearchShape
<1>4. outcome # "success" /\ outcome \in AttemptOutcomes
    OBVIOUS
<1> QED BY <1>0, <1>2, <1>3, <1>4, TriedKeepsSearch

LEMMA FailKeepsSearch ==
    ASSUME SearchInv, NEW outcome \in Failing, search.at \in {"asking", "reading"},
           search' = Tried(Attempt(outcome, NothingRead))
    PROVE  SearchInv'
<1>1. NothingRead.raw = Len(NothingRead.hits) + NothingRead.invalid + NothingRead.policy
                        + NothingRead.duplicate
    BY DEF NothingRead
<1>2. NothingRead.raw <= RowsPerHit * search.limit
    <2>1. RowsPerHit \in Nat /\ search.limit \in Nat
        BY SearchAssumption DEF SearchInv, SearchShape
    <2>2. RowsPerHit * search.limit \in Nat
        BY <2>1
    <2> QED BY <2>2, NothingIsRead
<1>3. outcome \in AttemptOutcomes \ {"success"}
    BY DEF AttemptOutcomes, Failing
<1> QED BY <1>1, <1>2, <1>3, NothingIsRead, UnsuccessfulKeepsSearch

LEMMA AnswerKeepsSearch == SearchInv /\ BackendAnswers => SearchInv'
<1> SUFFICES ASSUME SearchInv, BackendAnswers PROVE SearchInv'
    OBVIOUS
<1>1. search.at = "asking" /\ search' = [search EXCEPT !.at = "reading"]
    BY DEF BackendAnswers
<1>2. SearchShape'
    BY <1>1 DEF SearchInv, SearchShape
<1>3. /\ search'.at = "reading" /\ search'.limit = search.limit /\ search'.sweep = search.sweep
      /\ search'.attempts = search.attempts /\ search'.result = search.result
      /\ search'.hits = search.hits /\ search'.next = search.next
    BY <1>1 DEF SearchInv, SearchShape
<1>4. RowsAreCounted'
    BY <1>1, <1>3 DEF SearchInv, RowsAreCounted, ReadableHits
<1>5. AttemptsAreCounted'
    BY <1>1, <1>3 DEF SearchInv, AttemptsAreCounted
<1>6. AttemptsAreSound'
    BY <1>1, <1>3 DEF SearchInv, AttemptsAreSound
<1> QED BY <1>2, <1>4, <1>5, <1>6 DEF SearchInv

\* A row that is accepted is a page that may be read and was not there.
LEMMA ReasonIsOne ==
    ASSUME NEW row
    PROVE  /\ Reason(row) \in {"invalid", "policy", "accepted"}
           /\ Reason(row) = "accepted" => SiteAllowed(row.host) /\ row.port \in AllowedPorts
BY DEF Reason

LEMMA AppendKeepsInjective ==
    ASSUME NEW S, NEW s \in Seq(S), NEW e \in S, IsInjective(s), \A i \in 1..Len(s) : s[i] # e
    PROVE  IsInjective(Append(s, e))
<1>1. /\ Append(s, e) \in Seq(S) /\ DOMAIN Append(s, e) = 1..(Len(s) + 1) /\ Len(s) \in Nat
      /\ Append(s, e)[Len(s) + 1] = e
      /\ \A i \in 1..Len(s) : Append(s, e)[i] = s[i]
    OBVIOUS
<1> SUFFICES ASSUME NEW i \in 1..(Len(s) + 1), NEW j \in 1..(Len(s) + 1),
                    Append(s, e)[i] = Append(s, e)[j]
             PROVE  i = j
    BY <1>1 DEF IsInjective
<1>2. \A k \in 1..(Len(s) + 1) : k = Len(s) + 1 \/ k \in 1..Len(s)
    BY <1>1
<1>3. \A k, m \in 1..Len(s) : s[k] = s[m] => k = m
    BY DEF IsInjective
<1> QED BY <1>1, <1>2, <1>3

LEMMA RowKeepsSearch == ASSUME SearchInv, NEW row \in ResultRows, ReadRow(row) PROVE SearchInv'
<1> DEFINE r == search.result
           read == Canonical(row)
<1>1. /\ search.at = "reading" /\ ~ReadEnough(r, search.limit)
      /\ search' = [search EXCEPT !.result = WithRow(r, row)]
    BY DEF ReadRow
<1>2. /\ r \in Results /\ r.hits \in Seq(HitPages) /\ read \in HitPages /\ search.limit \in Nat
    BY DEF SearchInv, SearchShape, Results, HitPages
<1>3. /\ r.raw \in Nat /\ r.invalid \in Nat /\ r.policy \in Nat /\ r.duplicate \in Nat
      /\ Len(r.hits) \in Nat
    BY <1>2 DEF Results
<1>4. r.raw = Len(r.hits) + r.invalid + r.policy + r.duplicate
    BY <1>1 DEF SearchInv, RowsAreCounted, ReadableHits
<1>5. /\ r.raw + 1 <= RowsPerHit * search.limit /\ Len(r.hits) + 1 <= search.limit
      /\ ReadableHits(r.hits)
    <2>1. RowsPerHit * search.limit \in Nat
        BY <1>2, SearchAssumption
    <2> QED BY <1>1, <1>2, <1>3, <2>1 DEF ReadEnough, SearchInv, RowsAreCounted, ReadableHits
<1>6. read.host = row.host /\ read.port = row.port
    BY DEF Canonical
<1>7. /\ WithRow(r, row) \in Results
      /\ LET n == WithRow(r, row)
         IN /\ n.raw = r.raw + 1
            /\ n.raw = Len(n.hits) + n.invalid + n.policy + n.duplicate
            /\ ReadableHits(n.hits)
    <2> HIDE DEF r, read
    <2>1. CASE Reason(row) = "invalid"
        <3>1. WithRow(r, row) = [[r EXCEPT !.raw = @ + 1] EXCEPT !.invalid = @ + 1]
            BY <2>1 DEF WithRow, r, read
        <3>2. WithRow(r, row) = [hits |-> r.hits, raw |-> r.raw + 1, invalid |-> r.invalid + 1,
                              policy |-> r.policy, duplicate |-> r.duplicate]
            BY <1>2, <3>1 DEF Results
        <3>3. /\ WithRow(r, row).hits = r.hits /\ WithRow(r, row).raw = r.raw + 1
              /\ WithRow(r, row).invalid = r.invalid + 1
              /\ WithRow(r, row).policy = r.policy
              /\ WithRow(r, row).duplicate = r.duplicate
            BY <3>2
        <3>4. r.raw + 1 \in Nat /\ r.invalid + 1 \in Nat
            BY <1>3
        <3>5. WithRow(r, row) \in Results
            BY <1>2, <1>3, <3>2, <3>4 DEF Results
        <3>6. ReadableHits(WithRow(r, row).hits)
            BY <1>5, <3>3 DEF ReadableHits
        <3>7. WithRow(r, row).raw = Len(WithRow(r, row).hits) + WithRow(r, row).invalid
                                    + WithRow(r, row).policy + WithRow(r, row).duplicate
            <4>1. r.raw + 1 = Len(r.hits) + (r.invalid + 1) + r.policy + r.duplicate
                BY <1>3, <1>4
            <4> QED BY <3>3, <4>1
        <3> QED BY <3>3, <3>5, <3>6, <3>7
    <2>2. CASE Reason(row) = "policy"
        <3>1. WithRow(r, row) = [[r EXCEPT !.raw = @ + 1] EXCEPT !.policy = @ + 1]
            BY <2>2 DEF WithRow, r, read
        <3>2. WithRow(r, row) = [hits |-> r.hits, raw |-> r.raw + 1, invalid |-> r.invalid,
                              policy |-> r.policy + 1, duplicate |-> r.duplicate]
            BY <1>2, <3>1 DEF Results
        <3>3. /\ WithRow(r, row).hits = r.hits /\ WithRow(r, row).raw = r.raw + 1
              /\ WithRow(r, row).invalid = r.invalid
              /\ WithRow(r, row).policy = r.policy + 1
              /\ WithRow(r, row).duplicate = r.duplicate
            BY <3>2
        <3>4. r.raw + 1 \in Nat /\ r.policy + 1 \in Nat
            BY <1>3
        <3>5. WithRow(r, row) \in Results
            BY <1>2, <1>3, <3>2, <3>4 DEF Results
        <3>6. ReadableHits(WithRow(r, row).hits)
            BY <1>5, <3>3 DEF ReadableHits
        <3>7. WithRow(r, row).raw = Len(WithRow(r, row).hits) + WithRow(r, row).invalid
                                    + WithRow(r, row).policy + WithRow(r, row).duplicate
            <4>1. r.raw + 1 = Len(r.hits) + r.invalid + (r.policy + 1) + r.duplicate
                BY <1>3, <1>4
            <4> QED BY <3>3, <4>1
        <3> QED BY <3>3, <3>5, <3>6, <3>7
    <2>3. CASE Reason(row) = "accepted" /\ read \in ToSet(r.hits)
        <3>1. WithRow(r, row) = [[r EXCEPT !.raw = @ + 1] EXCEPT !.duplicate = @ + 1]
            BY <2>3 DEF WithRow, r, read
        <3>2. WithRow(r, row) = [hits |-> r.hits, raw |-> r.raw + 1, invalid |-> r.invalid,
                              policy |-> r.policy, duplicate |-> r.duplicate + 1]
            BY <1>2, <3>1 DEF Results
        <3>3. /\ WithRow(r, row).hits = r.hits /\ WithRow(r, row).raw = r.raw + 1
              /\ WithRow(r, row).invalid = r.invalid
              /\ WithRow(r, row).policy = r.policy
              /\ WithRow(r, row).duplicate = r.duplicate + 1
            BY <3>2
        <3>4. r.raw + 1 \in Nat /\ r.duplicate + 1 \in Nat
            BY <1>3
        <3>5. WithRow(r, row) \in Results
            BY <1>2, <1>3, <3>2, <3>4 DEF Results
        <3>6. ReadableHits(WithRow(r, row).hits)
            BY <1>5, <3>3 DEF ReadableHits
        <3>7. WithRow(r, row).raw = Len(WithRow(r, row).hits) + WithRow(r, row).invalid
                                    + WithRow(r, row).policy + WithRow(r, row).duplicate
            <4>1. r.raw + 1 = Len(r.hits) + r.invalid + r.policy + (r.duplicate + 1)
                BY <1>3, <1>4
            <4> QED BY <3>3, <4>1
        <3> QED BY <3>3, <3>5, <3>6, <3>7
    <2>4. CASE Reason(row) = "accepted" /\ read \notin ToSet(r.hits)
        <3>1. WithRow(r, row) = [[r EXCEPT !.raw = @ + 1] EXCEPT !.hits = Append(@, read)]
            BY <2>4 DEF WithRow, r, read
        <3>2. WithRow(r, row) = [hits |-> Append(r.hits, read), raw |-> r.raw + 1,
                              invalid |-> r.invalid, policy |-> r.policy,
                              duplicate |-> r.duplicate]
            BY <1>2, <3>1 DEF Results
        <3>3. /\ Append(r.hits, read) \in Seq(HitPages) /\ Len(Append(r.hits, read)) = Len(r.hits) + 1
              /\ Append(r.hits, read)[Len(r.hits) + 1] = read
              /\ \A i \in 1..Len(r.hits) : Append(r.hits, read)[i] = r.hits[i]
            BY <1>2
        <3>4. ReadableHits(Append(r.hits, read))
            <4>1. \A i \in 1..Len(r.hits) : r.hits[i] # read
                BY <1>2, <2>4 DEF ToSet
            <4>2. IsInjective(Append(r.hits, read))
                BY <1>2, <1>5, <4>1, AppendKeepsInjective DEF ReadableHits
            <4>3. SiteAllowed(read.host) /\ read.port \in AllowedPorts
                BY <1>6, <2>4, ReasonIsOne
            <4>4. ToSet(Append(r.hits, read)) \subseteq ToSet(r.hits) \cup {read}
                BY <1>2, <3>3 DEF ToSet
            <4> QED BY <1>5, <3>3, <4>2, <4>3, <4>4 DEF ReadableHits
        <3> HIDE DEF r, read
        <3>5. /\ WithRow(r, row).raw = r.raw + 1 /\ WithRow(r, row).hits = Append(r.hits, read)
              /\ WithRow(r, row).invalid = r.invalid /\ WithRow(r, row).policy = r.policy
              /\ WithRow(r, row).duplicate = r.duplicate
            BY <3>2
        <3>6. r.raw + 1 \in Nat
            BY <1>3
        <3>7. WithRow(r, row) \in Results
            BY <1>2, <1>3, <3>2, <3>3, <3>6 DEF Results
        <3>8. WithRow(r, row).raw = Len(WithRow(r, row).hits) + WithRow(r, row).invalid
                                    + WithRow(r, row).policy + WithRow(r, row).duplicate
            <4>1. r.raw + 1 = Len(r.hits) + 1 + r.invalid + r.policy + r.duplicate
                BY <1>3, <1>4
            <4> QED BY <3>3, <3>5, <4>1
        <3>9. ReadableHits(WithRow(r, row).hits)
            BY <3>4, <3>5
        <3> QED BY <3>5, <3>7, <3>8, <3>9
    <2> QED BY <2>1, <2>2, <2>3, <2>4, ReasonIsOne
<1> HIDE DEF r, read
<1>8. SearchShape'
    BY <1>1, <1>7 DEF SearchInv, SearchShape
<1>9. /\ search'.at = "reading" /\ search'.limit = search.limit /\ search'.sweep = search.sweep
      /\ search'.attempts = search.attempts /\ search'.result = WithRow(r, row)
      /\ search'.hits = search.hits /\ search'.next = search.next
    BY <1>1 DEF SearchInv, SearchShape
<1>10. RowsAreCounted'
    BY <1>1, <1>2, <1>3, <1>5, <1>7, <1>9 DEF SearchInv, RowsAreCounted, ReadableHits
<1>11. AttemptsAreCounted'
    BY <1>1, <1>9 DEF SearchInv, AttemptsAreCounted
<1>12. AttemptsAreSound'
    BY <1>1, <1>9 DEF SearchInv, AttemptsAreSound
<1> QED BY <1>8, <1>10, <1>11, <1>12 DEF SearchInv

LEMMA EndRowsKeepsSearch == SearchInv /\ EndRows => SearchInv'
<1> SUFFICES ASSUME SearchInv, EndRows PROVE SearchInv'
    OBVIOUS
<1>0. PICK r : r = search.result
    OBVIOUS
<1> DEFINE outcome == OutcomeOf(r)
           tried == Tried(Attempt(outcome, r))
<1>1. /\ search.at = "reading"
      /\ search' = IF outcome = "success" THEN [tried EXCEPT !.at = "found", !.hits = r.hits]
                   ELSE tried
    BY <1>0 DEF EndRows
<1>2. /\ r \in Results /\ r.hits \in Seq(HitPages) /\ ReadableHits(r.hits)
      /\ r.raw = Len(r.hits) + r.invalid + r.policy + r.duplicate
      /\ r.raw <= RowsPerHit * search.limit
    BY <1>0 DEF SearchInv, SearchShape, Results, RowsAreCounted
<1>3. /\ outcome \in AttemptOutcomes
      /\ outcome = "success" => r.hits # <<>>
    BY DEF OutcomeOf, AttemptOutcomes
<1> HIDE DEF outcome
<1>4. CASE outcome = "success"
    <2>1. search' = [search EXCEPT !.attempts = Append(@, Attempt(outcome, r)),
                                   !.next = @ + 1, !.result = NothingRead, !.at = "found",
                                   !.hits = r.hits]
        BY <1>1, <1>4 DEF Tried
    <2> QED BY <1>1, <1>2, <1>3, <1>4, <2>1, TriedKeepsSearch
<1>5. CASE outcome # "success"
    BY <1>1, <1>2, <1>3, <1>5, UnsuccessfulKeepsSearch
<1> QED BY <1>4, <1>5

LEMMA EndSweepKeepsSearch == SearchInv /\ EndSweep => SearchInv'
<1> SUFFICES ASSUME SearchInv, EndSweep PROVE SearchInv'
    OBVIOUS
<1>1. /\ search.at = "swept" /\ search.next = Len(Backends) + 1 /\ search.sweep \in 1..Sweeps
      /\ Len(search.attempts) = (search.sweep - 1) * Len(Backends) + search.next - 1
      /\ search.result = NothingRead /\ search.hits = <<>> /\ search.limit \in Limits
    BY DEF EndSweep, SearchInv, RowsAreCounted, AttemptsAreCounted
<1>2. \/ AllFailing /\ search.sweep < Sweeps
         /\ search' = [search EXCEPT !.at = "asking", !.sweep = @ + 1, !.next = 1]
      \/ AllFailing /\ search.sweep = Sweeps /\ search' = [search EXCEPT !.at = "failed"]
      \/ ~AllFailing /\ search' = [search EXCEPT !.at = "empty"]
    <2>1. search.sweep < Sweeps \/ search.sweep = Sweeps
        BY <1>1, SearchAssumption
    <2> QED BY <2>1 DEF EndSweep
<1>3. CASE AllFailing /\ search.sweep < Sweeps
           /\ search' = [search EXCEPT !.at = "asking", !.sweep = @ + 1, !.next = 1]
    <2>1. SearchShape'
        <3>1. search.sweep + 1 \in Nat /\ 1 \in 1..(Len(Backends) + 1)
            BY <1>1, BackendsAreListed, SearchAssumption
        <3> QED BY <1>3, <3>1 DEF SearchInv, SearchShape
    <2>2. /\ search'.at = "asking" /\ search'.limit = search.limit
          /\ search'.sweep = search.sweep + 1 /\ search'.next = 1
          /\ search'.attempts = search.attempts /\ search'.result = search.result
          /\ search'.hits = search.hits
        BY <1>3 DEF SearchInv, SearchShape
    <2>3. RowsAreCounted'
        BY <1>1, <2>2 DEF SearchInv, RowsAreCounted, ReadableHits
    <2>4. Len(search.attempts) = search.sweep * Len(Backends)
        BY <1>1, BackendsAreListed, SearchAssumption
    <2>5. Len(search'.attempts) = (search'.sweep - 1) * Len(Backends) + search'.next - 1
        <3>1. search'.sweep - 1 = search.sweep /\ search'.next - 1 = 0
            BY <1>1, <2>2, SearchAssumption
        <3>2. search.sweep * Len(Backends) \in Int
            BY <1>1, BackendsAreListed, SearchAssumption
        <3> QED BY <2>2, <2>4, <3>1, <3>2
    <2>6. AttemptsAreCounted'
        BY <1>1, <1>3, <2>2, <2>5, BackendsAreListed, SearchAssumption DEF AttemptsAreCounted
    <2>7. AttemptsAreSound'
        BY <1>1, <2>2 DEF SearchInv, AttemptsAreSound
    <2> QED BY <2>1, <2>3, <2>6, <2>7 DEF SearchInv
<1>4. ASSUME NEW at \in {"failed", "empty"}, search' = [search EXCEPT !.at = at],
             at = "failed" => AllFailing /\ search.sweep = Sweeps, at = "empty" => ~AllFailing
      PROVE  SearchInv'
    <2>1. SearchShape'
        BY <1>4 DEF SearchInv, SearchShape
    <2>2. /\ search'.at = at /\ search'.limit = search.limit
          /\ search'.sweep = search.sweep /\ search'.next = search.next
          /\ search'.attempts = search.attempts /\ search'.result = search.result
          /\ search'.hits = search.hits
        BY <1>4 DEF SearchInv, SearchShape
    <2>3. RowsAreCounted'
        BY <1>1, <2>2 DEF SearchInv, RowsAreCounted, ReadableHits
    <2>4. AllFailing' <=> AllFailing
        BY <2>2 DEF AllFailing
    <2>5. AttemptsAreCounted'
        BY <1>1, <1>4, <2>2, <2>4 DEF SearchInv, AttemptsAreCounted
    <2>6. AttemptsAreSound'
        BY <1>1, <2>2 DEF SearchInv, AttemptsAreSound
    <2> QED BY <2>1, <2>3, <2>5, <2>6 DEF SearchInv
<1> QED BY <1>2, <1>3, <1>4

LEMMA SearchInvIsHonest == SearchInv => SearchIsHonest
<1> SUFFICES ASSUME SearchInv PROVE SearchIsHonest
    OBVIOUS
<1> DEFINE outcomes == {search.attempts[i].outcome : i \in DOMAIN search.attempts}
<1>1. search.at = "failed" => /\ outcomes \subseteq Failing
                              /\ Len(search.attempts) = Sweeps * Len(Backends)
    <2> SUFFICES ASSUME search.at = "failed"
                 PROVE  outcomes \subseteq Failing /\ Len(search.attempts) = Sweeps * Len(Backends)
        OBVIOUS
    <2>1. AllFailing /\ Len(search.attempts) = (Sweeps - 1) * Len(Backends) + Len(Backends) + 1 - 1
        BY DEF SearchInv, AttemptsAreCounted
    <2>2. Len(search.attempts) = Sweeps * Len(Backends)
        BY <2>1, BackendsAreListed, SearchAssumption
    <2> QED BY <2>1, <2>2 DEF AllFailing
<1>2. search.at = "empty" => /\ outcomes \ Failing # {}
                             /\ "success" \notin outcomes
                             /\ \A b \in ToSet(Backends) :
                                   \E i \in DOMAIN search.attempts : search.attempts[i].backend = b
    <2> SUFFICES ASSUME search.at = "empty"
                 PROVE  /\ outcomes \ Failing # {}
                        /\ "success" \notin outcomes
                        /\ \A b \in ToSet(Backends) :
                              \E i \in DOMAIN search.attempts : search.attempts[i].backend = b
        OBVIOUS
    <2>1. outcomes \ Failing # {}
        BY DEF SearchInv, AttemptsAreCounted, AllFailing
    <2>2. "success" \notin outcomes
        BY DEF SearchInv, AttemptsAreSound
    <2>3. \A k \in 1..Len(Backends) :
             \E i \in DOMAIN search.attempts : search.attempts[i].backend = Backends[k]
        BY BackendsAreListed DEF SearchInv, AttemptsAreCounted
    <2>4. \A b \in ToSet(Backends) : \E k \in 1..Len(Backends) : b = Backends[k]
        BY SearchAssumption DEF ToSet
    <2> QED BY <2>1, <2>2, <2>3, <2>4
<1>3. search.at = "found" => Len(search.hits) \in 1..search.limit
    BY DEF SearchInv, SearchShape, RowsAreCounted, AttemptsAreCounted, ReadableHits
<1>4. /\ IsInjective(search.hits)
      /\ \A hit \in ToSet(search.hits) : SiteAllowed(hit.host) /\ hit.port \in AllowedPorts
    BY DEF SearchInv, RowsAreCounted, ReadableHits
<1>5. \A i \in DOMAIN search.attempts :
          LET a == search.attempts[i]
          IN a.raw = a.accepted + a.rejected /\ a.raw <= RowsPerHit * search.limit
    BY DEF SearchInv, AttemptsAreSound
<1> QED BY <1>1, <1>2, <1>3, <1>4, <1>5 DEF SearchIsHonest

(***************************************************************************)
(* A search never tells a failure of its services from an empty read     *)
(* wrongly, and returns distinct pages of allowed sites only, for any      *)
(* services and answers, any number of backends, sweeps and rows.          *)
(***************************************************************************)
THEOREM SearchesStayHonest == SearchSpec => []SearchIsHonest
<1>1. SearchInv /\ [SearchNext]_search => SearchInv'
    <2> SUFFICES ASSUME SearchInv, [SearchNext]_search PROVE SearchInv'
        OBVIOUS
    <2>1. CASE UNCHANGED search
        BY <2>1 DEF SearchInv, SearchShape, RowsAreCounted, AttemptsAreCounted, AttemptsAreSound,
                    ReadableHits, AllFailing
    <2>2. ASSUME NEW limit \in Limits, OpenSearch(limit) PROVE SearchInv'
        BY <2>2, OpenKeepsSearch
    <2>3. ASSUME NEW outcome \in Failing, BackendFails(outcome) PROVE SearchInv'
        BY <2>3, FailKeepsSearch DEF BackendFails
    <2>4. ASSUME NEW row \in ResultRows, ReadRow(row) PROVE SearchInv'
        BY <2>4, RowKeepsSearch
    <2>5. CASE RowRaises
        <3>1. "invalid" \in Failing
            BY DEF Failing
        <3> QED BY <2>5, <3>1, FailKeepsSearch DEF RowRaises
    <2> QED BY <2>1, <2>2, <2>3, <2>4, <2>5, AnswerKeepsSearch, EndRowsKeepsSearch,
               EndSweepKeepsSearch DEF SearchNext
<1> QED BY <1>1, SearchStarts, SearchInvIsHonest, PTL DEF SearchSpec

-----------------------------------------------------------------------------
\* Fetches.

OpenSteps == {"redirect", "success", "other", "reading", "closing"}
FetchSteps == {"new", "checking", "sending"} \cup OpenSteps \cup Over

FetchReasons ==
    {"none", "too_many_redirects", "malformed_redirect", "policy_rejected", "http_status",
     "content_type", "content_too_large", "empty_content", "timeout", "invalid_response",
     "network_error", "cancelled"}

FetchCalls ==
    [at : FetchSteps, redirects : 0..(MaxRedirects + 1), url : Urls \cup {NoUrl},
     answer : SUBSET Addresses, open : BOOLEAN, target : Urls \cup {NoUrl},
     encoded : BOOLEAN, raw : Nat, pending : Nat, held : Nat, body : Nat, why : FetchReasons]

Hops == [url : Urls \cup {NoUrl}, answer : SUBSET Addresses, peer : Addresses]

FetchShape == fetch \in FetchCalls /\ contacted \in Seq(Hops)

\* What a request may be sent for, and to one of which addresses.
CheckedFor(url, answer) ==
    /\ answer # {} /\ Vetted(answer)
    /\ SiteAllowed(url.host) /\ url.port \in AllowedPorts
    /\ IsLiteral(url.host) => answer = {Head(url.host)}
    /\ ~Covered(url.host, LocalDomains)

HopsAreChecked ==
    \A i \in DOMAIN contacted : /\ CheckedFor(contacted[i].url, contacted[i].answer)
                                /\ contacted[i].peer \in contacted[i].answer

\* What a call at a step has sent, checked and read.
HopsAreCounted ==
    /\ Len(contacted) <= MaxRedirects + 1
    /\ fetch.at \in {"new", "checking", "sending"} => Len(contacted) = fetch.redirects
    /\ fetch.at = "sending" => fetch.redirects <= MaxRedirects /\ CheckedFor(fetch.url, fetch.answer)
    /\ fetch.at \in OpenSteps => /\ Len(contacted) = fetch.redirects + 1
                                 /\ contacted[Len(contacted)].url = fetch.url
    /\ fetch.open <=> fetch.at \in OpenSteps

BodyIsBounded ==
    /\ fetch.raw <= MaxBytes /\ fetch.body <= MaxBytes /\ fetch.held <= MaxBytes + 1
    /\ fetch.at \in {"new", "checking", "sending", "redirect", "success", "other"} =>
           fetch.why = "none" /\ fetch.body = 0 /\ fetch.raw = 0 /\ fetch.pending = 0
    /\ fetch.at = "reading" =>
           /\ fetch.why = "none"
           /\ ~fetch.encoded => fetch.body = fetch.raw /\ fetch.pending = 0
    /\ fetch.at = "closing" /\ fetch.why = "none" /\ fetch.body = 0 =>
           fetch.raw = 0 /\ fetch.pending = 0
    /\ fetch.at = "document" => /\ fetch.body > 0 /\ fetch.why = "none"
                                /\ fetch.url = contacted[Len(contacted)].url

FetchInv == FetchShape /\ HopsAreChecked /\ HopsAreCounted /\ BodyIsBounded

LEMMA FetchStarts == FetchInit => FetchInv
<1> SUFFICES ASSUME FetchInit PROVE FetchInv
    OBVIOUS
<1> USE FetchAssumption, PolicyAssumption DEF FetchInit, FetchIdle
<1>1. FetchShape
    BY DEF FetchShape, FetchCalls, Hops, FetchSteps, OpenSteps, Over, FetchReasons
<1>2. HopsAreChecked
    BY DEF HopsAreChecked
<1>3. HopsAreCounted
    BY DEF HopsAreCounted, OpenSteps
<1>4. BodyIsBounded
    BY DEF BodyIsBounded
<1> QED BY <1>1, <1>2, <1>3, <1>4 DEF FetchInv

\* A step that sends nothing keeps what was sent as it was.
LEMMA HopsStay == ASSUME HopsAreChecked, UNCHANGED contacted PROVE HopsAreChecked'
BY DEF HopsAreChecked

\* A call that fails closes what is open first.
LEMMA FailKeepsInv ==
    ASSUME FetchInv, NEW why \in FetchReasons \ {"none"}, fetch' = Fail(why), UNCHANGED contacted,
           fetch.at \in FetchSteps \ Over
    PROVE  FetchInv'
<1>1. fetch' = [fetch EXCEPT !.at = IF fetch.open THEN "closing" ELSE "failed", !.why = why]
    BY DEF Fail
<1>2. /\ fetch'.at = IF fetch.open THEN "closing" ELSE "failed"
      /\ fetch'.redirects = fetch.redirects
      /\ fetch'.url = fetch.url /\ fetch'.open = fetch.open /\ fetch'.raw = fetch.raw
      /\ fetch'.body = fetch.body /\ fetch'.held = fetch.held /\ fetch'.pending = fetch.pending
    BY <1>1 DEF FetchInv, FetchShape, FetchCalls, Hops
<1>3. fetch'.why = why
    BY <1>1 DEF FetchInv, FetchShape, FetchCalls
<1>4. FetchShape'
    BY <1>1 DEF FetchInv, FetchShape, FetchCalls, Hops, FetchSteps, OpenSteps, Over
<1>5. HopsAreCounted'
    BY <1>2 DEF FetchInv, FetchShape, FetchCalls, Hops, HopsAreCounted, OpenSteps, FetchSteps, Over
<1>6. BodyIsBounded'
    BY <1>2, <1>3 DEF FetchInv, BodyIsBounded
<1> QED BY <1>4, <1>5, <1>6, HopsStay DEF FetchInv

LEMMA GuardKeepsInv == ASSUME FetchInv, NEW url \in Urls, Guard(url) PROVE FetchInv'
<1>1. PICK resolved \in SUBSET Addresses :
         LET answer == IF IsLiteral(url.host) THEN {Head(url.host)} ELSE resolved IN
         fetch' = CASE Refusal(url) # "none" -> PolicyFailure(Refusal(url))
                        [] Refusal(url) = "none" /\ (answer = {} \/ ~Vetted(answer)) ->
                              PolicyFailure("rejected")
                        [] Refusal(url) = "none" /\ answer # {} /\ Vetted(answer) ->
                              [fetch EXCEPT !.at = "sending", !.url = url, !.answer = answer]
    BY DEF Guard
<1> DEFINE answer == IF IsLiteral(url.host) THEN {Head(url.host)} ELSE resolved
<1>2. fetch.at = "checking" /\ UNCHANGED contacted
    BY DEF Guard
<1>3. Refusal(url) \in {"redirects", "malformed", "rejected", "none"}
    <2>1. fetch.redirects > MaxRedirects \/ fetch.redirects <= MaxRedirects
        BY PolicyAssumption DEF FetchInv, FetchShape, FetchCalls, Hops
    <2> QED BY <2>1 DEF Refusal
<1>4. CASE Refusal(url) # "none"
    <2>1. PolicyReason(Refusal(url)) \in FetchReasons \ {"none"}
        BY DEF PolicyReason, FetchReasons
    <2>2. fetch' = Fail(PolicyReason(Refusal(url)))
        BY <1>1, <1>4 DEF PolicyFailure
    <2> QED BY <1>2, <2>1, <2>2, FailKeepsInv DEF FetchSteps, OpenSteps, Over, FetchReasons
<1>5. CASE Refusal(url) = "none" /\ (answer = {} \/ ~Vetted(answer))
    <2>1. PolicyReason("rejected") \in FetchReasons \ {"none"}
        BY DEF PolicyReason, FetchReasons
    <2>2. fetch' = Fail(PolicyReason("rejected"))
        BY <1>1, <1>5 DEF PolicyFailure
    <2> QED BY <1>2, <2>1, <2>2, FailKeepsInv DEF FetchSteps, OpenSteps, Over, FetchReasons
<1>6. CASE Refusal(url) = "none" /\ answer # {} /\ Vetted(answer)
    <2> HIDE DEF answer
    <2>1. fetch' = [fetch EXCEPT !.at = "sending", !.url = url, !.answer = answer]
        BY <1>1, <1>6 DEF answer
    <2>2. /\ fetch.redirects <= MaxRedirects
          /\ url.port \in AllowedPorts /\ SiteAllowed(url.host)
          /\ IsLiteral(url.host) \/ ~Covered(url.host, LocalDomains)
        <3>1. fetch.redirects > MaxRedirects \/ fetch.redirects <= MaxRedirects
            BY PolicyAssumption DEF FetchInv, FetchShape, FetchCalls, Hops
        <3> QED BY <1>6, <3>1 DEF Refusal
    <2>3. IsLiteral(url.host) => answer = {Head(url.host)} /\ answer \subseteq Addresses
        BY DEF answer, IsLiteral
    <2>4. answer \subseteq Addresses
        BY <2>3 DEF answer
    <2>5. IsLiteral(url.host) => ~Covered(url.host, LocalDomains)
        <3> SUFFICES ASSUME IsLiteral(url.host), NEW rule \in LocalDomains,
                            IsPrefix(rule, url.host)
                     PROVE  FALSE
            BY DEF Covered
        <3> QED BY PolicyAssumption DEF IsLiteral, IsPrefix
    <2>6. CheckedFor(url, answer)
        BY <1>6, <2>2, <2>3, <2>5 DEF CheckedFor
    <2>7. FetchShape'
        BY <1>2, <2>1, <2>4 DEF FetchInv, FetchShape, FetchCalls, Hops, FetchSteps
    <2>8. /\ fetch'.at = "sending" /\ fetch'.redirects = fetch.redirects /\ fetch'.url = url
          /\ fetch'.answer = answer /\ fetch'.open = fetch.open /\ fetch'.why = fetch.why
          /\ fetch'.raw = fetch.raw /\ fetch'.body = fetch.body /\ fetch'.held = fetch.held
          /\ fetch'.pending = fetch.pending
        BY <2>1 DEF FetchInv, FetchShape, FetchCalls, Hops
    <2>9. HopsAreCounted'
        BY <1>2, <2>2, <2>6, <2>8
           DEF FetchInv, HopsAreCounted, OpenSteps, CheckedFor, Vetted, IsPublic
    <2>10. BodyIsBounded'
        BY <1>2, <2>8 DEF FetchInv, BodyIsBounded
    <2> QED BY <1>2, <2>7, <2>9, <2>10, HopsStay DEF FetchInv
<1> QED BY <1>4, <1>5, <1>6

LEMMA PeerIsOfTheAnswer ==
    ASSUME NEW answer \in SUBSET Addresses, answer # {} PROVE Peer(answer) \in answer
<1>1. \E a \in answer : \A b \in answer : a <= b
    BY PolicyAssumption, LeastNumber
<1> QED BY <1>1 DEF Peer, Min

LEMMA SendKeepsInv == FetchInv /\ Send => FetchInv'
<1> SUFFICES ASSUME FetchInv, Send PROVE FetchInv'
    OBVIOUS
<1> DEFINE hop == [url |-> fetch.url, answer |-> fetch.answer, peer |-> Peer(fetch.answer)]
<1>1. /\ fetch.at = "sending" /\ contacted' = Append(contacted, hop)
      /\ \/ \E why \in {"timeout", "invalid_response", "network_error"} : fetch' = Fail(why)
         \/ \E status \in {"redirect", "success", "other"} :
               fetch' = [fetch EXCEPT !.at = status, !.open = TRUE]
    BY DEF Send
<1>2. CheckedFor(fetch.url, fetch.answer) /\ Peer(fetch.answer) \in fetch.answer
    BY <1>1, PeerIsOfTheAnswer DEF FetchInv, FetchShape, FetchCalls, Hops, HopsAreCounted, CheckedFor
<1>3. hop \in Hops
    BY <1>2 DEF FetchInv, FetchShape, FetchCalls, Hops
<1>4. /\ contacted' \in Seq(Hops)
      /\ Len(contacted') = Len(contacted) + 1 /\ contacted'[Len(contacted')] = hop
      /\ \A i \in DOMAIN contacted' :
            contacted'[i] = hop \/ (i \in DOMAIN contacted /\ contacted'[i] = contacted[i])
    <2> HIDE DEF hop
    <2> QED BY <1>1, <1>3 DEF FetchInv, FetchShape, FetchCalls, Hops
<1>5. HopsAreChecked'
    BY <1>2, <1>4 DEF FetchInv, HopsAreChecked
<1>6. /\ fetch'.redirects = fetch.redirects /\ fetch'.url = fetch.url
      /\ fetch'.raw = fetch.raw /\ fetch'.body = fetch.body /\ fetch'.held = fetch.held
      /\ fetch'.pending = fetch.pending
      /\ \/ fetch'.at = "failed" /\ ~fetch'.open
         \/ /\ fetch'.at \in {"redirect", "success", "other"} /\ fetch'.open
            /\ fetch'.why = fetch.why
      /\ FetchShape'
    <2>1. ~fetch.open
        BY <1>1 DEF FetchInv, HopsAreCounted, OpenSteps
    <2>2. CASE \E why \in {"timeout", "invalid_response", "network_error"} : fetch' = Fail(why)
        <3>1. PICK why \in FetchReasons : fetch' = [fetch EXCEPT !.at = "failed", !.why = why]
            BY <2>1, <2>2 DEF Fail, FetchReasons
        <3> QED BY <1>4, <2>1, <3>1 DEF FetchInv, FetchShape, FetchCalls, Hops, FetchSteps, Over
    <2>3. CASE \E status \in {"redirect", "success", "other"} :
                  fetch' = [fetch EXCEPT !.at = status, !.open = TRUE]
        BY <1>4, <2>3 DEF FetchInv, FetchShape, FetchCalls, Hops, FetchSteps, OpenSteps
    <2> QED BY <1>1, <2>2, <2>3
<1>7. HopsAreCounted'
    <2>1. Len(contacted) = fetch.redirects /\ fetch.redirects \in 0..MaxRedirects
        BY <1>1 DEF FetchInv, FetchShape, FetchCalls, Hops, HopsAreCounted
    <2>2. Len(contacted') = fetch'.redirects + 1 /\ Len(contacted') <= MaxRedirects + 1
        BY <1>4, <1>6, <2>1, PolicyAssumption
    <2>3. contacted'[Len(contacted')].url = fetch'.url
        BY <1>4, <1>6
    <2> QED BY <1>6, <2>2, <2>3 DEF HopsAreCounted, OpenSteps
<1>8. BodyIsBounded'
    BY <1>1, <1>6 DEF FetchInv, BodyIsBounded
<1> QED BY <1>5, <1>6, <1>7, <1>8 DEF FetchInv

\* A step of an open call that sends nothing, to another step of it.
LEMMA OpenKeepsInv ==
    ASSUME FetchInv, FetchShape', UNCHANGED contacted, fetch.at \in OpenSteps,
           fetch'.at \in OpenSteps, fetch'.open = fetch.open, fetch'.url = fetch.url,
           fetch'.redirects = fetch.redirects, BodyIsBounded'
    PROVE  FetchInv'
<1>1. HopsAreCounted'
    BY DEF FetchInv, FetchShape, FetchCalls, Hops, HopsAreCounted, OpenSteps
<1> QED BY <1>1, HopsStay DEF FetchInv

LEMMA RedirectKeepsInv == FetchInv /\ Redirect => FetchInv'
<1> SUFFICES ASSUME FetchInv, Redirect PROVE FetchInv'
    OBVIOUS
<1>1. fetch.at = "redirect" /\ UNCHANGED contacted
    BY DEF Redirect
<1>2. CASE fetch' = Fail("malformed_redirect")
    BY <1>1, <1>2, FailKeepsInv DEF FetchSteps, OpenSteps, Over, FetchReasons
<1>3. ASSUME NEW url \in Urls, fetch' = [fetch EXCEPT !.at = "closing", !.target = url]
      PROVE  FetchInv'
    <2>1. FetchShape' /\ fetch'.at = "closing"
        BY <1>1, <1>3 DEF FetchInv, FetchShape, FetchCalls, Hops, FetchSteps, OpenSteps
    <2>2. BodyIsBounded'
        BY <1>1, <1>3, <2>1 DEF FetchInv, FetchShape, FetchCalls, Hops, BodyIsBounded
    <2> QED BY <1>1, <1>3, <2>1, <2>2, OpenKeepsInv DEF FetchInv, FetchShape, FetchCalls, Hops, OpenSteps
<1> QED BY <1>2, <1>3 DEF Redirect

LEMMA HeadersKeepInv == FetchInv /\ Headers => FetchInv'
<1> SUFFICES ASSUME FetchInv, Headers PROVE FetchInv'
    OBVIOUS
<1>1. fetch.at \in {"other", "success"} /\ UNCHANGED contacted
    BY DEF Headers
<1>2. ASSUME NEW why \in FetchReasons \ {"none"}, fetch' = Fail(why) PROVE FetchInv'
    BY <1>1, <1>2, FailKeepsInv DEF FetchSteps, OpenSteps, Over, FetchReasons
<1>3. ASSUME NEW encoded \in BOOLEAN, fetch' = [fetch EXCEPT !.at = "reading", !.encoded = encoded]
      PROVE  FetchInv'
    <2>1. FetchShape' /\ fetch'.at = "reading"
        BY <1>1, <1>3 DEF FetchInv, FetchShape, FetchCalls, Hops, FetchSteps, OpenSteps
    <2>2. BodyIsBounded'
        BY <1>1, <1>3, <2>1 DEF FetchInv, FetchShape, FetchCalls, Hops, BodyIsBounded
    <2> QED BY <1>1, <1>3, <2>1, <2>2, OpenKeepsInv DEF FetchInv, FetchShape, FetchCalls, Hops, OpenSteps
<1> QED BY <1>2, <1>3 DEF Headers, FetchReasons

\* What is kept of a body never exceeds its limit, and what was held by one byte at most.
LEMMA KeepIsBounded ==
    ASSUME FetchInv, fetch.at = "reading", UNCHANGED contacted,
           NEW raw \in 0..MaxBytes, NEW pending \in Nat, NEW n \in Nat,
           fetch.body + n <= MaxBytes + 1, fetch.encoded \/ (fetch.body + n = raw /\ pending = 0),
           fetch' = Keep([fetch EXCEPT !.raw = raw, !.pending = pending], n)
    PROVE  FetchInv'
<1> DEFINE f == [fetch EXCEPT !.raw = raw, !.pending = pending]
<1>1. /\ f \in FetchCalls
      /\ f.at = "reading" /\ f.raw = raw /\ f.body = fetch.body /\ f.url = fetch.url
      /\ f.open = fetch.open /\ f.redirects = fetch.redirects /\ f.why = fetch.why
      /\ f.encoded = fetch.encoded /\ f.pending = pending
      /\ fetch.body \in Nat
    <2>1. raw \in Nat /\ fetch.encoded \in BOOLEAN
        BY FetchAssumption DEF FetchInv, FetchShape, FetchCalls, Hops
    <2> QED BY <2>1 DEF FetchInv, FetchShape, FetchCalls, Hops
<1> HIDE DEF f
<1>2. fetch' = Keep(f, n)
    BY DEF f
<1>3. f.body + n \in Nat
    BY <1>1
<1>4. /\ FetchShape' /\ fetch'.at \in {"reading", "closing"} /\ fetch'.open = fetch.open
      /\ fetch'.url = fetch.url /\ fetch'.redirects = fetch.redirects
      /\ fetch'.raw = raw /\ fetch'.held = fetch.body + n /\ fetch'.body <= MaxBytes
      /\ fetch'.at = "reading" =>
             /\ fetch'.why = fetch.why /\ fetch'.encoded = fetch.encoded
             /\ fetch'.body = fetch.body + n /\ fetch'.pending = pending
      /\ fetch'.at = "closing" => fetch'.why = "content_too_large"
    <2>1. CASE fetch.body + n > MaxBytes
        <3>1. fetch' = [f EXCEPT !.at = "closing", !.why = "content_too_large",
                                 !.held = f.body + n]
            BY <1>1, <1>2, <2>1 DEF Keep
        <3>2. /\ fetch' \in FetchCalls /\ fetch'.at = "closing"
              /\ fetch'.why = "content_too_large" /\ fetch'.held = f.body + n
              /\ fetch'.open = f.open /\ fetch'.url = f.url /\ fetch'.redirects = f.redirects
              /\ fetch'.raw = f.raw /\ fetch'.body = f.body
            BY <1>1, <1>3, <3>1 DEF FetchCalls, FetchSteps, OpenSteps, FetchReasons
        <3>3. FetchShape' /\ fetch.body <= MaxBytes
            BY <3>2 DEF FetchInv, FetchShape, BodyIsBounded
        <3> QED BY <1>1, <3>2, <3>3
    <2>2. CASE ~(fetch.body + n > MaxBytes)
        <3>1. fetch' = [f EXCEPT !.held = f.body + n, !.body = f.body + n]
            BY <1>1, <1>2, <2>2 DEF Keep
        <3>2. fetch.body + n <= MaxBytes
            BY <1>1, <2>2, FetchAssumption
        <3>3. /\ fetch' \in FetchCalls /\ fetch'.at = f.at /\ fetch'.why = f.why
              /\ fetch'.encoded = f.encoded /\ fetch'.held = f.body + n /\ fetch'.open = f.open
              /\ fetch'.url = f.url /\ fetch'.redirects = f.redirects /\ fetch'.raw = f.raw
              /\ fetch'.body = f.body + n /\ fetch'.pending = f.pending
            BY <1>1, <1>3, <3>1 DEF FetchCalls
        <3>4. FetchShape'
            BY <3>3 DEF FetchInv, FetchShape
        <3> QED BY <1>1, <3>2, <3>3, <3>4
    <2> QED BY <2>1, <2>2
<1>5. BodyIsBounded'
    BY <1>1, <1>4 DEF FetchInv, BodyIsBounded
<1> QED BY <1>4, <1>5, OpenKeepsInv DEF OpenSteps

LEMMA ReadPieceKeepsInv == FetchInv /\ ReadPiece => FetchInv'
<1> SUFFICES ASSUME FetchInv, ReadPiece PROVE FetchInv'
    OBVIOUS
<1>1. fetch.at = "reading" /\ fetch.pending = 0 /\ UNCHANGED contacted
    BY DEF ReadPiece
<1>2. ASSUME NEW why \in FetchReasons \ {"none"}, fetch' = Fail(why) PROVE FetchInv'
    BY <1>1, <1>2, FailKeepsInv DEF FetchSteps, OpenSteps, Over, FetchReasons
<1>3. ASSUME NEW size \in 1..PieceBytes,
             fetch' = CASE fetch.raw + size > MaxBytes -> Fail("content_too_large")
                        [] fetch.raw + size <= MaxBytes /\ ~fetch.encoded ->
                              Keep([fetch EXCEPT !.raw = @ + size], size)
                        [] fetch.raw + size <= MaxBytes /\ fetch.encoded ->
                              [fetch EXCEPT !.raw = @ + size, !.pending = size]
      PROVE  FetchInv'
    <2>1. fetch.raw \in Nat /\ size \in Nat /\ MaxBytes \in Nat
        BY FetchAssumption DEF FetchInv, FetchShape, FetchCalls, Hops
    <2>2. CASE fetch.raw + size > MaxBytes
        <3>1. fetch' = Fail("content_too_large")
            BY <1>3, <2>1, <2>2
        <3> QED BY <1>2, <3>1 DEF FetchReasons
    <2> DEFINE raw == fetch.raw + size
    <2>3. CASE fetch.raw + size <= MaxBytes /\ ~fetch.encoded
        <3>1. fetch' = Keep([fetch EXCEPT !.raw = raw], size)
            BY <1>3, <2>1, <2>3
        <3>2. [fetch EXCEPT !.raw = raw] = [fetch EXCEPT !.raw = raw, !.pending = fetch.pending]
            BY DEF FetchInv, FetchShape, FetchCalls, Hops
        <3>3. raw \in 0..MaxBytes /\ fetch.pending \in Nat
            BY <2>1, <2>3 DEF FetchInv, FetchShape, FetchCalls, Hops
        <3>4. fetch.body + size <= MaxBytes + 1
            BY <1>1, <2>1, <2>3 DEF FetchInv, FetchShape, FetchCalls, Hops, BodyIsBounded
        <3>5. fetch.body + size = raw
            BY <1>1, <2>3 DEF FetchInv, BodyIsBounded
        <3> QED BY <1>1, <2>1, <3>1, <3>2, <3>3, <3>4, <3>5, KeepIsBounded
    <2>4. CASE fetch.raw + size <= MaxBytes /\ fetch.encoded
        <3>1. fetch' = [fetch EXCEPT !.raw = raw, !.pending = size]
            BY <1>3, <2>1, <2>4
        <3>2. FetchShape' /\ fetch'.at = "reading" /\ fetch'.encoded
            <4>1. raw \in Nat
                BY <2>1
            <4> HIDE DEF raw
            <4> QED BY <1>1, <2>1, <2>4, <3>1, <4>1 DEF FetchInv, FetchShape, FetchCalls, Hops
        <3>3. BodyIsBounded'
            BY <1>1, <2>1, <2>4, <3>1, <3>2 DEF FetchInv, FetchShape, FetchCalls, Hops, BodyIsBounded
        <3> QED BY <1>1, <3>1, <3>2, <3>3, OpenKeepsInv DEF FetchInv, FetchShape, FetchCalls, Hops, OpenSteps
    <2> QED BY <2>1, <2>2, <2>3, <2>4
<1> QED BY <1>2, <1>3 DEF ReadPiece, FetchReasons

LEMMA DecodeKeepsInv == FetchInv /\ Decode => FetchInv'
<1> SUFFICES ASSUME FetchInv, Decode PROVE FetchInv'
    OBVIOUS
<1>1. fetch.at = "reading" /\ fetch.pending > 0 /\ UNCHANGED contacted
    BY DEF Decode
<1>2. ASSUME NEW why \in FetchReasons \ {"none"}, fetch' = Fail(why) PROVE FetchInv'
    BY <1>1, <1>2, FailKeepsInv DEF FetchSteps, OpenSteps, Over, FetchReasons
<1>3. ASSUME NEW out \in 0..DecodeLimit, NEW rest \in 0..fetch.pending,
             fetch' = Keep([fetch EXCEPT !.pending = rest], out)
      PROVE  FetchInv'
    <2>1. fetch.raw \in 0..MaxBytes /\ fetch.body \in 0..MaxBytes /\ fetch.pending \in Nat
        BY FetchAssumption DEF FetchInv, FetchShape, FetchCalls, BodyIsBounded
    <2>2. {PieceBytes, MaxBytes - fetch.body + 1} \subseteq Nat
        BY <2>1, FetchAssumption
    <2>3. PICK least \in {PieceBytes, MaxBytes - fetch.body + 1} :
             \A m \in {PieceBytes, MaxBytes - fetch.body + 1} : least <= m
        BY <2>2, LeastNumber
    <2>4. /\ DecodeLimit \in {PieceBytes, MaxBytes - fetch.body + 1}
          /\ \A m \in {PieceBytes, MaxBytes - fetch.body + 1} : DecodeLimit <= m
        BY <2>3 DEF DecodeLimit, Min
    <2>5. out \in Nat /\ fetch.body + out <= MaxBytes + 1
        BY <2>1, <2>2, <2>4, FetchAssumption
    <2>6. fetch' = Keep([fetch EXCEPT !.raw = fetch.raw, !.pending = rest], out)
        BY <1>3 DEF FetchInv, FetchShape, FetchCalls
    <2>7. rest \in Nat
        BY <2>1
    <2>8. fetch.encoded
        BY <1>1 DEF FetchInv, BodyIsBounded
    <2> QED BY <1>1, <2>1, <2>5, <2>6, <2>7, <2>8, KeepIsBounded
<1> QED BY <1>2, <1>3 DEF Decode, FetchReasons

LEMMA EndBodyKeepsInv == FetchInv /\ EndBody => FetchInv'
<1> SUFFICES ASSUME FetchInv, EndBody PROVE FetchInv'
    OBVIOUS
<1>1. fetch.at = "reading" /\ UNCHANGED contacted
    BY DEF EndBody
<1>2. ASSUME NEW why \in FetchReasons \ {"none"}, fetch' = Fail(why) PROVE FetchInv'
    BY <1>1, <1>2, FailKeepsInv DEF FetchSteps, OpenSteps, Over, FetchReasons
<1>3. ASSUME fetch' = [fetch EXCEPT !.at = "closing"], fetch.body > 0 PROVE FetchInv'
    <2>1. FetchShape' /\ fetch'.at = "closing"
        BY <1>1, <1>3 DEF FetchInv, FetchShape, FetchCalls, Hops, FetchSteps, OpenSteps
    <2>2. BodyIsBounded'
        BY <1>1, <1>3, <2>1 DEF FetchInv, FetchShape, FetchCalls, Hops, BodyIsBounded
    <2> QED BY <1>1, <1>3, <2>1, <2>2, OpenKeepsInv DEF FetchInv, FetchShape, FetchCalls, Hops, OpenSteps
<1> QED BY <1>2, <1>3 DEF EndBody, FetchReasons

\* A closed call is over, or checks the URL it was redirected to.
LEMMA CloseKeepsFetch == FetchInv /\ Close => FetchInv'
<1> SUFFICES ASSUME FetchInv, Close PROVE FetchInv'
    OBVIOUS
<1> DEFINE closed == [fetch EXCEPT !.open = FALSE]
<1>1. /\ fetch.at = "closing" /\ UNCHANGED contacted /\ fetch \in FetchCalls
      /\ Len(contacted) = fetch.redirects + 1 /\ contacted[Len(contacted)].url = fetch.url
      /\ Len(contacted) <= MaxRedirects + 1
    BY DEF Close, FetchInv, FetchShape, HopsAreCounted, OpenSteps
<1>2. CASE fetch.why = "none" /\ fetch.body = 0 /\
           fetch' = [closed EXCEPT !.at = "checking", !.redirects = @ + 1]
    <2>1. fetch' = [fetch EXCEPT !.open = FALSE, !.at = "checking", !.redirects = @ + 1]
        BY <1>1, <1>2 DEF FetchCalls
    <2>2. fetch.redirects + 1 \in 0..(MaxRedirects + 1)
        BY <1>1, PolicyAssumption DEF FetchCalls
    <2>3. FetchShape' /\ fetch'.at = "checking" /\ ~fetch'.open
        BY <1>1, <2>1, <2>2 DEF FetchInv, FetchShape, FetchCalls, Hops, FetchSteps
    <2>4. HopsAreCounted'
        BY <1>1, <2>1, <2>3 DEF FetchInv, FetchShape, FetchCalls, Hops, HopsAreCounted, OpenSteps
    <2>5. BodyIsBounded'
        BY <1>1, <1>2, <2>1, <2>3 DEF FetchInv, FetchShape, FetchCalls, Hops, BodyIsBounded
    <2> QED BY <1>1, <2>3, <2>4, <2>5, HopsStay DEF FetchInv
<1>3. ASSUME NEW over \in Over, NEW why \in FetchReasons,
             fetch' = [fetch EXCEPT !.open = FALSE, !.at = over, !.why = why],
             over = "document" => why = "none" /\ fetch.why = "none" /\ fetch.body > 0
      PROVE  FetchInv'
    <2>1. FetchShape' /\ fetch'.at = over /\ ~fetch'.open
        BY <1>1, <1>3 DEF FetchInv, FetchShape, FetchCalls, Hops, FetchSteps, Over
    <2>2. HopsAreCounted'
        BY <1>1, <1>3, <2>1 DEF FetchInv, FetchShape, FetchCalls, Hops, HopsAreCounted, OpenSteps, Over
    <2>3. BodyIsBounded'
        BY <1>1, <1>3, <2>1 DEF FetchInv, FetchShape, FetchCalls, Hops, BodyIsBounded, Over
    <2> QED BY <1>1, <2>1, <2>2, <2>3, HopsStay DEF FetchInv
<1>4. ASSUME NEW over \in Over, fetch' = [closed EXCEPT !.at = over],
             over = "document" => fetch.why = "none" /\ fetch.body > 0
      PROVE  FetchInv'
    <2>1. fetch' = [fetch EXCEPT !.open = FALSE, !.at = over, !.why = fetch.why]
        BY <1>1, <1>4 DEF FetchCalls
    <2>2. fetch.why \in FetchReasons
        BY <1>1 DEF FetchCalls
    <2> QED BY <1>3, <1>4, <2>1, <2>2
<1>5. CASE fetch.why = "none" /\ \E why \in {"timeout", "network_error", "invalid_response"} :
                fetch' = [closed EXCEPT !.at = "failed", !.why = why]
    <2>1. PICK why \in FetchReasons : fetch' = [closed EXCEPT !.at = "failed", !.why = why]
        BY <1>5 DEF FetchReasons
    <2>2. fetch' = [fetch EXCEPT !.open = FALSE, !.at = "failed", !.why = why]
        BY <2>1
    <2> QED BY <1>3, <2>2 DEF Over
<1>6. CASE fetch' = CASE fetch.why = "cancelled" -> [closed EXCEPT !.at = "cancelled"]
                      [] fetch.why \notin {"none", "cancelled"} -> [closed EXCEPT !.at = "failed"]
                      [] fetch.why = "none" /\ fetch.body > 0 -> [closed EXCEPT !.at = "document"]
                      [] fetch.why = "none" /\ fetch.body = 0 ->
                           [closed EXCEPT !.at = "checking", !.redirects = @ + 1]
    <2> HIDE DEF closed
    <2>1. fetch.body > 0 \/ fetch.body = 0
        BY <1>1 DEF FetchCalls
    <2>2. \/ fetch' = [closed EXCEPT !.at = "cancelled"]
          \/ fetch' = [closed EXCEPT !.at = "failed"]
          \/ fetch.why = "none" /\ fetch.body > 0 /\ fetch' = [closed EXCEPT !.at = "document"]
          \/ fetch.why = "none" /\ fetch.body = 0 /\
             fetch' = [closed EXCEPT !.at = "checking", !.redirects = @ + 1]
        BY <1>6, <2>1
    <2> QED BY <1>2, <1>4, <2>2 DEF Over
<1> QED BY <1>5, <1>6 DEF Close

LEMMA CancelKeepsInv == FetchInv /\ CancelFetch => FetchInv'
<1> SUFFICES ASSUME FetchInv, CancelFetch PROVE FetchInv'
    OBVIOUS
<1>1. /\ fetch.at \in {"checking", "sending", "reading"} /\ UNCHANGED contacted
      /\ fetch \in FetchCalls
      /\ fetch' = [fetch EXCEPT !.at = IF fetch.open THEN "closing" ELSE "cancelled",
                                !.why = "cancelled"]
    BY DEF CancelFetch, FetchInv, FetchShape
<1>2. CASE fetch.open
    <2>1. fetch' = [fetch EXCEPT !.at = "closing", !.why = "cancelled"]
        BY <1>1, <1>2
    <2>2. FetchShape' /\ fetch'.at = "closing" /\ fetch.at \in OpenSteps
        BY <1>1, <1>2, <2>1
           DEF FetchInv, FetchShape, FetchCalls, Hops, FetchSteps, OpenSteps, FetchReasons, HopsAreCounted
    <2>3. BodyIsBounded'
        BY <1>1, <2>1, <2>2 DEF FetchInv, FetchShape, FetchCalls, Hops, BodyIsBounded
    <2> QED BY <1>1, <2>1, <2>2, <2>3, OpenKeepsInv DEF FetchInv, FetchShape, FetchCalls, Hops, OpenSteps
<1>3. CASE ~fetch.open
    <2>1. fetch' = [fetch EXCEPT !.at = "cancelled", !.why = "cancelled"]
        BY <1>1, <1>3
    <2>2. FetchShape' /\ fetch'.at = "cancelled" /\ ~fetch'.open
        BY <1>1, <1>3, <2>1
           DEF FetchInv, FetchShape, FetchCalls, Hops, FetchSteps, Over, FetchReasons
    <2>3. HopsAreCounted'
        BY <1>1, <2>1, <2>2 DEF FetchInv, FetchShape, FetchCalls, Hops, HopsAreCounted, OpenSteps
    <2>4. BodyIsBounded'
        BY <1>1, <2>1, <2>2 DEF FetchInv, FetchShape, FetchCalls, Hops, BodyIsBounded
    <2> QED BY <1>1, <2>2, <2>3, <2>4, HopsStay DEF FetchInv
<1> QED BY <1>2, <1>3

LEMMA StartKeepsInv == ASSUME FetchInv, NEW url \in Urls, StartFetch(url) PROVE FetchInv'
<1>1. /\ fetch.at = "new" /\ UNCHANGED contacted /\ fetch \in FetchCalls
      /\ fetch' = [fetch EXCEPT !.at = "checking", !.target = url]
    BY DEF StartFetch, FetchInv, FetchShape
<1>2. FetchShape' /\ fetch'.at = "checking"
    BY <1>1 DEF FetchInv, FetchShape, FetchCalls, Hops, FetchSteps
<1>3. HopsAreCounted'
    BY <1>1, <1>2 DEF FetchInv, FetchShape, FetchCalls, Hops, HopsAreCounted, OpenSteps
<1>4. BodyIsBounded'
    BY <1>1, <1>2 DEF FetchInv, FetchShape, FetchCalls, Hops, BodyIsBounded
<1> QED BY <1>1, <1>2, <1>3, <1>4, HopsStay DEF FetchInv

\* What FetchIsGuarded says is part of the invariant.
LEMMA FetchInvGuards == FetchInv => FetchIsGuarded
<1> SUFFICES ASSUME FetchInv PROVE FetchIsGuarded
    OBVIOUS
<1>1. \A i \in DOMAIN contacted :
          LET hop == contacted[i] IN
          /\ hop.peer \in hop.answer
          /\ \A a \in hop.answer : IsPublic(a) /\ SiteAllowed(<<a>>)
          /\ SiteAllowed(hop.url.host) /\ hop.url.port \in AllowedPorts
          /\ IsLiteral(hop.url.host) => hop.answer = {Head(hop.url.host)}
          /\ ~Covered(hop.url.host, LocalDomains)
    BY DEF FetchInv, HopsAreChecked, CheckedFor, Vetted
<1>2. fetch.at = "document" => fetch.body \in 1..MaxBytes
    BY FetchAssumption DEF FetchInv, FetchShape, FetchCalls, BodyIsBounded
<1>3. fetch.at \in Over => ~fetch.open
    BY DEF FetchInv, HopsAreCounted, OpenSteps, Over
<1> QED BY <1>1, <1>2, <1>3 DEF FetchInv, HopsAreCounted, BodyIsBounded, FetchIsGuarded

(***************************************************************************)
(* Every request of a fetch goes to an address that was checked for it     *)
(* just before, its redirects and its body are bounded, and nothing is     *)
(* left open, whatever names, servers and redirects say, for any rules on  *)
(* sites, any addresses and any limits.                                    *)
(***************************************************************************)
THEOREM FetchesStayGuarded == FetchSpec => []FetchIsGuarded
<1>1. FetchInv /\ [FetchNext]_fetchVars => FetchInv'
    <2> SUFFICES ASSUME FetchInv, [FetchNext]_fetchVars PROVE FetchInv'
        OBVIOUS
    <2>1. CASE UNCHANGED fetchVars
        BY <2>1 DEF fetchVars, FetchInv, FetchShape, HopsAreChecked, HopsAreCounted, BodyIsBounded
    <2> QED BY <2>1, StartKeepsInv, GuardKeepsInv, SendKeepsInv, RedirectKeepsInv, HeadersKeepInv,
               ReadPieceKeepsInv, DecodeKeepsInv, EndBodyKeepsInv, CloseKeepsFetch, CancelKeepsInv
            DEF FetchNext
<1> QED BY <1>1, FetchStarts, FetchInvGuards, PTL DEF FetchSpec

\* Both at once: neither touches what the other relies on.
THEOREM PagesStayGuarded == AccessSpec => []PagesAreGuarded
<1>1. [AccessNext]_AccessVars => [SearchNext]_search /\ [FetchNext]_fetchVars
    BY DEF AccessNext, AccessVars, fetchVars
<1>2. AccessSpec => SearchSpec /\ FetchSpec
    BY <1>1, PTL DEF AccessSpec, SearchSpec, FetchSpec
<1>3. SearchIsHonest /\ FetchIsGuarded => PagesAreGuarded
    BY DEF PagesAreGuarded
<1> QED BY <1>2, <1>3, SearchesStayHonest, FetchesStayGuarded, PTL

\* The elements open outside the hidden parts.
Visible == 1..(Len(page.open) - block.hiding)

Elements == [tag : STRING, hidden : BOOLEAN]
Nodes == [tag : STRING, hidden : BOOLEAN, leaf : BOOLEAN, spoke : BOOLEAN]
Taken == [tag : BlockTags, words : {{"shown"}}, dated : BOOLEAN]
\* A table is known by its counts: what it holds is of no account here.
IsTable(t) ==
    /\ DOMAIN t = {"hiding", "depth", "rows", "inRow", "row", "inCell", "cell", "out"}
    /\ t.hiding \in Nat /\ t.depth \in Nat

IsBlock(b) ==
    /\ DOMAIN b = {"hiding", "active", "words", "attribute", "pending", "out"}
    /\ b.hiding \in Nat /\ b.active \in {"none"} \cup BlockTags \cup DateTags
    /\ b.words \subseteq {"shown"} /\ b.out \in Seq(Taken)

IsPage(p) ==
    /\ DOMAIN p = {"words", "tokens", "open", "lost", "over"}
    /\ p.words \subseteq Elements /\ p.open \in Seq(Nodes)

PageShape ==
    /\ IsPage(page)
    /\ IsBlock(block) /\ IsTable(table)

\* The count of either parser is of the elements from the first hidden one on.
HidingIsCounted ==
    /\ block.hiding <= Len(page.open) /\ table.hiding = block.hiding
    /\ \A i \in Visible : ~page.open[i].hidden
    /\ block.hiding > 0 => page.open[Len(page.open) - block.hiding + 1].hidden

TablesAt(open, n) == {i \in 1..n : open[i].tag = "table"}

TablesAreCounted ==
    table.depth = Cardinality(TablesAt(page.open, Len(page.open) - block.hiding))

\* The innermost block that is open is the one the parser is in.
LeavesAreActive ==
    /\ \A i \in DOMAIN page.open : page.open[i].spoke => i \in Visible
    /\ \A i \in Visible : page.open[i].tag \in BlockTags /\ page.open[i].leaf =>
          /\ block.active = page.open[i].tag
          /\ page.open[i].spoke => block.words # {}
          /\ \A j \in Visible : j > i => page.open[j].tag \notin BlockTags

EndsOutside == page.over => page.open = <<>>

BlockInv == PageShape /\ HidingIsCounted /\ TablesAreCounted /\ LeavesAreActive /\ EndsOutside /\ ~page.lost

LEMMA CountersEnter ==
    /\ \A t, e : IsTable(t) =>
          /\ IsTable(Enter(t, e)) /\ Enter(t, e).depth = t.depth
          /\ Enter(t, e).hiding = IF e.tag = Void THEN t.hiding ELSE t.hiding + 1
    /\ \A b, e : IsBlock(b) =>
          /\ IsBlock(Enter(b, e)) /\ Enter(b, e).active = b.active
          /\ Enter(b, e).words = b.words /\ Enter(b, e).out = b.out
          /\ Enter(b, e).hiding = IF e.tag = Void THEN b.hiding ELSE b.hiding + 1
BY DEF Enter, IsTable, IsBlock

LEMMA TableStarts ==
    ASSUME NEW t, IsTable(t), NEW e \in Elements
    PROVE  LET n == TableStart(t, e)
               in == t.hiding > 0 \/ e.hidden
           IN /\ IsTable(n)
              /\ n.hiding = IF in /\ e.tag # Void THEN t.hiding + 1 ELSE t.hiding
              /\ n.depth = IF ~in /\ e.tag = "table" THEN t.depth + 1 ELSE t.depth
<1> t.hiding \in Nat /\ e.hidden \in BOOLEAN
    BY DEF IsTable, Elements
<1>1. CASE t.hiding > 0 \/ e.hidden
    <2>1. TableStart(t, e) = Enter(t, e)
        BY <1>1 DEF TableStart
    <2> QED BY <1>1, <2>1, CountersEnter
<1>2. CASE t.hiding = 0 /\ ~e.hidden /\ e.tag = "table"
    <2>1. TableStart(t, e) = [t EXCEPT !.depth = @ + 1, !.rows = IF t.depth = 0 THEN {} ELSE @]
        BY <1>2 DEF TableStart
    <2> QED BY <1>2, <2>1 DEF IsTable
<1>3. CASE t.hiding = 0 /\ ~e.hidden /\ e.tag # "table"
    <2>1. \/ TableStart(t, e) = [t EXCEPT !.inRow = TRUE, !.row = {}]
          \/ TableStart(t, e) = [t EXCEPT !.inCell = TRUE, !.cell = {}]
          \/ TableStart(t, e) = t
        BY <1>3 DEF TableStart
    <2>2. ASSUME TableStart(t, e) # t
          PROVE  /\ IsTable(TableStart(t, e))
                 /\ TableStart(t, e).hiding = t.hiding /\ TableStart(t, e).depth = t.depth
        <3>1. CASE TableStart(t, e) = [t EXCEPT !.inRow = TRUE, !.row = {}]
            BY <3>1 DEF IsTable
        <3>2. CASE TableStart(t, e) = [t EXCEPT !.inCell = TRUE, !.cell = {}]
            BY <3>2 DEF IsTable
        <3> QED BY <2>1, <2>2, <3>1, <3>2
    <2> QED BY <1>3, <2>2
<1> QED BY <1>1, <1>2, <1>3

LEMMA TableEnds ==
    ASSUME NEW t, IsTable(t), NEW e
    PROVE  LET n == TableEnd(t, e) IN
           /\ IsTable(n)
           /\ n.hiding = IF t.hiding > 0 THEN t.hiding - 1 ELSE 0
           /\ n.depth = IF t.hiding = 0 /\ t.depth > 0 /\ e.tag = "table" THEN t.depth - 1
                        ELSE t.depth
<1>1. t.hiding \in Nat /\ t.depth \in Nat
    BY DEF IsTable
<1>2. CASE t.hiding > 0
    BY <1>1, <1>2 DEF TableEnd, IsTable
<1>3. CASE t.hiding = 0 /\ t.depth = 1 /\ e.tag = "td"
    <2>1. TableEnd(t, e) = [t EXCEPT !.row = IF t.inRow /\ t.inCell THEN @ \cup t.cell ELSE @,
                                     !.inCell = FALSE, !.cell = {}]
        BY <1>3 DEF TableEnd
    <2> QED BY <1>1, <1>3, <2>1 DEF IsTable
<1>4. CASE t.hiding = 0 /\ t.depth = 1 /\ e.tag = "tr"
    <2>1. TableEnd(t, e) = [t EXCEPT !.rows = IF t.inRow THEN @ \cup t.row ELSE @,
                                     !.inRow = FALSE, !.row = {}, !.inCell = FALSE, !.cell = {}]
        BY <1>4 DEF TableEnd
    <2> QED BY <1>1, <1>4, <2>1 DEF IsTable
<1>5. CASE t.hiding = 0 /\ t.depth > 0 /\ e.tag = "table"
    <2>1. CASE t.depth > 1
        BY <1>1, <1>5, <2>1 DEF TableEnd, IsTable
    <2>2. CASE t.depth = 1
        <3>1. TableEnd(t, e) = [NoTable EXCEPT !.out = IF t.rows = {} THEN t.out
                                                       ELSE Append(t.out, t.rows)]
            BY <1>5, <2>2 DEF TableEnd
        <3>2. IsTable(TableEnd(t, e)) /\ TableEnd(t, e).hiding = 0 /\ TableEnd(t, e).depth = 0
            BY <3>1 DEF NoTable, IsTable
        <3> QED BY <1>5, <2>2, <3>2
    <2> QED BY <1>1, <1>5, <2>1, <2>2
<1>6. CASE /\ t.hiding = 0 /\ ~(t.depth = 1 /\ e.tag = "td") /\ ~(t.depth = 1 /\ e.tag = "tr")
           /\ ~(t.depth > 0 /\ e.tag = "table")
    <2>1. TableEnd(t, e) = t
        BY <1>6 DEF TableEnd
    <2> QED BY <1>6, <2>1
<1> QED BY <1>1, <1>2, <1>3, <1>4, <1>5, <1>6

LEMMA TableReads ==
    ASSUME NEW t, IsTable(t), NEW word
    PROVE  /\ IsTable(TableData(t, word))
           /\ TableData(t, word).hiding = t.hiding /\ TableData(t, word).depth = t.depth
BY DEF TableData, IsTable

LEMMA BlockFinishes ==
    ASSUME NEW b, IsBlock(b)
    PROVE  /\ IsBlock(Finish(b)) /\ Finish(b).active = "none" /\ Finish(b).hiding = b.hiding
           /\ b.active \in BlockTags /\ b.words # {} => Len(Finish(b).out) # Len(b.out)
<1>1. CASE b.active = "none"
    <2>1. Finish(b) = b
        BY <1>1 DEF Finish, BlockTags, DateTags
    <2> QED BY <1>1, <2>1 DEF BlockTags
<1>2. CASE b.active \in DateTags
    <2>1. Finish(b) = [[b EXCEPT !.active = "none", !.words = {}, !.attribute = FALSE]
                          EXCEPT !.pending = b.words # {} \/ b.attribute]
        BY <1>2 DEF Finish, BlockTags, DateTags
    <2> QED BY <1>2, <2>1 DEF IsBlock, BlockTags, DateTags
<1>3. CASE b.active \in BlockTags /\ b.words = {}
    <2>1. Finish(b) = [b EXCEPT !.active = "none", !.words = {}, !.attribute = FALSE]
        BY <1>3 DEF Finish, BlockTags, DateTags
    <2> QED BY <1>3, <2>1 DEF IsBlock
<1>4. CASE b.active \in BlockTags /\ b.words # {}
    <2> DEFINE one == [tag |-> b.active, words |-> b.words, dated |-> b.pending /\ b.active = "h"]
    <2>1. Finish(b) = [[b EXCEPT !.active = "none", !.words = {}, !.attribute = FALSE]
                          EXCEPT !.pending = FALSE, !.out = Append(@, one)]
        BY <1>4 DEF Finish, BlockTags, DateTags
    <2>2. one \in Taken /\ b.out \in Seq(Taken)
        BY <1>4 DEF IsBlock, Taken
    <2>3. /\ Append(b.out, one) \in Seq(Taken) /\ Len(Append(b.out, one)) = Len(b.out) + 1
          /\ Len(b.out) \in Nat
        BY <2>2, AppendProperties, LenProperties
    <2> HIDE DEF one
    <2>4. /\ IsBlock(Finish(b)) /\ Finish(b).active = "none" /\ Finish(b).hiding = b.hiding
          /\ Finish(b).out = Append(b.out, one)
        BY <2>1, <2>3 DEF IsBlock
    <2> QED BY <2>3, <2>4
<1> QED BY <1>1, <1>2, <1>3, <1>4 DEF IsBlock

LEMMA BlockStarts ==
    ASSUME NEW b, IsBlock(b), NEW e \in Elements
    PROVE  LET n == BlockStart(b, e)
               in == b.hiding > 0 \/ e.hidden
           IN /\ IsBlock(n)
              /\ n.hiding = IF in /\ e.tag # Void THEN b.hiding + 1 ELSE b.hiding
              /\ in => n.active = b.active /\ n.words = b.words
              /\ ~in /\ e.tag \in BlockTags => n.active = e.tag
              /\ ~in /\ e.tag \notin BlockTags /\ (e.tag \in DateTags => b.active \in {"h", "p"})
                    => n.active = b.active /\ n.words = b.words
<1>1. b.hiding \in Nat /\ e.hidden \in BOOLEAN
    BY DEF IsBlock, Elements
<1>2. CASE b.hiding > 0 \/ e.hidden
    BY <1>1, <1>2, CountersEnter DEF BlockStart
<1>3. CASE b.hiding = 0 /\ ~e.hidden /\ e.tag \in DateTags /\ b.active \in {"none", "li"}
    <2>1. BlockStart(b, e) = [Finish(b) EXCEPT !.active = e.tag, !.attribute = e.tag = "time"]
        BY <1>3 DEF BlockStart, BlockTags, DateTags
    <2>2. IsBlock(Finish(b)) /\ Finish(b).hiding = b.hiding
        BY BlockFinishes
    <2>3. IsBlock(BlockStart(b, e)) /\ BlockStart(b, e).hiding = b.hiding
        BY <1>3, <2>1, <2>2 DEF IsBlock
    <2> QED BY <1>3, <2>3 DEF BlockTags, DateTags
<1>4. CASE b.hiding = 0 /\ ~e.hidden /\ e.tag \in BlockTags
    <2>1. BlockStart(b, e) = [Finish(b) EXCEPT !.active = e.tag]
        BY <1>4 DEF BlockStart, BlockTags, DateTags
    <2>2. IsBlock(Finish(b)) /\ Finish(b).hiding = b.hiding
        BY BlockFinishes
    <2> QED BY <1>4, <2>1, <2>2 DEF IsBlock
<1>5. CASE /\ b.hiding = 0 /\ ~e.hidden /\ e.tag \notin BlockTags
           /\ ~(e.tag \in DateTags /\ b.active \in {"none", "li"})
    <2>1. BlockStart(b, e) = b
        BY <1>5 DEF BlockStart
    <2> QED BY <1>5, <2>1
<1> QED BY <1>1, <1>2, <1>3, <1>4, <1>5

LEMMA BlockReads ==
    ASSUME NEW b, IsBlock(b), NEW word, b.hiding = 0 => word = "shown"
    PROVE  LET n == BlockData(b, word) IN
           /\ IsBlock(n) /\ n.hiding = b.hiding /\ n.active = b.active /\ n.out = b.out
           /\ b.words \subseteq n.words
           /\ b.hiding = 0 /\ b.active # "none" => n.words # {}
BY DEF BlockData, IsBlock

LEMMA BlockEnds ==
    ASSUME NEW b, IsBlock(b), NEW e
    PROVE  LET n == BlockEnd(b, e) IN
           /\ IsBlock(n)
           /\ n.hiding = IF b.hiding > 0 THEN b.hiding - 1 ELSE 0
           /\ b.hiding > 0 \/ e.tag # b.active => n.active = b.active /\ n.words = b.words
           /\ b.hiding = 0 /\ e.tag = b.active /\ b.active \in BlockTags /\ b.words # {}
                => Len(n.out) # Len(b.out)
<1>1. b.hiding \in Nat
    BY DEF IsBlock
<1>2. CASE b.hiding > 0
    BY <1>1, <1>2 DEF BlockEnd, IsBlock
<1>3. CASE b.hiding = 0 /\ e.tag = b.active
    BY <1>3, BlockFinishes DEF BlockEnd
<1>4. CASE b.hiding = 0 /\ e.tag # b.active
    BY <1>4 DEF BlockEnd
<1> QED BY <1>1, <1>2, <1>3, <1>4

\* The tables among the first elements.
LEMMA TablesAdd ==
    ASSUME NEW open, NEW n \in Nat
    PROVE  /\ IsFiniteSet(TablesAt(open, n)) /\ Cardinality(TablesAt(open, n)) \in Nat
           /\ TablesAt(open, 0) = {} /\ Cardinality(TablesAt(open, 0)) = 0
           /\ Cardinality(TablesAt(open, n + 1)) =
                 IF open[n + 1].tag = "table" THEN Cardinality(TablesAt(open, n)) + 1
                 ELSE Cardinality(TablesAt(open, n))
<1>1. IsFiniteSet(TablesAt(open, n))
    <2>1. IsFiniteSet(1..n)
        BY FS_Interval
    <2> QED BY <2>1, FS_Subset DEF TablesAt
<1>2. TablesAt(open, 0) = {}
    BY DEF TablesAt
<1>3. CASE open[n + 1].tag = "table"
    <2>1. TablesAt(open, n + 1) = TablesAt(open, n) \cup {n + 1} /\ n + 1 \notin TablesAt(open, n)
        BY <1>3 DEF TablesAt
    <2>2. Cardinality(TablesAt(open, n) \cup {n + 1}) = Cardinality(TablesAt(open, n)) + 1
        BY <1>1, <2>1, FS_AddElement
    <2> QED BY <1>1, <1>2, <1>3, <2>1, <2>2, FS_CardinalityType, FS_EmptySet
<1>4. CASE open[n + 1].tag # "table"
    <2>1. TablesAt(open, n + 1) = TablesAt(open, n)
        BY <1>4 DEF TablesAt
    <2> QED BY <1>1, <1>2, <1>4, <2>1, FS_CardinalityType, FS_EmptySet
<1> QED BY <1>3, <1>4

LEMMA TablesAgree ==
    ASSUME NEW open, NEW other, NEW n \in Nat, \A i \in 1..n : open[i].tag = other[i].tag
    PROVE  TablesAt(open, n) = TablesAt(other, n)
BY DEF TablesAt

\* What the invariant says of the elements that are open.
LEMMA OpenElements ==
    ASSUME BlockInv
    PROVE  /\ Len(page.open) \in Nat /\ block.hiding \in 0..Len(page.open)
           /\ DOMAIN page.open = 1..Len(page.open) /\ table.hiding = block.hiding
           /\ page.open \in Seq(Nodes) /\ \A i \in 1..Len(page.open) : page.open[i] \in Nodes
           /\ Hidden <=> block.hiding > 0
           /\ Len(page.open) - block.hiding \in 0..Len(page.open)
<1>1. /\ Len(page.open) \in Nat /\ block.hiding \in 0..Len(page.open)
      /\ DOMAIN page.open = 1..Len(page.open) /\ table.hiding = block.hiding
      /\ page.open \in Seq(Nodes) /\ \A i \in 1..Len(page.open) : page.open[i] \in Nodes
    BY DEF BlockInv, PageShape, HidingIsCounted, IsBlock, IsPage
<1>2. ASSUME block.hiding > 0 PROVE Hidden
    <2>1. Len(page.open) - block.hiding + 1 \in 1..Len(page.open)
        BY <1>1, <1>2
    <2> QED BY <1>1, <1>2, <2>1 DEF BlockInv, HidingIsCounted, Hidden
<1>3. ASSUME block.hiding = 0 PROVE ~Hidden
    BY <1>1, <1>3 DEF BlockInv, HidingIsCounted, Hidden, Visible
<1> QED BY <1>1, <1>2, <1>3

LEMMA OpenKeepsBlocks == ASSUME BlockInv, NEW e \in Elements, Open(e) PROVE BlockInv'
<1> DEFINE L == Len(page.open)
           in == block.hiding > 0 \/ e.hidden
           breaks == Breaks(e)
           node == [tag |-> e.tag, hidden |-> e.hidden, leaf |-> TRUE, spoke |-> FALSE]
           outer == [i \in DOMAIN page.open |-> [page.open[i] EXCEPT !.leaf = @ /\ ~breaks]]
<1>1. /\ L \in Nat /\ block.hiding \in 0..L /\ DOMAIN page.open = 1..L
      /\ table.hiding = block.hiding /\ (Hidden <=> block.hiding > 0)
      /\ page.open \in Seq(Nodes) /\ \A i \in 1..L : page.open[i] \in Nodes
      /\ L - block.hiding \in 0..L
    BY OpenElements
<1>2. /\ ~page.over /\ table' = TableStart(table, e) /\ block' = BlockStart(block, e)
      /\ page' = [page EXCEPT !.tokens = @ + 1,
                              !.open = IF e.tag = Void THEN @ ELSE Append(outer, node)]
    BY DEF Open
<1>3. /\ ~page'.over /\ ~page'.lost
      /\ page'.open = IF e.tag = Void THEN page.open ELSE Append(outer, node)
    BY <1>2 DEF BlockInv, PageShape, IsPage
<1>4. /\ IsBlock(block') /\ IsTable(table')
      /\ block'.hiding = IF in /\ e.tag # Void THEN block.hiding + 1 ELSE block.hiding
      /\ table'.hiding = block'.hiding
      /\ table'.depth = IF ~in /\ e.tag = "table" THEN table.depth + 1 ELSE table.depth
      /\ in => block'.active = block.active /\ block'.words = block.words
      /\ ~in /\ e.tag \in BlockTags => block'.active = e.tag
      /\ ~in /\ e.tag \notin BlockTags /\ (e.tag \in DateTags => block.active \in {"h", "p"})
            => block'.active = block.active /\ block'.words = block.words
    BY <1>1, <1>2, BlockStarts, TableStarts DEF BlockInv, PageShape
<1>5. e.hidden \in BOOLEAN /\ e.tag \in STRING /\ breaks \in BOOLEAN
    BY DEF Elements, Breaks
<1>6. PageShape' /\ EndsOutside'
    <2>1. outer \in Seq(Nodes)
        <3>1. \A i \in 1..L : [page.open[i] EXCEPT !.leaf = @ /\ ~breaks] \in Nodes
            BY <1>1, <1>5 DEF Nodes
        <3> HIDE DEF breaks
        <3> QED BY <1>1, <3>1
    <2>2. node \in Nodes
        BY <1>5 DEF Nodes
    <2> HIDE DEF outer, node
    <2>3. Append(outer, node) \in Seq(Nodes)
        BY <2>1, <2>2
    <2>4. PICK now \in Seq(Nodes) : page' = [page EXCEPT !.tokens = @ + 1, !.open = now]
        BY <1>1, <1>2, <2>3
    <2>5. IsPage(page')
        BY <2>4 DEF BlockInv, PageShape, IsPage
    <2> QED BY <1>3, <1>4, <2>5 DEF PageShape, EndsOutside
<1>7. CASE e.tag = Void
    <2>1. /\ page'.open = page.open /\ block'.hiding = block.hiding /\ table'.depth = table.depth
          /\ table'.hiding = table.hiding
        BY <1>1, <1>3, <1>4, <1>7 DEF Void
    <2>2. block'.active = block.active /\ block'.words = block.words
        BY <1>4, <1>7 DEF Void, BlockTags, DateTags
    <2>3. Visible' = Visible /\ HidingIsCounted'
        BY <2>1 DEF BlockInv, HidingIsCounted, Visible
    <2>4. TablesAreCounted'
        BY <2>1 DEF BlockInv, TablesAreCounted
    <2>5. LeavesAreActive'
        BY <2>1, <2>2, <2>3 DEF BlockInv, LeavesAreActive
    <2> QED BY <1>3, <1>6, <2>3, <2>4, <2>5 DEF BlockInv
<1>8. CASE e.tag # Void
    <2> DEFINE open == page'.open
    <2>1. /\ Len(open) = L + 1 /\ DOMAIN open = 1..(L + 1) /\ open[L + 1] = node
          /\ \A i \in 1..L : open[i] = [page.open[i] EXCEPT !.leaf = @ /\ ~breaks]
        <3>1. outer \in Seq(Nodes) /\ Len(outer) = L /\ \A i \in 1..L : outer[i] = [page.open[i] EXCEPT !.leaf = @ /\ ~breaks]
            <4>1. \A i \in 1..L : [page.open[i] EXCEPT !.leaf = @ /\ ~breaks] \in Nodes
                BY <1>1, <1>5 DEF Nodes
            <4> HIDE DEF breaks
            <4> QED BY <1>1, <4>1
        <3> HIDE DEF outer, node, breaks
        <3> QED BY <1>1, <1>3, <1>8, <3>1
    <2>2. \A i \in 1..L : /\ open[i].tag = page.open[i].tag /\ open[i].hidden = page.open[i].hidden
                          /\ open[i].spoke = page.open[i].spoke
                          /\ open[i].leaf <=> page.open[i].leaf /\ ~breaks
        <3> HIDE DEF open, breaks
        <3> QED BY <1>1, <2>1 DEF Nodes
    <2>3. /\ open[L + 1].tag = e.tag /\ open[L + 1].hidden = e.hidden /\ open[L + 1].leaf
          /\ ~open[L + 1].spoke
        BY <2>1
    <2> HIDE DEF open, node, outer
    <2>4. /\ in => block'.hiding = block.hiding + 1 /\ ~breaks
          /\ ~in => block'.hiding = 0 /\ block.hiding = 0
        BY <1>1, <1>4, <1>8 DEF Breaks
    <2>5. /\ in => Visible' = Visible /\ Visible \subseteq 1..L
          /\ ~in => Visible' = 1..(L + 1) /\ Visible = 1..L
        BY <1>1, <2>1, <2>4 DEF Visible, open
    <2>6. HidingIsCounted'
        <3>1. CASE in
            <4>1. \A i \in Visible' : ~open[i].hidden
                BY <2>2, <2>5, <3>1 DEF BlockInv, HidingIsCounted
            <4>2. Len(open) - block'.hiding + 1 = L - block.hiding + 1 /\ block'.hiding <= Len(open)
                BY <1>1, <2>1, <2>4, <3>1
            <4>3. CASE block.hiding > 0
                <5>1. L - block.hiding + 1 \in 1..L
                    BY <1>1, <4>3
                <5> QED BY <1>4, <2>2, <4>1, <4>2, <4>3, <5>1 DEF BlockInv, HidingIsCounted, open
            <4>4. CASE block.hiding = 0
                <5>1. L - block.hiding + 1 = L + 1 /\ e.hidden
                    BY <1>1, <3>1, <4>4
                <5> QED BY <1>4, <2>3, <4>1, <4>2, <5>1 DEF HidingIsCounted, open
            <4> QED BY <1>1, <4>3, <4>4
        <3>2. CASE ~in
            <4>1. \A i \in Visible' : ~open[i].hidden
                <5>1. \A i \in Visible' : i \in 1..L \/ i = L + 1
                    BY <1>1, <2>5, <3>2
                <5> QED BY <1>1, <2>2, <2>3, <2>5, <3>2, <5>1 DEF BlockInv, HidingIsCounted
            <4> QED BY <1>1, <1>4, <2>1, <2>4, <3>2, <4>1 DEF HidingIsCounted, open
        <3> QED BY <3>1, <3>2
    <2>7. TablesAreCounted'
        <3>1. CASE in
            <4>1. TablesAt(open, L - block.hiding) = TablesAt(page.open, L - block.hiding)
                BY <1>1, <2>2, TablesAgree
            <4>2. Len(open) - block'.hiding = L - block.hiding /\ table'.depth = table.depth
                BY <1>1, <1>4, <2>1, <2>4, <3>1
            <4> QED BY <4>1, <4>2 DEF BlockInv, TablesAreCounted, open
        <3>2. CASE ~in
            <4>1. TablesAt(open, L) = TablesAt(page.open, L)
                BY <1>1, <2>2, TablesAgree
            <4>2. Len(open) - block'.hiding = L + 1 /\ L - block.hiding = L
                BY <1>1, <2>1, <2>4, <3>2
            <4>3. table.depth = Cardinality(TablesAt(page.open, L))
                BY <4>2 DEF BlockInv, TablesAreCounted
            <4>4. /\ Cardinality(TablesAt(open, L)) \in Nat
                  /\ Cardinality(TablesAt(open, L + 1)) =
                        IF e.tag = "table" THEN Cardinality(TablesAt(open, L)) + 1
                        ELSE Cardinality(TablesAt(open, L))
                BY <1>1, <2>3, TablesAdd
            <4>5. table'.depth = Cardinality(TablesAt(open, L + 1))
                BY <1>4, <3>2, <4>1, <4>3, <4>4
            <4> QED BY <4>2, <4>5 DEF TablesAreCounted, open
        <3> QED BY <3>1, <3>2
    <2>8. LeavesAreActive'
        <3>1. \A i \in DOMAIN open : open[i].spoke => i \in Visible'
            <4>1. \A i \in DOMAIN open : i \in 1..L \/ i = L + 1
                BY <1>1, <2>1
            <4> QED BY <1>1, <2>2, <2>3, <2>5, <4>1 DEF BlockInv, LeavesAreActive
        <3>2. ASSUME NEW i \in Visible', open[i].tag \in BlockTags, open[i].leaf
              PROVE  /\ block'.active = open[i].tag
                     /\ open[i].spoke => block'.words # {}
                     /\ \A j \in Visible' : j > i => open[j].tag \notin BlockTags
            <4>1. CASE in
                BY <1>4, <2>2, <2>5, <3>2, <4>1 DEF BlockInv, LeavesAreActive
            <4>2. CASE ~in /\ i = L + 1
                BY <1>1, <1>4, <2>3, <2>5, <3>2, <4>2
            <4>3. CASE ~in /\ i \in 1..L
                <5>1. ~breaks /\ page.open[i].leaf /\ page.open[i].tag \in BlockTags
                    BY <2>2, <3>2, <4>3
                <5>2. /\ block.active = page.open[i].tag
                      /\ page.open[i].spoke => block.words # {}
                      /\ \A j \in 1..L : j > i => page.open[j].tag \notin BlockTags
                    BY <2>5, <4>3, <5>1 DEF BlockInv, LeavesAreActive
                <5>3. /\ e.tag \notin BlockTags
                      /\ e.tag \in DateTags => page.open # <<>> /\ page.open[L].tag \in {"h", "p"}
                    BY <1>1, <4>3, <5>1 DEF Breaks
                <5>4. ASSUME e.tag \in DateTags PROVE block.active \in {"h", "p"}
                    <6>1. i = L
                        BY <1>1, <4>3, <5>2, <5>3, <5>4 DEF BlockTags
                    <6> QED BY <5>2, <5>3, <5>4, <6>1
                <5>5. block'.active = block.active /\ block'.words = block.words
                    BY <1>4, <4>3, <5>3, <5>4
                <5>6. \A j \in Visible' : j \in 1..L \/ j = L + 1
                    BY <1>1, <2>5, <4>3
                <5> QED BY <1>1, <2>2, <2>3, <4>3, <5>2, <5>3, <5>5, <5>6
            <4> QED BY <1>1, <2>5, <3>2, <4>1, <4>2, <4>3
        <3> QED BY <3>1, <3>2 DEF LeavesAreActive, open
    <2> QED BY <1>3, <1>6, <2>6, <2>7, <2>8 DEF BlockInv
<1> QED BY <1>7, <1>8

LEMMA WordKeepsBlocks == BlockInv /\ ReadWord => BlockInv'
<1> SUFFICES ASSUME BlockInv, ReadWord PROVE BlockInv'
    OBVIOUS
<1> DEFINE L == Len(page.open)
           word == IF Hidden THEN "hidden" ELSE "shown"
<1>1. /\ L \in Nat /\ block.hiding \in 0..L /\ DOMAIN page.open = 1..L
      /\ table.hiding = block.hiding /\ (Hidden <=> block.hiding > 0)
      /\ page.open \in Seq(Nodes) /\ \A i \in 1..L : page.open[i] \in Nodes
      /\ L - block.hiding \in 0..L
    BY OpenElements
<1>2. /\ ~page.over /\ table' = TableData(table, word) /\ block' = BlockData(block, word)
      /\ page' = [page EXCEPT !.tokens = @ + 1,
                              !.open = [i \in DOMAIN page.open |->
                                           [page.open[i] EXCEPT !.spoke = @ \/ ~Hidden]]]
    BY DEF ReadWord
<1>3. /\ IsBlock(block') /\ IsTable(table') /\ block'.hiding = block.hiding
      /\ table'.hiding = table.hiding /\ table'.depth = table.depth
      /\ block'.active = block.active
      /\ block.words # {} => block'.words # {}
      /\ block.hiding = 0 /\ block.active # "none" => block'.words # {}
    <2>1. IsBlock(block) /\ IsTable(table) /\ (block.hiding = 0 => word = "shown")
        BY <1>1 DEF BlockInv, PageShape
    <2> HIDE DEF word
    <2> QED BY <1>2, <2>1, BlockReads, TableReads
<1> DEFINE now == [i \in DOMAIN page.open |-> [page.open[i] EXCEPT !.spoke = @ \/ ~Hidden]]
<1>4. page' = [page EXCEPT !.tokens = @ + 1, !.open = now]
    BY <1>2
<1>5. /\ now \in Seq(Nodes) /\ Len(now) = L /\ DOMAIN now = 1..L
      /\ \A i \in 1..L : now[i].tag = page.open[i].tag /\ now[i].hidden = page.open[i].hidden
                         /\ now[i].leaf = page.open[i].leaf
                         /\ (now[i].spoke <=> page.open[i].spoke \/ ~Hidden)
    <2>1. \A i \in 1..L : now[i] \in Nodes /\ now[i].tag = page.open[i].tag
                         /\ now[i].hidden = page.open[i].hidden
                         /\ now[i].leaf = page.open[i].leaf
                         /\ (now[i].spoke <=> page.open[i].spoke \/ ~Hidden)
        BY <1>1 DEF Nodes, Hidden
    <2>2. now \in [1..L -> Nodes]
        BY <1>1, <2>1
    <2> HIDE DEF now
    <2> QED BY <1>1, <2>1, <2>2
<1> HIDE DEF now
<1>6. /\ IsPage(page')
      /\ page'.open = now /\ ~page'.over /\ ~page'.lost
    <2>1. ~page.over /\ ~page.lost /\ IsPage(page)
        BY <1>2 DEF BlockInv, PageShape
    <2> QED BY <1>4, <1>5, <2>1 DEF IsPage
<1>7. Visible' = Visible /\ HidingIsCounted'
    <2>1. Visible' = Visible /\ Visible \subseteq 1..L
        BY <1>1, <1>3, <1>5, <1>6 DEF Visible
    <2>2. block.hiding > 0 => L - block.hiding + 1 \in 1..L
        BY <1>1
    <2> QED BY <1>1, <1>3, <1>5, <1>6, <2>1, <2>2 DEF BlockInv, HidingIsCounted
<1>8. TablesAreCounted'
    <2>1. TablesAt(now, L - block.hiding) = TablesAt(page.open, L - block.hiding)
        <3>1. \A i \in 1..(L - block.hiding) : now[i].tag = page.open[i].tag
            BY <1>1, <1>5
        <3> QED BY <1>1, <3>1, TablesAgree
    <2> QED BY <1>3, <1>5, <1>6, <2>1 DEF BlockInv, TablesAreCounted
<1>9. LeavesAreActive'
    <2>1. \A i \in 1..L : now[i].spoke => i \in Visible
        BY <1>1, <1>5 DEF BlockInv, LeavesAreActive, Visible
    <2>2. ASSUME NEW i \in Visible, now[i].tag \in BlockTags, now[i].leaf
          PROVE  /\ block'.active = now[i].tag
                 /\ now[i].spoke => block'.words # {}
                 /\ \A j \in Visible : j > i => now[j].tag \notin BlockTags
        <3>1. Visible \subseteq 1..L
            BY <1>1 DEF Visible
        <3>2. /\ block.active = page.open[i].tag
              /\ page.open[i].spoke => block.words # {}
              /\ \A j \in Visible : j > i => page.open[j].tag \notin BlockTags
            BY <1>5, <2>2, <3>1 DEF BlockInv, LeavesAreActive
        <3>3. block.active # "none"
            BY <1>5, <2>2, <3>1, <3>2 DEF BlockTags
        <3> QED BY <1>1, <1>3, <1>5, <2>2, <3>1, <3>2, <3>3
    <2> QED BY <1>5, <1>6, <1>7, <2>1, <2>2 DEF LeavesAreActive
<1> QED BY <1>3, <1>6, <1>7, <1>8, <1>9 DEF BlockInv, PageShape, EndsOutside

LEMMA ShutKeepsBlocks == BlockInv /\ Shut => BlockInv'
<1> SUFFICES ASSUME BlockInv, Shut PROVE BlockInv'
    OBVIOUS
<1> DEFINE L == Len(page.open)
           e == page.open[L]
           now == SubSeq(page.open, 1, L - 1)
           losing == e.tag \in BlockTags /\ e.leaf /\ e.spoke /\ Len(block'.out) = Len(block.out)
<1>1. /\ L \in Nat /\ block.hiding \in 0..L /\ DOMAIN page.open = 1..L
      /\ table.hiding = block.hiding /\ (Hidden <=> block.hiding > 0)
      /\ page.open \in Seq(Nodes) /\ \A i \in 1..L : page.open[i] \in Nodes
      /\ L - block.hiding \in 0..L
    BY OpenElements
<1>2. /\ ~page.over /\ page.open # <<>> /\ table' = TableEnd(table, e) /\ block' = BlockEnd(block, e)
      /\ page' = [page EXCEPT !.open = now, !.lost = @ \/ losing]
    BY DEF Shut
<1>3. L > 0 /\ L \in 1..L /\ L - 1 \in Nat
    BY <1>1, <1>2
<1>4. /\ now \in Seq(Nodes) /\ Len(now) = L - 1 /\ DOMAIN now = 1..(L - 1)
      /\ \A i \in 1..(L - 1) : now[i] = page.open[i]
    BY <1>1, <1>3
<1> HIDE DEF now
<1>5. /\ IsBlock(block') /\ IsTable(table')
      /\ block'.hiding = IF block.hiding > 0 THEN block.hiding - 1 ELSE 0
      /\ table'.hiding = block'.hiding
      /\ table'.depth = IF table.hiding = 0 /\ table.depth > 0 /\ e.tag = "table"
                        THEN table.depth - 1 ELSE table.depth
      /\ block.hiding > 0 \/ e.tag # block.active
            => block'.active = block.active /\ block'.words = block.words
      /\ block.hiding = 0 /\ e.tag = block.active /\ block.active \in BlockTags /\ block.words # {}
            => Len(block'.out) # Len(block.out)
    <2>1. IsBlock(block) /\ IsTable(table)
        BY DEF BlockInv, PageShape
    <2> HIDE DEF e
    <2> QED BY <1>1, <1>2, <2>1, BlockEnds, TableEnds
<1>6. ~losing
    <2> SUFFICES ASSUME e.tag \in BlockTags, e.leaf, e.spoke PROVE Len(block'.out) # Len(block.out)
        OBVIOUS
    <2>1. L \in Visible
        BY <1>1, <1>3 DEF BlockInv, LeavesAreActive
    <2>2. block.hiding = 0
        BY <1>1, <2>1 DEF Visible
    <2>3. block.active = e.tag /\ block.words # {}
        BY <2>1 DEF BlockInv, LeavesAreActive
    <2> QED BY <1>5, <2>2, <2>3
<1> HIDE DEF losing
<1>7. /\ IsPage(page')
      /\ page'.open = now /\ ~page'.over /\ ~page'.lost
    <2>1. ~page.over /\ ~page.lost /\ IsPage(page)
        BY <1>2 DEF BlockInv, PageShape
    <2> QED BY <1>2, <1>4, <1>6, <2>1 DEF IsPage
<1>8. /\ block.hiding > 0 => Len(now) - block'.hiding = L - block.hiding /\ Visible' = Visible
                             /\ Visible \subseteq 1..(L - 1)
      /\ block.hiding = 0 => Len(now) - block'.hiding = L - 1 /\ Visible' = 1..(L - 1)
                             /\ Visible = 1..L
    BY <1>1, <1>3, <1>4, <1>5, <1>7 DEF Visible
<1>9. Visible' \subseteq Visible /\ Visible' \subseteq 1..(L - 1)
    BY <1>1, <1>3, <1>8
<1>10. HidingIsCounted'
    <2>1. \A i \in Visible' : ~now[i].hidden
        BY <1>4, <1>9 DEF BlockInv, HidingIsCounted
    <2>2. block'.hiding <= Len(now)
        BY <1>1, <1>3, <1>4, <1>5
    <2>3. ASSUME block'.hiding > 0 PROVE now[Len(now) - block'.hiding + 1].hidden
        <3>1. /\ block.hiding > 1 /\ Len(now) - block'.hiding + 1 = L - block.hiding + 1
              /\ L - block.hiding + 1 \in 1..(L - 1)
            BY <1>1, <1>3, <1>4, <1>5, <2>3
        <3>2. page.open[L - block.hiding + 1].hidden
            BY <1>1, <3>1 DEF BlockInv, HidingIsCounted
        <3> QED BY <1>4, <3>1, <3>2
    <2> QED BY <1>5, <1>7, <2>1, <2>2, <2>3 DEF HidingIsCounted
<1>11. TablesAreCounted'
    <2>1. CASE block.hiding > 0
        <3>1. TablesAt(now, L - block.hiding) = TablesAt(page.open, L - block.hiding)
            <4>1. L - block.hiding <= L - 1
                BY <1>1, <1>3, <2>1
            <4>2. \A i \in 1..(L - block.hiding) : now[i].tag = page.open[i].tag
                BY <1>1, <1>3, <1>4, <4>1
            <4> QED BY <1>1, <4>2, TablesAgree
        <3>2. table'.depth = table.depth
            BY <1>1, <1>5, <2>1
        <3> QED BY <1>7, <1>8, <2>1, <3>1, <3>2 DEF BlockInv, TablesAreCounted
    <2>2. CASE block.hiding = 0
        <3>1. TablesAt(now, L - 1) = TablesAt(page.open, L - 1)
            BY <1>3, <1>4, TablesAgree
        <3>2. table.depth = Cardinality(TablesAt(page.open, L))
            <4>1. L - block.hiding = L
                BY <1>1, <2>2
            <4> QED BY <4>1 DEF BlockInv, TablesAreCounted
        <3>3. /\ Cardinality(TablesAt(page.open, L - 1)) \in Nat
              /\ Cardinality(TablesAt(page.open, (L - 1) + 1)) =
                    IF page.open[(L - 1) + 1].tag = "table"
                    THEN Cardinality(TablesAt(page.open, L - 1)) + 1
                    ELSE Cardinality(TablesAt(page.open, L - 1))
            BY <1>3, TablesAdd
        <3>4. (L - 1) + 1 = L
            BY <1>1
        <3>5. table'.depth = Cardinality(TablesAt(now, L - 1))
            BY <1>1, <1>5, <2>2, <3>1, <3>2, <3>3, <3>4
        <3> QED BY <1>7, <1>8, <2>2, <3>5 DEF TablesAreCounted
    <2> QED BY <1>1, <2>1, <2>2
<1>12. LeavesAreActive'
    <2>1. \A i \in 1..(L - 1) : now[i].spoke => i \in Visible'
        BY <1>1, <1>4, <1>8 DEF BlockInv, LeavesAreActive
    <2>2. ASSUME NEW i \in Visible', now[i].tag \in BlockTags, now[i].leaf
          PROVE  /\ block'.active = now[i].tag
                 /\ now[i].spoke => block'.words # {}
                 /\ \A j \in Visible' : j > i => now[j].tag \notin BlockTags
        <3>1. /\ block.active = page.open[i].tag
              /\ page.open[i].spoke => block.words # {}
              /\ \A j \in Visible : j > i => page.open[j].tag \notin BlockTags
            BY <1>4, <1>9, <2>2 DEF BlockInv, LeavesAreActive
        <3>2. block.hiding > 0 \/ e.tag # block.active
            <4> SUFFICES ASSUME block.hiding = 0 PROVE e.tag # block.active
                BY <1>1
            <4>1. L \in Visible /\ L > i
                BY <1>1, <1>3, <1>8, <1>9
            <4> QED BY <1>4, <1>9, <2>2, <3>1, <4>1
        <3> QED BY <1>4, <1>5, <1>9, <2>2, <3>1, <3>2
    <2> QED BY <1>4, <1>7, <2>1, <2>2 DEF LeavesAreActive
<1> QED BY <1>5, <1>7, <1>10, <1>11, <1>12 DEF BlockInv, PageShape, EndsOutside

LEMMA EndKeepsBlocks == BlockInv /\ EndPage => BlockInv'
<1> SUFFICES ASSUME BlockInv, EndPage PROVE BlockInv'
    OBVIOUS
<1>1. /\ page.open = <<>> /\ block' = Finish(block) /\ page' = [page EXCEPT !.over = TRUE]
      /\ UNCHANGED table
    BY DEF EndPage
<1>2. IsBlock(block') /\ block'.hiding = block.hiding
    BY <1>1, BlockFinishes DEF BlockInv, PageShape
<1>3. /\ IsPage(page')
      /\ page'.open = page.open /\ page'.lost = page.lost
    BY <1>1 DEF BlockInv, PageShape, IsPage
<1>4. HidingIsCounted' /\ TablesAreCounted'
    BY <1>1, <1>2, <1>3 DEF BlockInv, HidingIsCounted, TablesAreCounted, Visible
<1>5. LeavesAreActive'
    <2>1. Len(page'.open) = 0 /\ DOMAIN page'.open = {} /\ block'.hiding = 0
        <3>1. block.hiding \in 0..Len(page.open) /\ DOMAIN page.open = 1..Len(page.open)
            BY OpenElements
        <3>2. Len(page.open) = 0
            BY <1>1
        <3> QED BY <1>2, <1>3, <3>1, <3>2
    <2>2. Visible' = {}
        BY <2>1 DEF Visible
    <2> QED BY <2>1, <2>2 DEF LeavesAreActive
<1> QED BY <1>1, <1>2, <1>3, <1>4, <1>5 DEF BlockInv, PageShape, EndsOutside

LEMMA PagesStart == PageInit => BlockInv
<1> SUFFICES ASSUME PageInit PROVE BlockInv
    OBVIOUS
<1>1. PICK v \in Vocabularies :
          page = [words |-> v, tokens |-> 0, open |-> <<>>, lost |-> FALSE, over |-> FALSE]
    BY DEF PageInit
<1>2. page.open = <<>> /\ Len(page.open) = 0 /\ ~page.over /\ ~page.lost
    BY <1>1
<1>3. block = NoBlock /\ table = NoTable
    BY DEF PageInit
<1>4. IsBlock(block) /\ IsTable(table) /\ block.hiding = 0 /\ table.hiding = 0 /\ table.depth = 0
    BY <1>3 DEF NoBlock, NoTable, IsBlock, IsTable
<1>5. PageShape
    BY <1>1, <1>4, PageAssumption DEF PageShape, IsPage, Elements
<1>6. Visible = {}
    BY <1>2, <1>4 DEF Visible
<1>7. TablesAreCounted
    <2>1. Len(page.open) - block.hiding = 0
        BY <1>2, <1>4
    <2> QED BY <1>4, <2>1, TablesAdd DEF TablesAreCounted
<1> QED BY <1>2, <1>4, <1>5, <1>6, <1>7 DEF BlockInv, HidingIsCounted, LeavesAreActive, EndsOutside

LEMMA BlocksInvShows == BlockInv => BlocksShowThePage
<1> SUFFICES ASSUME BlockInv PROVE BlocksShowThePage
    OBVIOUS
<1>1. \A i \in DOMAIN block.out : block.out[i].words = {"shown"}
    <2>1. block.out \in Seq(Taken)
        BY DEF BlockInv, PageShape, IsBlock
    <2>2. \A i \in DOMAIN block.out : block.out[i] \in Taken
        BY <2>1
    <2> QED BY <2>2 DEF Taken
<1>2. ~page.lost
    BY DEF BlockInv
<1>3. ASSUME page.over PROVE block.hiding = 0 /\ table.hiding = 0 /\ table.depth = 0
    <2>1. page.open = <<>> /\ Len(page.open) = 0
        BY <1>3 DEF BlockInv, EndsOutside
    <2>2. block.hiding = 0 /\ table.hiding = 0 /\ Len(page.open) - block.hiding = 0
        <3>1. block.hiding \in 0..Len(page.open) /\ table.hiding = block.hiding
            BY OpenElements
        <3> QED BY <2>1, <3>1
    <2> QED BY <2>2, TablesAdd DEF BlockInv, TablesAreCounted
<1> QED BY <1>1, <1>2, <1>3 DEF BlocksShowThePage

\* Whatever is nested in what, hidden or void: no block holds a word that the page hides,
\* none that it shows as text of a block is lost, and after the last element neither parser
\* counts one as open (_HTMLBlockParser, _HTMLTableParser).
THEOREM BlocksShow == PageSpec => []BlocksShowThePage
<1>1. BlockInv /\ [PageNext]_pageVars => BlockInv'
    <2> SUFFICES ASSUME BlockInv, [PageNext]_pageVars PROVE BlockInv'
        OBVIOUS
    <2>1. ASSUME NEW e \in page.words, Open(e) PROVE BlockInv'
        <3>1. e \in Elements
            BY DEF BlockInv, PageShape, IsPage
        <3> QED BY <2>1, <3>1, OpenKeepsBlocks
    <2>2. CASE UNCHANGED pageVars
        BY <2>2 DEF pageVars, BlockInv, PageShape, HidingIsCounted, TablesAreCounted,
                    LeavesAreActive, EndsOutside, Visible
    <2> QED BY <2>1, <2>2, WordKeepsBlocks, ShutKeepsBlocks, EndKeepsBlocks DEF PageNext
<1> QED BY <1>1, PagesStart, BlocksInvShows, PTL DEF PageSpec

\* Induction, for a set in the place of a predicate.
LEMMA NumbersAreReached ==
    ASSUME NEW P, 0 \in P, \A n \in Nat : n \in P => n + 1 \in P
    PROVE  Nat \subseteq P
<1> DEFINE B == Nat \ P
<1> SUFFICES ASSUME B # {} PROVE FALSE
    OBVIOUS
<1>1. PICK n \in B : \A m \in B : n <= m
    BY LeastNumber
<1>2. n \in Nat /\ n # 0 /\ n - 1 \in Nat /\ n - 1 \notin B
    BY <1>1
<1>3. n - 1 + 1 = n /\ n - 1 + 1 \in P
    BY <1>2
<1> QED BY <1>1, <1>3

\* The subsets of a finite set, each reached from the one without the element picked from it.
Picks(D, pick, rest) ==
    /\ IsFiniteSet(D)
    /\ \A s \in SUBSET D : s # {} => pick[s] \in s /\ rest[s] = s \ {pick[s]}

LEMMA PicksAreSmaller ==
    ASSUME NEW D, NEW pick, NEW rest, Picks(D, pick, rest)
    PROVE  /\ \A s \in SUBSET D : /\ Cardinality(s) \in Nat
                                  /\ Cardinality(s) = 0 <=> s = {}
                                  /\ Cardinality(s) <= Cardinality(D)
           /\ \A s \in SUBSET D : s # {} => /\ pick[s] \in D /\ rest[s] \in SUBSET D
                                            /\ Cardinality(rest[s]) = Cardinality(s) - 1
<1>1. \A s \in SUBSET D : IsFiniteSet(s) /\ Cardinality(s) <= Cardinality(D)
    BY FS_Subset DEF Picks
<1>2. \A s \in SUBSET D : Cardinality(s) \in Nat /\ (Cardinality(s) = 0 <=> s = {})
    BY <1>1, FS_CardinalityType, FS_EmptySet
<1>3. ASSUME NEW s \in SUBSET D, s # {}
      PROVE  /\ pick[s] \in D /\ rest[s] \in SUBSET D
             /\ Cardinality(rest[s]) = Cardinality(s) - 1
    <2>1. pick[s] \in s /\ rest[s] = s \ {pick[s]}
        BY <1>3 DEF Picks
    <2>2. Cardinality(s \ {pick[s]}) = Cardinality(s) - 1
        BY <1>1, <2>1, FS_RemoveElement
    <2> QED BY <2>1, <2>2
<1> QED BY <1>1, <1>2, <1>3

\* What holds of no element and is kept by each one holds of all.
LEMMA SubsetsAreReached ==
    ASSUME NEW D, NEW pick, NEW rest, Picks(D, pick, rest),
           NEW P, {} \in P,
           \A s \in SUBSET D : s # {} /\ rest[s] \in P => s \in P
    PROVE  SUBSET D \subseteq P
<1> DEFINE Q == {n \in Nat : \A s \in SUBSET D : Cardinality(s) = n => s \in P}
<1>1. 0 \in Q
    BY PicksAreSmaller
<1>2. ASSUME NEW n \in Nat, n \in Q PROVE n + 1 \in Q
    <2> SUFFICES ASSUME NEW s \in SUBSET D, Cardinality(s) = n + 1 PROVE s \in P
        OBVIOUS
    <2>1. s # {} /\ rest[s] \in SUBSET D /\ Cardinality(rest[s]) = n
        BY PicksAreSmaller
    <2> QED BY <1>2, <2>1
<1>3. Nat \subseteq Q
    <2> HIDE DEF Q
    <2> QED BY <1>1, <1>2, NumbersAreReached
<1> QED BY <1>3, PicksAreSmaller

\* A fold takes a step with the element picked and the fold over the others: the equation
\* that defines it has a solution.
FoldOf(D, base, pick, rest, step) ==
    CHOOSE f : f = [s \in SUBSET D |-> IF s = {} THEN base ELSE step[pick[s]][f[rest[s]]]]

Folding(D, pick, rest, V, base, step) ==
    Picks(D, pick, rest) /\ base \in V /\ step \in [D -> [V -> V]]

LEMMA FoldsExist ==
    ASSUME NEW D, NEW pick, NEW rest, NEW V, NEW base, NEW step,
           Folding(D, pick, rest, V, base, step)
    PROVE  /\ FoldOf(D, base, pick, rest, step)[{}] = base
           /\ \A s \in SUBSET D :
                 /\ FoldOf(D, base, pick, rest, step)[s] \in V
                 /\ s # {} => FoldOf(D, base, pick, rest, step)[s]
                                 = step[pick[s]][FoldOf(D, base, pick, rest, step)[rest[s]]]
<1> DEFINE F == FoldOf(D, base, pick, rest, step)
           Small(n) == {s \in SUBSET D : Cardinality(s) <= n}
           Solves(f, n) == \A s \in Small(n) :
                              f[s] = IF s = {} THEN base ELSE step[pick[s]][f[rest[s]]]
           P == {n \in Nat : \E f \in [Small(n) -> V] : Solves(f, n)}
<1> USE DEF Folding
<1>1. 0 \in P
    <2> DEFINE f == [s \in Small(0) |-> base]
    <2>1. \A s \in Small(0) : s = {}
        BY PicksAreSmaller
    <2>2. f \in [Small(0) -> V] /\ Solves(f, 0)
        BY <2>1
    <2> QED BY <2>2
<1>2. ASSUME NEW n \in Nat, n \in P PROVE n + 1 \in P
    <2>1. PICK f \in [Small(n) -> V] : Solves(f, n)
        BY <1>2
    <2> DEFINE g == [s \in Small(n + 1) |-> IF s = {} THEN base ELSE step[pick[s]][f[rest[s]]]]
    <2>2. \A s \in Small(n + 1) : s # {} => /\ s \in SUBSET D /\ pick[s] \in D
                                            /\ rest[s] \in Small(n)
        BY PicksAreSmaller
    <2>3. \A s \in Small(n) : s \in Small(n + 1)
        BY PicksAreSmaller
    <2>4. \A s \in Small(n) : g[s] = f[s]
        BY <2>1, <2>3
    <2>5. g \in [Small(n + 1) -> V]
        <3>1. \A s \in Small(n + 1) : s # {} => step[pick[s]][f[rest[s]]] \in V
            BY <2>1, <2>2
        <3> HIDE DEF Small
        <3> QED BY <3>1
    <2>6. Solves(g, n + 1)
        <3> SUFFICES ASSUME NEW s \in Small(n + 1), s # {}
                     PROVE  g[s] = step[pick[s]][g[rest[s]]]
            BY DEF g
        <3>1. g[s] = step[pick[s]][f[rest[s]]]
            OBVIOUS
        <3>2. g[rest[s]] = f[rest[s]]
            BY <2>2, <2>4
        <3> HIDE DEF g
        <3> QED BY <3>1, <3>2
    <2> HIDE DEF g
    <2>7. \E h \in [Small(n + 1) -> V] : Solves(h, n + 1)
        <3> HIDE DEF Small, Solves
        <3> QED BY <2>5, <2>6
    <2> HIDE DEF Small, Solves
    <2> QED BY <1>2, <2>7
<1>3. Nat \subseteq P
    <2> HIDE DEF P
    <2> QED BY <1>1, <1>2, NumbersAreReached
<1>4. PICK f \in [Small(Cardinality(D)) -> V] : Solves(f, Cardinality(D))
    <2>1. Cardinality(D) \in P
        BY <1>3, PicksAreSmaller
    <2> QED BY <2>1
<1>5. Small(Cardinality(D)) = SUBSET D
    BY PicksAreSmaller
<1> DEFINE Folds(h) == h = [s \in SUBSET D |-> IF s = {} THEN base ELSE step[pick[s]][h[rest[s]]]]
<1>6. Folds(f)
    BY <1>4, <1>5
<1>7. Folds(F)
    <2>1. F = CHOOSE h : Folds(h)
        BY DEF FoldOf
    <2> HIDE DEF Folds
    <2> QED BY <1>6, <2>1
<1>8. \A s \in SUBSET D : F[s] = IF s = {} THEN base ELSE step[pick[s]][F[rest[s]]]
    BY <1>7
<1>9. SUBSET D \subseteq {s \in SUBSET D : F[s] \in V}
    <2> DEFINE R == {s \in SUBSET D : F[s] \in V}
    <2>1. {} \in R
        BY <1>8
    <2>2. ASSUME NEW s \in SUBSET D, s # {}, rest[s] \in R PROVE s \in R
        <3>1. pick[s] \in D
            BY <2>2, PicksAreSmaller
        <3> QED BY <1>8, <2>2, <3>1
    <2> HIDE DEF R
    <2>3. SUBSET D \subseteq R
        BY <2>1, <2>2, SubsetsAreReached
    <2> QED BY <2>3 DEF R
<1> QED BY <1>8, <1>9

\* The numbers up to another, of which a fold over a sequence takes the last.
LEMMA LastIsTaken ==
    ASSUME NEW N \in Nat
    PROVE  /\ \A n \in 1..N : /\ 1..n \in (SUBSET (1..N)) \ {{}} /\ Max(1..n) = n
                              /\ (1..n) \ {n} = 1..(n - 1)
           /\ \A s \in (SUBSET (1..N)) \ {{}} : Max(s) \in s
           /\ 1..0 = {} /\ IsFiniteSet(1..N) /\ 1..N \in SUBSET (1..N)
<1>1. ASSUME NEW s \in (SUBSET (1..N)) \ {{}} PROVE \E x \in s : \A y \in s : x >= y
    <2> DEFINE U == {N - x : x \in s}
    <2>1. U \subseteq Nat /\ U # {}
        OBVIOUS
    <2>2. PICK u \in U : \A w \in U : u <= w
        <3> HIDE DEF U
        <3> QED BY <2>1, LeastNumber
    <2>3. PICK x \in s : u = N - x
        BY <2>2
    <2>4. \A y \in s : N - y \in U
        OBVIOUS
    <2>5. \A y \in s : N - x <= N - y
        BY <2>2, <2>3, <2>4
    <2>6. \A y \in s : x \in Nat /\ y \in Nat
        OBVIOUS
    <2> QED BY <2>5, <2>6
<1>2. \A s \in (SUBSET (1..N)) \ {{}} : Max(s) \in s /\ \A y \in s : Max(s) >= y
    BY <1>1 DEF Max
<1>3. \A n \in 1..N : 1..n \in (SUBSET (1..N)) \ {{}}
    OBVIOUS
<1>4. \A n \in 1..N : Max(1..n) = n
    <2> SUFFICES ASSUME NEW n \in 1..N PROVE Max(1..n) = n
        OBVIOUS
    <2>1. Max(1..n) \in 1..n /\ Max(1..n) >= n
        BY <1>2, <1>3
    <2> QED BY <2>1
<1>5. IsFiniteSet(1..N)
    BY FS_Interval
<1> QED BY <1>2, <1>3, <1>4, <1>5

\* A fold over a sequence picks the last number, whose others are those before it.
UpTo(N) == 1..N
LastOf(N) == [s \in SUBSET UpTo(N) |-> Max(s)]
BeforeLast(N) == [s \in SUBSET UpTo(N) |-> s \ {Max(s)}]
FoldUpTo(N, base, step) == FoldOf(UpTo(N), base, LastOf(N), BeforeLast(N), step)

LEMMA LastIsPicked ==
    ASSUME NEW N \in Nat
    PROVE  Picks(UpTo(N), LastOf(N), BeforeLast(N))
<1>1. IsFiniteSet(UpTo(N))
    BY LastIsTaken DEF UpTo
<1>2. ASSUME NEW s \in SUBSET UpTo(N), s # {} PROVE Max(s) \in s
    BY <1>2, LastIsTaken DEF UpTo
<1> QED BY <1>1, <1>2 DEF Picks, LastOf, BeforeLast

FoldsIn(V, N, base, step) == N \in Nat /\ base \in V /\ step \in [UpTo(N) -> [V -> V]]

LEMMA SequencesFold ==
    ASSUME NEW N, NEW V, NEW base, NEW step, FoldsIn(V, N, base, step)
    PROVE  /\ FoldUpTo(N, base, step)[{}] = base
           /\ \A s \in SUBSET UpTo(N) :
                 /\ FoldUpTo(N, base, step)[s] \in V
                 /\ s # {} => /\ LastOf(N)[s] \in UpTo(N) /\ BeforeLast(N)[s] \in SUBSET UpTo(N)
                              /\ FoldUpTo(N, base, step)[s]
                                    = step[LastOf(N)[s]][FoldUpTo(N, base, step)[BeforeLast(N)[s]]]
<1>1. Picks(UpTo(N), LastOf(N), BeforeLast(N))
    BY LastIsPicked DEF FoldsIn
<1>2. Folding(UpTo(N), LastOf(N), BeforeLast(N), V, base, step)
    BY <1>1 DEF Folding, FoldsIn
<1>3. /\ FoldUpTo(N, base, step)[{}] = base
      /\ \A s \in SUBSET UpTo(N) :
            /\ FoldUpTo(N, base, step)[s] \in V
            /\ s # {} => FoldUpTo(N, base, step)[s]
                            = step[LastOf(N)[s]][FoldUpTo(N, base, step)[BeforeLast(N)[s]]]
    BY <1>2, FoldsExist DEF FoldUpTo
<1>4. \A s \in SUBSET UpTo(N) :
         s # {} => LastOf(N)[s] \in UpTo(N) /\ BeforeLast(N)[s] \in SUBSET UpTo(N)
    BY <1>1, PicksAreSmaller
<1> QED BY <1>3, <1>4

\* A function that takes the steps of a fold takes them number by number.
FoldFollows(F, V, N, base, step) ==
    /\ F[{}] = base
    /\ \A s \in SUBSET UpTo(N) : s # {} /\ F[BeforeLast(N)[s]] \in V =>
          F[s] = step[LastOf(N)[s]][F[BeforeLast(N)[s]]]

LEMMA FoldsAreFollowed ==
    ASSUME NEW V, NEW N, NEW base, NEW step, FoldsIn(V, N, base, step),
           NEW F, FoldFollows(F, V, N, base, step)
    PROVE  /\ F[UpTo(0)] = base
           /\ \A n \in 0..N : F[UpTo(n)] \in V
           /\ \A n \in 1..N : F[UpTo(n)] = step[n][F[UpTo(n - 1)]]
<1> DEFINE P == {n \in Nat : n <= N => F[UpTo(n)] \in V}
<1>1. N \in Nat /\ UpTo(0) = {} /\ F[UpTo(0)] = base /\ base \in V
    BY DEF UpTo, FoldsIn, FoldFollows
<1>2. ASSUME NEW n \in 1..N, F[UpTo(n - 1)] \in V
      PROVE  F[UpTo(n)] = step[n][F[UpTo(n - 1)]] /\ F[UpTo(n)] \in V
    <2>1. /\ UpTo(n) \in SUBSET UpTo(N) /\ UpTo(n) # {} /\ n \in UpTo(N)
          /\ LastOf(N)[UpTo(n)] = n /\ BeforeLast(N)[UpTo(n)] = UpTo(n - 1)
        BY <1>1, LastIsTaken DEF UpTo, LastOf, BeforeLast
    <2>2. F[UpTo(n)] = step[n][F[UpTo(n - 1)]]
        BY <1>2, <2>1 DEF FoldFollows
    <2>3. step[n][F[UpTo(n - 1)]] \in V
        BY <1>2, <2>1 DEF FoldsIn
    <2> QED BY <2>2, <2>3
<1>3. 0 \in P
    BY <1>1
<1>4. ASSUME NEW n \in Nat, n \in P PROVE n + 1 \in P
    <2> SUFFICES ASSUME n + 1 <= N PROVE F[UpTo(n + 1)] \in V
        OBVIOUS
    <2>1. n + 1 \in 1..N /\ n + 1 - 1 = n /\ n <= N
        BY <1>1
    <2> QED BY <1>2, <1>4, <2>1
<1>5. Nat \subseteq P
    <2> HIDE DEF P
    <2> QED BY <1>3, <1>4, NumbersAreReached
<1>6. \A n \in 1..N : n - 1 \in 0..N /\ n - 1 \in Nat
    BY <1>1
<1> QED BY <1>1, <1>2, <1>5, <1>6

\* A sum, number by number.
LEMMA SumsUnfold ==
    ASSUME NEW s \in Seq(Nat)
    PROVE  \E g \in [0..Len(s) -> Nat] :
              /\ g[0] = 0 /\ Sum(s) = g[Len(s)]
              /\ \A n \in 1..Len(s) : g[n] = g[n - 1] + s[n]
<1> DEFINE N == Len(s)
           Is(f) == f = [S \in SUBSET (1..N) |-> IF S = {} THEN 0
                                                 ELSE f[S \ {Max(S)}] + s[Max(S)]]
           F == CHOOSE f : Is(f)
           V == Nat
           base == 0
           step == [x \in UpTo(N) |-> [v \in V |-> v + s[x]]]
           G == FoldUpTo(N, base, step)
           f == [S \in SUBSET (1..N) |-> G[S]]
           g == [n \in 0..N |-> F[UpTo(n)]]
           all == Sum(s)
<1>1. N \in Nat /\ DOMAIN s = 1..N /\ \A n \in 1..N : s[n] \in Nat
    OBVIOUS
<1> HIDE DEF N
<1>2. all = F[UpTo(N)]
    BY <1>1 DEF UpTo, Sum, FoldLeft, MapThenFoldSet
<1>3. FoldsIn(V, N, base, step)
    <2>1. \A v \in V, n \in 1..N : v + s[n] \in V
        BY <1>1
    <2>2. base \in V
        OBVIOUS
    <2> HIDE DEF V, base
    <2> QED BY <1>1, <2>1, <2>2 DEF UpTo, FoldsIn
<1>4. /\ G[{}] = base
      /\ \A S \in SUBSET UpTo(N) :
            /\ G[S] \in V
            /\ S # {} => /\ LastOf(N)[S] \in UpTo(N) /\ BeforeLast(N)[S] \in SUBSET UpTo(N)
                         /\ G[S] = step[LastOf(N)[S]][G[BeforeLast(N)[S]]]
    <2> HIDE DEF V, base, step
    <2> QED BY <1>3, SequencesFold
<1> HIDE DEF G, V, all
<1>5. \A S \in SUBSET (1..N) :
         LastOf(N)[S] = Max(S) /\ BeforeLast(N)[S] = S \ {Max(S)} /\ S \in SUBSET UpTo(N)
    BY DEF LastOf, BeforeLast, UpTo
<1>6. Is(F)
    <2>1. ASSUME NEW S \in SUBSET (1..N)
          PROVE  f[S] = IF S = {} THEN 0 ELSE f[S \ {Max(S)}] + s[Max(S)]
        <3>1. S # {} => /\ Max(S) \in UpTo(N) /\ S \ {Max(S)} \in SUBSET UpTo(N)
                        /\ G[S] = step[Max(S)][G[S \ {Max(S)}]] /\ G[S \ {Max(S)}] \in V
            <4> HIDE DEF base, step
            <4> QED BY <1>4, <1>5
        <3>2. S # {} => G[S] = G[S \ {Max(S)}] + s[Max(S)]
            BY <3>1
        <3>3. f[S] = G[S] /\ (S # {} => f[S \ {Max(S)}] = G[S \ {Max(S)}])
            BY <3>1 DEF UpTo
        <3> HIDE DEF f
        <3> QED BY <1>4, <3>2, <3>3
    <2> HIDE DEF f
    <2>2. f = [S \in SUBSET (1..N) |-> f[S]]
        BY DEF f
    <2>3. Is(f)
        BY <2>1, <2>2
    <2> HIDE DEF Is
    <2> QED BY <2>3
<1> HIDE DEF F
<1>7. FoldFollows(F, V, N, base, step)
    <2>1. F[{}] = base
        BY <1>6
    <2>2. ASSUME NEW S \in SUBSET UpTo(N), S # {}, F[BeforeLast(N)[S]] \in V
          PROVE  F[S] = step[LastOf(N)[S]][F[BeforeLast(N)[S]]]
        <3>1. /\ S \in SUBSET (1..N) /\ Max(S) \in UpTo(N) /\ F[S \ {Max(S)}] \in V
              /\ LastOf(N)[S] = Max(S) /\ BeforeLast(N)[S] = S \ {Max(S)}
            <4> HIDE DEF base, step
            <4> QED BY <1>4, <1>5, <2>2 DEF UpTo
        <3>2. F[S] = F[S \ {Max(S)}] + s[Max(S)]
            BY <1>6, <2>2, <3>1
        <3>3. step[Max(S)][F[S \ {Max(S)}]] = F[S \ {Max(S)}] + s[Max(S)]
            BY <3>1
        <3> HIDE DEF step
        <3> QED BY <3>1, <3>2, <3>3
    <2> HIDE DEF base, step
    <2> QED BY <2>1, <2>2 DEF FoldFollows
<1>8. /\ F[UpTo(0)] = base
      /\ \A n \in 0..N : F[UpTo(n)] \in V
      /\ \A n \in 1..N : F[UpTo(n)] = step[n][F[UpTo(n - 1)]]
    <2> HIDE DEF base, step
    <2> QED BY <1>3, <1>7, FoldsAreFollowed
<1>9. g \in [0..N -> V] /\ g[0] = 0 /\ all = g[N]
    <2> HIDE DEF step
    <2> QED BY <1>1, <1>2, <1>8
<1>10. \A n \in 1..N : g[n] = g[n - 1] + s[n]
    <2> SUFFICES ASSUME NEW n \in 1..N PROVE F[UpTo(n)] = F[UpTo(n - 1)] + s[n]
        BY <1>1
    <2>1. n \in UpTo(N) /\ F[UpTo(n - 1)] \in V /\ F[UpTo(n)] = step[n][F[UpTo(n - 1)]]
        <3> HIDE DEF step
        <3> QED BY <1>1, <1>8 DEF UpTo
    <2> QED BY <2>1
<1> HIDE DEF g
<1> QED BY <1>9, <1>10 DEF N, V, all

\* What adds the numbers up one by one has their sum in the end.
LEMMA SumIs ==
    ASSUME NEW s \in Seq(Nat), NEW h, h[0] = 0, \A n \in 1..Len(s) : h[n] = h[n - 1] + s[n]
    PROVE  Sum(s) = h[Len(s)]
<1> DEFINE N == Len(s)
<1>1. PICK g \in [0..N -> Nat] : /\ g[0] = 0 /\ Sum(s) = g[N]
                                 /\ \A n \in 1..N : g[n] = g[n - 1] + s[n]
    BY SumsUnfold
<1> DEFINE P == {n \in Nat : n <= N => h[n] = g[n]}
<1>2. 0 \in P
    BY <1>1
<1>3. ASSUME NEW n \in Nat, n \in P PROVE n + 1 \in P
    <2> SUFFICES ASSUME n + 1 <= N PROVE h[n + 1] = g[n + 1]
        OBVIOUS
    <2>1. N \in Nat /\ n + 1 \in 1..N /\ n + 1 - 1 = n /\ n <= N
        OBVIOUS
    <2> QED BY <1>1, <1>3, <2>1
<1>4. Nat \subseteq P
    <2> HIDE DEF P
    <2> QED BY <1>2, <1>3, NumbersAreReached
<1> QED BY <1>1, <1>4

LEMMA SumsJoin ==
    ASSUME NEW s \in Seq(Nat), NEW t \in Seq(Nat)
    PROVE  Sum(s \o t) = Sum(s) + Sum(t) /\ Sum(s) \in Nat
<1> DEFINE M == Len(s)
           N == Len(t)
           u == s \o t
<1>1. /\ u \in Seq(Nat) /\ Len(u) = M + N /\ M \in Nat /\ N \in Nat
      /\ \A n \in 1..M : u[n] = s[n]
      /\ \A n \in 1..N : u[M + n] = t[n]
    OBVIOUS
<1> HIDE DEF u, M, N
<1>2. PICK g \in [0..Len(u) -> Nat] : /\ g[0] = 0 /\ Sum(u) = g[Len(u)]
                                      /\ \A n \in 1..Len(u) : g[n] = g[n - 1] + u[n]
    BY <1>1, SumsUnfold
<1>3. Sum(s) = g[M]
    <2>1. \A n \in 1..M : n \in 1..Len(u)
        BY <1>1
    <2>2. \A n \in 1..M : g[n] = g[n - 1] + s[n]
        BY <1>1, <1>2, <2>1
    <2> QED BY <1>2, <2>2, SumIs DEF M
<1> DEFINE h == [n \in 0..N |-> g[M + n] - g[M]]
<1>4. \A n \in 0..N : M + n \in 0..Len(u) /\ g[M + n] \in Nat
    BY <1>1, <1>2
<1>5. Sum(t) = h[N]
    <2>1. h[0] = 0
        BY <1>1, <1>4
    <2>2. ASSUME NEW n \in 1..N PROVE h[n] = h[n - 1] + t[n]
        <3>1. /\ M + n \in 1..Len(u) /\ M + n - 1 = M + (n - 1)
              /\ n \in 0..N /\ n - 1 \in 0..N /\ 0 \in 0..N /\ M + 0 = M
            BY <1>1
        <3>2. g[M + n] = g[M + (n - 1)] + t[n]
            BY <1>1, <1>2, <3>1
        <3>3. g[M + n] \in Nat /\ g[M + (n - 1)] \in Nat /\ g[M] \in Nat /\ t[n] \in Nat
            BY <1>4, <3>1 DEF N
        <3> QED BY <3>1, <3>2, <3>3
    <2> HIDE DEF h
    <2> QED BY <2>1, <2>2, SumIs DEF N
<1>6. h[N] = g[M + N] - g[M] /\ g[M + N] \in Nat /\ g[M] \in Nat
    BY <1>1, <1>4
<1> HIDE DEF h
<1>7. Sum(u) = g[M + N]
    BY <1>1, <1>2
<1> QED BY <1>3, <1>5, <1>6, <1>7 DEF u

LEMMA SumOfOne ==
    ASSUME NEW n \in Nat
    PROVE  Sum(<<>>) = 0 /\ Sum(<<n>>) = n
<1>1. Sum(<<>>) = 0
    <2> DEFINE h == [i \in {0} |-> 0]
    <2>1. h[0] = 0 /\ \A i \in 1..Len(<<>>) : h[i] = h[i - 1] + <<>>[i]
        OBVIOUS
    <2> HIDE DEF h
    <2>2. <<>> \in Seq(Nat) /\ Len(<<>>) = 0
        OBVIOUS
    <2>3. Sum(<<>>) = h[Len(<<>>)]
        BY <2>1, <2>2, SumIs
    <2> QED BY <2>1, <2>2, <2>3
<1>2. Sum(<<n>>) = n
    <2> DEFINE s == <<n>>
               h == [i \in {0, 1} |-> IF i = 0 THEN 0 ELSE n]
    <2>1. s \in Seq(Nat) /\ Len(s) = 1 /\ s[1] = n
        OBVIOUS
    <2>2. h[0] = 0 /\ h[1] = n
        OBVIOUS
    <2> HIDE DEF h, s
    <2>3. \A i \in 1..Len(s) : i = 1 /\ h[i] = h[i - 1] + s[i]
        BY <2>1, <2>2
    <2>4. Sum(s) = h[Len(s)]
        BY <2>1, <2>2, <2>3, SumIs
    <2> QED BY <2>1, <2>2, <2>4 DEF s
<1> QED BY <1>1, <1>2

\* The characters of blocks.
WeightOf(blocks) == Sum([i \in DOMAIN blocks |-> blocks[i].size])
TextBlocks == [part : {"whole"}, size : Nat]

LEMMA NumbersInOrder ==
    ASSUME NEW n \in Nat, NEW f \in [1..n -> Nat]
    PROVE  f \in Seq(Nat) /\ Len(f) = n
<1>1. f \in Seq(Nat)
    BY SeqDef
<1>2. DOMAIN f = 1..n /\ DOMAIN f = 1..Len(f) /\ Len(f) \in Nat
    BY <1>1, LenProperties
<1> QED BY <1>1, <1>2

LEMMA WeightsJoin ==
    ASSUME NEW b \in Seq(TextBlocks), NEW c \in Seq(TextBlocks)
    PROVE  WeightOf(b \o c) = WeightOf(b) + WeightOf(c) /\ WeightOf(b) \in Nat
<1> DEFINE s == [i \in DOMAIN b |-> b[i].size]
           t == [i \in DOMAIN c |-> c[i].size]
           u == [i \in DOMAIN (b \o c) |-> (b \o c)[i].size]
<1>1. \A d \in Seq(TextBlocks) : /\ [i \in DOMAIN d |-> d[i].size] \in Seq(Nat)
                             /\ Len([i \in DOMAIN d |-> d[i].size]) = Len(d)
                             /\ \A i \in 1..Len(d) : [j \in DOMAIN d |-> d[j].size][i] = d[i].size
    <2> SUFFICES ASSUME NEW d \in Seq(TextBlocks)
                 PROVE  /\ [i \in DOMAIN d |-> d[i].size] \in Seq(Nat)
                        /\ Len([i \in DOMAIN d |-> d[i].size]) = Len(d)
                        /\ \A i \in 1..Len(d) : [j \in DOMAIN d |-> d[j].size][i] = d[i].size
        OBVIOUS
    <2>1. \A i \in 1..Len(d) : d[i] \in TextBlocks
        OBVIOUS
    <2>2. \A x \in TextBlocks : x.size \in Nat
        BY DEF TextBlocks
    <2>3. \A i \in 1..Len(d) : d[i].size \in Nat
        BY <2>1, <2>2
    <2> DEFINE f == [i \in DOMAIN d |-> d[i].size]
    <2>4. Len(d) \in Nat /\ DOMAIN d = 1..Len(d)
        OBVIOUS
    <2>5. f \in [1..Len(d) -> Nat] /\ \A i \in 1..Len(d) : f[i] = d[i].size
        BY <2>3, <2>4
    <2> HIDE DEF f
    <2>6. f \in Seq(Nat) /\ Len(f) = Len(d)
        BY <2>4, <2>5, NumbersInOrder
    <2> QED BY <2>5, <2>6 DEF f
<1>2. s \in Seq(Nat) /\ t \in Seq(Nat) /\ Len(s) = Len(b) /\ Len(t) = Len(c)
    BY <1>1
<1>3. b \o c \in Seq(TextBlocks) /\ Len(b \o c) = Len(b) + Len(c)
    OBVIOUS
<1>4. /\ \A i \in 1..Len(b) : (b \o c)[i] = b[i] /\ s[i] = b[i].size
      /\ \A i \in 1..Len(c) : (b \o c)[Len(b) + i] = c[i] /\ t[i] = c[i].size
    BY <1>1
<1>5. u \in Seq(Nat) /\ Len(u) = Len(b) + Len(c)
    <2> DEFINE d == b \o c
    <2>1. d \in Seq(TextBlocks) /\ Len(d) = Len(b) + Len(c)
        BY <1>3
    <2> HIDE DEF d
    <2>2. [i \in DOMAIN d |-> d[i].size] \in Seq(Nat) /\ Len([i \in DOMAIN d |-> d[i].size]) = Len(d)
        BY <1>1, <2>1
    <2> QED BY <2>1, <2>2 DEF d
<1>6. \A i \in 1..(Len(b) + Len(c)) : u[i] = (b \o c)[i].size
    BY <1>3
<1> HIDE DEF s, t, u
<1>7. u = s \o t
    <2>1. /\ s \o t \in Seq(Nat) /\ Len(s \o t) = Len(b) + Len(c)
          /\ \A i \in 1..(Len(b) + Len(c)) :
                (s \o t)[i] = IF i <= Len(b) THEN s[i] ELSE t[i - Len(b)]
        <3>1. /\ s \o t \in Seq(Nat) /\ Len(s \o t) = Len(s) + Len(t)
              /\ \A i \in 1..(Len(s) + Len(t)) :
                    (s \o t)[i] = IF i <= Len(s) THEN s[i] ELSE t[i - Len(s)]
            BY <1>2, ConcatProperties
        <3>2. Len(s) = Len(b) /\ Len(t) = Len(c)
            BY <1>2
        <3> QED BY <3>1, <3>2
    <2>2. ASSUME NEW i \in 1..(Len(b) + Len(c)) PROVE u[i] = (s \o t)[i]
        <3>1. CASE i <= Len(b)
            <4>1. i \in 1..Len(b)
                BY <3>1
            <4> QED BY <1>4, <1>6, <2>1, <3>1, <4>1
        <3>2. CASE ~(i <= Len(b))
            <4> DEFINE j == i - Len(b)
            <4>1. j \in 1..Len(c) /\ i = Len(b) + j
                BY <3>2
            <4>2. (s \o t)[i] = t[j]
                BY <2>1, <3>2
            <4> HIDE DEF j
            <4> QED BY <1>4, <1>6, <4>1, <4>2
        <3> QED BY <3>1, <3>2
    <2>3. s \o t = [i \in 1..(Len(b) + Len(c)) |-> (s \o t)[i]]
        BY <2>1, LenProperties
    <2>4. u = [i \in 1..(Len(b) + Len(c)) |-> u[i]]
        BY <1>5, LenProperties
    <2> QED BY <2>2, <2>3, <2>4
<1>8. Sum(u) = Sum(s) + Sum(t) /\ Sum(s) \in Nat
    BY <1>2, <1>7, SumsJoin
<1> QED BY <1>8 DEF WeightOf, s, t, u

LEMMA WeightOfOne ==
    ASSUME NEW x \in TextBlocks
    PROVE  WeightOf(<<>>) = 0 /\ WeightOf(<<x>>) = x.size
<1>1. [i \in DOMAIN <<>> |-> <<>>[i].size] = <<>>
    OBVIOUS
<1>2. [i \in DOMAIN <<x>> |-> <<x>>[i].size] = <<x.size>> /\ x.size \in Nat
    BY DEF TextBlocks
<1> QED BY <1>1, <1>2, SumOfOne DEF WeightOf

\* The missing parts of a page, part by part.
PageTexts == [parts : SUBSET Parts, size : Nat]
LEMMA PartsUnfold ==
    ASSUME NEW found \in Seq(Parts), NEW held \in PageTexts, NEW limit
    PROVE  \E g \in [0..Len(found) -> PageTexts] :
              /\ g[0] = held /\ FoldLeft(LAMBDA t, p : AppendMissing(t, p, limit), held, found) = g[Len(found)]
              /\ \A n \in 1..Len(found) : g[n] = AppendMissing(g[n - 1], found[n], limit)
<1> DEFINE N == Len(found)
           Is(f) == f = [S \in SUBSET (1..N) |-> IF S = {} THEN held
                                                 ELSE AppendMissing(f[S \ {Max(S)}], found[Max(S)], limit)]
           F == CHOOSE f : Is(f)
           V == PageTexts
           base == held
           step == [x \in UpTo(N) |-> [v \in V |-> AppendMissing(v, found[x], limit)]]
           G == FoldUpTo(N, base, step)
           f == [S \in SUBSET (1..N) |-> G[S]]
           g == [n \in 0..N |-> F[UpTo(n)]]
           all == FoldLeft(LAMBDA t, p : AppendMissing(t, p, limit), held, found)
<1>1. N \in Nat /\ DOMAIN found = 1..N /\ \A n \in 1..N : found[n] \in Parts
    OBVIOUS
<1> HIDE DEF N
<1>2. all = F[UpTo(N)]
    BY <1>1 DEF UpTo, FoldLeft, MapThenFoldSet
<1>3. FoldsIn(V, N, base, step)
    <2>1. \A v \in V, n \in 1..N : AppendMissing(v, found[n], limit) \in V
        BY <1>1, ExtractionAssumption DEF AppendMissing, PageTexts
    <2>2. base \in V
        OBVIOUS
    <2> HIDE DEF V, base
    <2> QED BY <1>1, <2>1, <2>2 DEF UpTo, FoldsIn
<1>4. /\ G[{}] = base
      /\ \A S \in SUBSET UpTo(N) :
            /\ G[S] \in V
            /\ S # {} => /\ LastOf(N)[S] \in UpTo(N) /\ BeforeLast(N)[S] \in SUBSET UpTo(N)
                         /\ G[S] = step[LastOf(N)[S]][G[BeforeLast(N)[S]]]
    <2> HIDE DEF V, base, step
    <2> QED BY <1>3, SequencesFold
<1> HIDE DEF G, V, all
<1>5. \A S \in SUBSET (1..N) :
         LastOf(N)[S] = Max(S) /\ BeforeLast(N)[S] = S \ {Max(S)} /\ S \in SUBSET UpTo(N)
    BY DEF LastOf, BeforeLast, UpTo
<1>6. Is(F)
    <2>1. ASSUME NEW S \in SUBSET (1..N)
          PROVE  f[S] = IF S = {} THEN held ELSE AppendMissing(f[S \ {Max(S)}], found[Max(S)], limit)
        <3>1. S # {} => /\ Max(S) \in UpTo(N) /\ S \ {Max(S)} \in SUBSET UpTo(N)
                        /\ G[S] = step[Max(S)][G[S \ {Max(S)}]] /\ G[S \ {Max(S)}] \in V
            <4> HIDE DEF base, step
            <4> QED BY <1>4, <1>5
        <3>2. S # {} => G[S] = AppendMissing(G[S \ {Max(S)}], found[Max(S)], limit)
            BY <3>1
        <3>3. f[S] = G[S] /\ (S # {} => f[S \ {Max(S)}] = G[S \ {Max(S)}])
            BY <3>1 DEF UpTo
        <3> HIDE DEF f
        <3> QED BY <1>4, <3>2, <3>3
    <2> HIDE DEF f
    <2>2. f = [S \in SUBSET (1..N) |-> f[S]]
        BY DEF f
    <2>3. Is(f)
        BY <2>1, <2>2
    <2> HIDE DEF Is
    <2> QED BY <2>3
<1> HIDE DEF F
<1>7. FoldFollows(F, V, N, base, step)
    <2>1. F[{}] = base
        BY <1>6
    <2>2. ASSUME NEW S \in SUBSET UpTo(N), S # {}, F[BeforeLast(N)[S]] \in V
          PROVE  F[S] = step[LastOf(N)[S]][F[BeforeLast(N)[S]]]
        <3>1. /\ S \in SUBSET (1..N) /\ Max(S) \in UpTo(N) /\ F[S \ {Max(S)}] \in V
              /\ LastOf(N)[S] = Max(S) /\ BeforeLast(N)[S] = S \ {Max(S)}
            <4> HIDE DEF base, step
            <4> QED BY <1>4, <1>5, <2>2 DEF UpTo
        <3>2. F[S] = AppendMissing(F[S \ {Max(S)}], found[Max(S)], limit)
            BY <1>6, <2>2, <3>1
        <3>3. step[Max(S)][F[S \ {Max(S)}]] = AppendMissing(F[S \ {Max(S)}], found[Max(S)], limit)
            BY <3>1
        <3> HIDE DEF step
        <3> QED BY <3>1, <3>2, <3>3
    <2> HIDE DEF base, step
    <2> QED BY <2>1, <2>2 DEF FoldFollows
<1>8. /\ F[UpTo(0)] = base
      /\ \A n \in 0..N : F[UpTo(n)] \in V
      /\ \A n \in 1..N : F[UpTo(n)] = step[n][F[UpTo(n - 1)]]
    <2> HIDE DEF base, step
    <2> QED BY <1>3, <1>7, FoldsAreFollowed
<1>9. g \in [0..N -> V] /\ g[0] = held /\ all = g[N]
    <2> HIDE DEF step
    <2> QED BY <1>1, <1>2, <1>8
<1>10. \A n \in 1..N : g[n] = AppendMissing(g[n - 1], found[n], limit)
    <2> SUFFICES ASSUME NEW n \in 1..N PROVE F[UpTo(n)] = AppendMissing(F[UpTo(n - 1)], found[n], limit)
        BY <1>1
    <2>1. n \in UpTo(N) /\ F[UpTo(n - 1)] \in V /\ F[UpTo(n)] = step[n][F[UpTo(n - 1)]]
        <3> HIDE DEF step
        <3> QED BY <1>1, <1>8 DEF UpTo
    <2> QED BY <2>1
<1> HIDE DEF g
<1> QED BY <1>9, <1>10 DEF N, V, all

\* The lines of a page, line by line.
\* Between the lines of a page: what is held back, and the blocks that are cut.
PageCuts == [buffer : Nat, table : BOOLEAN, out : Seq(TextBlocks)]
CutHolds(cut) == cut.buffer + WeightOf(cut.out)

CutOf(b, t, o) == [buffer |-> b, table |-> t, out |-> o]

LEMMA PageCutsAreRecords ==
    /\ \A c \in PageCuts : /\ c = [buffer |-> c.buffer, table |-> c.table, out |-> c.out]
                       /\ c.buffer \in Nat /\ c.table \in BOOLEAN /\ c.out \in Seq(TextBlocks)
    /\ \A b \in Nat, t \in BOOLEAN, o \in Seq(TextBlocks) : CutOf(b, t, o) \in PageCuts
BY DEF PageCuts, CutOf

LEMMA FlushKeeps ==
    ASSUME NEW cut \in PageCuts
    PROVE  /\ Flush(cut) \in PageCuts /\ Flush(cut).buffer = 0
           /\ CutHolds(Flush(cut)) = CutHolds(cut) /\ CutHolds(cut) \in Nat
<1> DEFINE b == [part |-> "whole", size |-> cut.buffer]
<1>1. /\ cut.buffer \in Nat /\ cut.table \in BOOLEAN /\ cut.out \in Seq(TextBlocks)
      /\ b \in TextBlocks /\ b.size = cut.buffer
    BY DEF PageCuts, TextBlocks
<1>2. Append(cut.out, b) = cut.out \o <<b>> /\ <<b>> \in Seq(TextBlocks) /\ Append(cut.out, b) \in Seq(TextBlocks)
    BY <1>1
<1>3. WeightOf(Append(cut.out, b)) = WeightOf(cut.out) + cut.buffer /\ WeightOf(cut.out) \in Nat
    <2> HIDE DEF b
    <2> QED BY <1>1, <1>2, WeightsJoin, WeightOfOne
<1>4. CASE cut.buffer = 0
    BY <1>1, <1>3, <1>4 DEF Flush, CutHolds
<1>5. CASE cut.buffer # 0
    <2>1. Flush(cut) = [cut EXCEPT !.buffer = 0, !.out = Append(cut.out, b)]
        BY <1>5 DEF Flush
    <2> HIDE DEF b
    <2>2. Flush(cut) = [buffer |-> 0, table |-> cut.table, out |-> Append(cut.out, b)]
        BY <2>1, PageCutsAreRecords
    <2>3. /\ Flush(cut) \in PageCuts /\ Flush(cut).buffer = 0
          /\ Flush(cut).out = Append(cut.out, b)
        <3> DEFINE c == Flush(cut)
        <3>1. /\ c.buffer = 0 /\ c.table = cut.table /\ c.out = Append(cut.out, b)
              /\ c = [buffer |-> c.buffer, table |-> c.table, out |-> c.out]
            BY <2>2
        <3>2. c = CutOf(0, cut.table, Append(cut.out, b))
            BY <2>2 DEF CutOf
        <3> HIDE DEF c
        <3>3. CutOf(0, cut.table, Append(cut.out, b)) \in PageCuts
            BY <1>1, <1>2, PageCutsAreRecords
        <3> QED BY <3>1, <3>2, <3>3 DEF c
    <2> QED BY <1>1, <1>3, <2>3 DEF CutHolds
<1> QED BY <1>4, <1>5

LEMMA LinesCut ==
    ASSUME NEW cut \in PageCuts, NEW line \in LineKinds
    PROVE  /\ CutLine(cut, line) \in PageCuts
           /\ CutHolds(CutLine(cut, line)) = CutHolds(cut) + (IF line = "blank" THEN 0 ELSE 1)
<1>1. /\ Flush(cut) \in PageCuts /\ Flush(cut).buffer = 0
      /\ CutHolds(Flush(cut)) = CutHolds(cut) /\ CutHolds(cut) \in Nat
    BY FlushKeeps
<1>2. \A c \in PageCuts : /\ c = [buffer |-> c.buffer, table |-> c.table, out |-> c.out]
                      /\ c.buffer \in Nat /\ c.table \in BOOLEAN /\ c.out \in Seq(TextBlocks)
                      /\ WeightOf(c.out) \in Nat
    BY WeightsJoin DEF PageCuts
<1>3. CASE line = "blank"
    <2>1. CutLine(cut, line) = [Flush(cut) EXCEPT !.table = FALSE]
        BY <1>3 DEF CutLine
    <2>2. /\ CutLine(cut, line) \in PageCuts /\ CutLine(cut, line).buffer = Flush(cut).buffer
          /\ CutLine(cut, line).out = Flush(cut).out
        BY <1>1, <1>2, <2>1 DEF PageCuts
    <2> QED BY <1>1, <1>3, <2>2 DEF CutHolds
<1>4. CASE line = "heading"
    <2>1. CutLine(cut, line) = [Flush(cut) EXCEPT !.buffer = 1, !.table = FALSE]
        BY <1>4 DEF CutLine
    <2>2. /\ CutLine(cut, line) \in PageCuts /\ CutLine(cut, line).buffer = 1
          /\ CutLine(cut, line).out = Flush(cut).out
        BY <1>1, <1>2, <2>1 DEF PageCuts
    <2> QED BY <1>1, <1>2, <1>4, <2>2 DEF CutHolds
<1>5. CASE line \in {"table", "text"}
    <2> DEFINE same == IF cut.table = (line = "table") THEN cut ELSE Flush(cut)
    <2>1. same \in PageCuts /\ CutHolds(same) = CutHolds(cut)
        BY <1>1
    <2>2. CutLine(cut, line) = [same EXCEPT !.buffer = same.buffer + 1, !.table = line = "table"]
        BY <1>5 DEF CutLine
    <2> HIDE DEF same
    <2>3. CutLine(cut, line) = [buffer |-> same.buffer + 1, table |-> (line = "table"),
                               out |-> same.out]
        BY <1>2, <2>1, <2>2
    <2>4. (line = "table") \in BOOLEAN /\ same.buffer \in Nat /\ same.out \in Seq(TextBlocks)
        BY <1>2, <2>1
    <2>5. /\ CutLine(cut, line) \in PageCuts /\ CutLine(cut, line).buffer = same.buffer + 1
          /\ CutLine(cut, line).out = same.out
        <3> DEFINE c == CutLine(cut, line)
        <3>1. /\ c.buffer = same.buffer + 1 /\ c.table = (line = "table") /\ c.out = same.out
              /\ c = [buffer |-> c.buffer, table |-> c.table, out |-> c.out]
            BY <2>3
        <3>2. c = CutOf(same.buffer + 1, line = "table", same.out)
            BY <2>3 DEF CutOf
        <3> HIDE DEF c
        <3>3. same.buffer + 1 \in Nat
            BY <2>4
        <3>4. CutOf(same.buffer + 1, line = "table", same.out) \in PageCuts
            BY <2>4, <3>3, PageCutsAreRecords
        <3> QED BY <3>1, <3>2, <3>4 DEF c
    <2> QED BY <1>2, <1>5, <2>1, <2>4, <2>5 DEF CutHolds
<1> QED BY <1>3, <1>4, <1>5 DEF LineKinds

LEMMA LinesUnfold ==
    ASSUME NEW lines \in Seq(LineKinds), NEW cut \in PageCuts
    PROVE  \E g \in [0..Len(lines) -> PageCuts] :
              /\ g[0] = cut /\ FoldLeft(CutLine, cut, lines) = g[Len(lines)]
              /\ \A n \in 1..Len(lines) : g[n] = CutLine(g[n - 1], lines[n])
<1> DEFINE N == Len(lines)
           Is(f) == f = [S \in SUBSET (1..N) |-> IF S = {} THEN cut
                                                 ELSE CutLine(f[S \ {Max(S)}], lines[Max(S)])]
           F == CHOOSE f : Is(f)
           V == PageCuts
           base == cut
           step == [x \in UpTo(N) |-> [v \in V |-> CutLine(v, lines[x])]]
           G == FoldUpTo(N, base, step)
           f == [S \in SUBSET (1..N) |-> G[S]]
           g == [n \in 0..N |-> F[UpTo(n)]]
           all == FoldLeft(CutLine, cut, lines)
<1>1. N \in Nat /\ DOMAIN lines = 1..N /\ \A n \in 1..N : lines[n] \in LineKinds
    OBVIOUS
<1> HIDE DEF N
<1>2. all = F[UpTo(N)]
    BY <1>1 DEF UpTo, FoldLeft, MapThenFoldSet
<1>3. FoldsIn(V, N, base, step)
    <2>1. \A v \in V, n \in 1..N : CutLine(v, lines[n]) \in V
        BY <1>1, LinesCut
    <2>2. base \in V
        OBVIOUS
    <2> HIDE DEF V, base
    <2> QED BY <1>1, <2>1, <2>2 DEF UpTo, FoldsIn
<1>4. /\ G[{}] = base
      /\ \A S \in SUBSET UpTo(N) :
            /\ G[S] \in V
            /\ S # {} => /\ LastOf(N)[S] \in UpTo(N) /\ BeforeLast(N)[S] \in SUBSET UpTo(N)
                         /\ G[S] = step[LastOf(N)[S]][G[BeforeLast(N)[S]]]
    <2> HIDE DEF V, base, step
    <2> QED BY <1>3, SequencesFold
<1> HIDE DEF G, V, all
<1>5. \A S \in SUBSET (1..N) :
         LastOf(N)[S] = Max(S) /\ BeforeLast(N)[S] = S \ {Max(S)} /\ S \in SUBSET UpTo(N)
    BY DEF LastOf, BeforeLast, UpTo
<1>6. Is(F)
    <2>1. ASSUME NEW S \in SUBSET (1..N)
          PROVE  f[S] = IF S = {} THEN cut ELSE CutLine(f[S \ {Max(S)}], lines[Max(S)])
        <3>1. S # {} => /\ Max(S) \in UpTo(N) /\ S \ {Max(S)} \in SUBSET UpTo(N)
                        /\ G[S] = step[Max(S)][G[S \ {Max(S)}]] /\ G[S \ {Max(S)}] \in V
            <4> HIDE DEF base, step
            <4> QED BY <1>4, <1>5
        <3>2. S # {} => G[S] = CutLine(G[S \ {Max(S)}], lines[Max(S)])
            BY <3>1
        <3>3. f[S] = G[S] /\ (S # {} => f[S \ {Max(S)}] = G[S \ {Max(S)}])
            BY <3>1 DEF UpTo
        <3> HIDE DEF f
        <3> QED BY <1>4, <3>2, <3>3
    <2> HIDE DEF f
    <2>2. f = [S \in SUBSET (1..N) |-> f[S]]
        BY DEF f
    <2>3. Is(f)
        BY <2>1, <2>2
    <2> HIDE DEF Is
    <2> QED BY <2>3
<1> HIDE DEF F
<1>7. FoldFollows(F, V, N, base, step)
    <2>1. F[{}] = base
        BY <1>6
    <2>2. ASSUME NEW S \in SUBSET UpTo(N), S # {}, F[BeforeLast(N)[S]] \in V
          PROVE  F[S] = step[LastOf(N)[S]][F[BeforeLast(N)[S]]]
        <3>1. /\ S \in SUBSET (1..N) /\ Max(S) \in UpTo(N) /\ F[S \ {Max(S)}] \in V
              /\ LastOf(N)[S] = Max(S) /\ BeforeLast(N)[S] = S \ {Max(S)}
            <4> HIDE DEF base, step
            <4> QED BY <1>4, <1>5, <2>2 DEF UpTo
        <3>2. F[S] = CutLine(F[S \ {Max(S)}], lines[Max(S)])
            BY <1>6, <2>2, <3>1
        <3>3. step[Max(S)][F[S \ {Max(S)}]] = CutLine(F[S \ {Max(S)}], lines[Max(S)])
            BY <3>1
        <3> HIDE DEF step
        <3> QED BY <3>1, <3>2, <3>3
    <2> HIDE DEF base, step
    <2> QED BY <2>1, <2>2 DEF FoldFollows
<1>8. /\ F[UpTo(0)] = base
      /\ \A n \in 0..N : F[UpTo(n)] \in V
      /\ \A n \in 1..N : F[UpTo(n)] = step[n][F[UpTo(n - 1)]]
    <2> HIDE DEF base, step
    <2> QED BY <1>3, <1>7, FoldsAreFollowed
<1>9. g \in [0..N -> V] /\ g[0] = cut /\ all = g[N]
    <2> HIDE DEF step
    <2> QED BY <1>1, <1>2, <1>8
<1>10. \A n \in 1..N : g[n] = CutLine(g[n - 1], lines[n])
    <2> SUFFICES ASSUME NEW n \in 1..N PROVE F[UpTo(n)] = CutLine(F[UpTo(n - 1)], lines[n])
        BY <1>1
    <2>1. n \in UpTo(N) /\ F[UpTo(n - 1)] \in V /\ F[UpTo(n)] = step[n][F[UpTo(n - 1)]]
        <3> HIDE DEF step
        <3> QED BY <1>1, <1>8 DEF UpTo
    <2> QED BY <2>1
<1> HIDE DEF g
<1> QED BY <1>9, <1>10 DEF N, V, all

\* The pages of a document, page by page.
\* The blocks that a page is cut into hold its characters, each once.
LEMMA PagesAreCut ==
    ASSUME NEW lines \in Seq(LineKinds)
    PROVE  /\ PageCut(lines) \in Seq(TextBlocks)
           /\ WeightOf(PageCut(lines)) = Chars(lines) /\ Chars(lines) \in Nat
<1> DEFINE N == Len(lines)
           cut == [buffer |-> 0, table |-> FALSE, out |-> <<>>]
           Shown(n) == {i \in 1..n : lines[i] # "blank"}
<1>1. N \in Nat /\ DOMAIN lines = 1..N /\ \A n \in 1..N : lines[n] \in LineKinds
    OBVIOUS
<1>2. cut \in PageCuts
    BY DEF PageCuts
<1>3. CutHolds(cut) = 0
    <2>1. cut.buffer = 0 /\ cut.out = <<>>
        OBVIOUS
    <2>2. WeightOf(<<>>) = 0
        <3>1. [part |-> "whole", size |-> 0] \in TextBlocks
            BY DEF TextBlocks
        <3> QED BY <3>1, WeightOfOne
    <2> HIDE DEF cut
    <2> QED BY <2>1, <2>2 DEF CutHolds
<1> DEFINE all == FoldLeft(CutLine, cut, lines)
<1>4. PageCut(lines) = Flush(all).out
    BY DEF PageCut
<1> HIDE DEF cut
<1>5. PICK g \in [0..N -> PageCuts] : /\ g[0] = cut /\ all = g[N]
                                  /\ \A n \in 1..N : g[n] = CutLine(g[n - 1], lines[n])
    BY <1>2, LinesUnfold
<1> HIDE DEF all, N
<1> DEFINE P == {n \in Nat : n <= N => CutHolds(g[n]) = Cardinality(Shown(n))}
<1>6. 0 \in P
    <2>1. Shown(0) = {}
        OBVIOUS
    <2>2. Cardinality(Shown(0)) = 0
        BY <2>1, FS_EmptySet
    <2> HIDE DEF Shown
    <2> QED BY <1>3, <1>5, <2>2
<1>7. ASSUME NEW n \in Nat, n \in P PROVE n + 1 \in P
    <2> SUFFICES ASSUME n + 1 <= N PROVE CutHolds(g[n + 1]) = Cardinality(Shown(n + 1))
        OBVIOUS
    <2>1. n + 1 \in 1..N /\ n + 1 - 1 = n /\ n <= N /\ n \in 0..N
        BY <1>1
    <2>2. g[n + 1] = CutLine(g[n], lines[n + 1]) /\ g[n] \in PageCuts /\ lines[n + 1] \in LineKinds
        BY <1>1, <1>5, <2>1
    <2>3. CutHolds(g[n + 1]) = CutHolds(g[n]) + (IF lines[n + 1] = "blank" THEN 0 ELSE 1)
        BY <2>2, LinesCut
    <2>4. CutHolds(g[n]) = Cardinality(Shown(n)) /\ IsFiniteSet(Shown(n))
        <3>1. IsFiniteSet(1..n) /\ Shown(n) \subseteq 1..n
            BY 1 \in Int, n \in Int, FS_Interval, FS_Subset
        <3> QED BY <1>7, <2>1, <3>1, FS_Subset
    <2>5. CASE lines[n + 1] = "blank"
        <3>1. Shown(n + 1) = Shown(n)
            BY <2>5
        <3>2. CutHolds(g[n]) \in Nat
            BY <2>2, FlushKeeps
        <3> HIDE DEF Shown
        <3> QED BY <2>3, <2>4, <2>5, <3>1, <3>2
    <2>6. CASE lines[n + 1] # "blank"
        <3>1. Shown(n + 1) = Shown(n) \cup {n + 1} /\ n + 1 \notin Shown(n)
            BY <2>6
        <3>2. Cardinality(Shown(n) \cup {n + 1}) = Cardinality(Shown(n)) + 1
            BY <2>4, <3>1, FS_AddElement
        <3> HIDE DEF Shown
        <3> QED BY <2>3, <2>4, <2>6, <3>1, <3>2
    <2> QED BY <2>5, <2>6
<1>8. Nat \subseteq P
    <2> HIDE DEF P
    <2> QED BY <1>6, <1>7, NumbersAreReached
<1>9. CutHolds(all) = Chars(lines) /\ all \in PageCuts
    <2>1. Shown(N) = {i \in DOMAIN lines : lines[i] # "blank"} /\ N \in 0..N /\ N \in P
        BY <1>1, <1>8
    <2>2. CutHolds(g[N]) = Cardinality(Shown(N))
        BY <2>1
    <2> HIDE DEF Shown
    <2> QED BY <1>5, <2>1, <2>2 DEF Chars
<1>10. /\ Flush(all) \in PageCuts /\ Flush(all).buffer = 0
       /\ CutHolds(Flush(all)) = CutHolds(all) /\ CutHolds(all) \in Nat
    BY <1>9, FlushKeeps
<1>11. Flush(all).out \in Seq(TextBlocks) /\ WeightOf(Flush(all).out) \in Nat
    BY <1>10, WeightsJoin DEF PageCuts
<1> QED BY <1>4, <1>9, <1>10, <1>11 DEF CutHolds

PdfPages == [stream : Nat, lines : Seq(LineKinds)]
PdfReasons == {"none", "content_stream_too_large", "output_too_large"}
ReadDocs == [stream : Nat, size : Nat, blocks : Seq(TextBlocks), reason : PdfReasons]

DocOf(stream, size, blocks, reason) ==
    [stream |-> stream, size |-> size, blocks |-> blocks, reason |-> reason]

LEMMA ReadDocsAreRecords ==
    /\ \A d \in ReadDocs : /\ d = [stream |-> d.stream, size |-> d.size, blocks |-> d.blocks,
                              reason |-> d.reason]
                       /\ d.stream \in Nat /\ d.size \in Nat /\ d.blocks \in Seq(TextBlocks)
                       /\ d.reason \in PdfReasons
    /\ \A stream \in Nat, size \in Nat, blocks \in Seq(TextBlocks), reason \in PdfReasons :
          DocOf(stream, size, blocks, reason) \in ReadDocs
BY DEF ReadDocs, DocOf

\* A page that is read adds the blocks it is cut into.
LEMMA PagesRead ==
    ASSUME NEW doc \in ReadDocs, NEW p \in PdfPages
    PROVE  /\ ReadPdfPage(doc, p) \in ReadDocs
           /\ ReadPdfPage(doc, p).reason = "none" =>
                 /\ doc.reason = "none"
                 /\ WeightOf(ReadPdfPage(doc, p).blocks) = WeightOf(doc.blocks) + Chars(p.lines)
<1> DEFINE stream == doc.stream + p.stream
           size == doc.size + Chars(p.lines) + (IF doc.blocks = <<>> THEN 0 ELSE 1)
           cut == PageCut(p.lines)
           chars == Chars(p.lines)
           next == ReadPdfPage(doc, p)
<1>1. /\ doc = [stream |-> doc.stream, size |-> doc.size, blocks |-> doc.blocks, reason |-> doc.reason]
      /\ doc.stream \in Nat /\ doc.size \in Nat /\ doc.blocks \in Seq(TextBlocks) /\ doc.reason \in PdfReasons
      /\ p.stream \in Nat /\ p.lines \in Seq(LineKinds)
    BY DEF ReadDocs, PdfPages
<1>2. cut \in Seq(TextBlocks) /\ WeightOf(cut) = chars /\ chars \in Nat
    BY <1>1, PagesAreCut
<1>3. doc.blocks \o cut \in Seq(TextBlocks) /\ WeightOf(doc.blocks \o cut) = WeightOf(doc.blocks) + chars
    <2> HIDE DEF cut, chars
    <2> QED BY <1>1, <1>2, WeightsJoin
<1>4. WeightOf(doc.blocks) \in Nat
    BY <1>1, WeightsJoin
<1>5. stream \in Nat /\ size \in Nat
    BY <1>1, <1>2
<1>6. \/ next = doc /\ doc.reason # "none"
      \/ next = [doc EXCEPT !.reason = "content_stream_too_large"]
      \/ next = [doc EXCEPT !.stream = stream] /\ doc.reason = "none" /\ chars = 0
      \/ next = [doc EXCEPT !.reason = "output_too_large"]
      \/ /\ next = [doc EXCEPT !.stream = stream, !.size = size, !.blocks = doc.blocks \o cut]
         /\ doc.reason = "none"
    <2>1. chars = 0 \/ chars > 0
        BY <1>2
    <2>2. stream > MaxStream \/ stream <= MaxStream
        BY <1>5, ExtractionAssumption
    <2> QED BY <2>1, <2>2 DEF ReadPdfPage
<1> HIDE DEF stream, size, cut, chars, next
<1>7. CASE next = doc /\ doc.reason # "none"
    BY <1>7 DEF next
<1>8. CASE next = [doc EXCEPT !.reason = "content_stream_too_large"]
    <2>1. next \in ReadDocs /\ next.reason = "content_stream_too_large"
        <3>1. next = [stream |-> doc.stream, size |-> doc.size, blocks |-> doc.blocks,
                      reason |-> "content_stream_too_large"]
            BY <1>1, <1>8
        <3> DEFINE reason == "content_stream_too_large"
        <3>2. reason \in PdfReasons /\ next = DocOf(doc.stream, doc.size, doc.blocks, reason)
            BY <3>1 DEF DocOf, PdfReasons
        <3> HIDE DEF reason
        <3>3. next \in ReadDocs
            BY <1>1, <3>2, ReadDocsAreRecords
        <3> QED BY <3>1, <3>3    <2> QED BY <2>1 DEF next
<1>9. CASE next = [doc EXCEPT !.stream = stream] /\ doc.reason = "none" /\ chars = 0
    <2>1. next \in ReadDocs /\ next.blocks = doc.blocks
        BY <1>1, <1>5, <1>9 DEF ReadDocs
    <2> QED BY <1>4, <1>9, <2>1 DEF next, chars
<1>10. CASE next = [doc EXCEPT !.reason = "output_too_large"]
    <2>1. next \in ReadDocs /\ next.reason = "output_too_large"
        <3>1. next = [stream |-> doc.stream, size |-> doc.size, blocks |-> doc.blocks,
                      reason |-> "output_too_large"]
            BY <1>1, <1>10
        <3> DEFINE reason == "output_too_large"
        <3>2. reason \in PdfReasons /\ next = DocOf(doc.stream, doc.size, doc.blocks, reason)
            BY <3>1 DEF DocOf, PdfReasons
        <3> HIDE DEF reason
        <3>3. next \in ReadDocs
            BY <1>1, <3>2, ReadDocsAreRecords
        <3> QED BY <3>1, <3>3    <2> QED BY <2>1 DEF next
<1>11. CASE /\ next = [doc EXCEPT !.stream = stream, !.size = size, !.blocks = doc.blocks \o cut]
            /\ doc.reason = "none"
    <2>1. next \in ReadDocs /\ next.blocks = doc.blocks \o cut
        BY <1>1, <1>3, <1>5, <1>11 DEF ReadDocs
    <2> QED BY <1>3, <1>11, <2>1 DEF next, chars
<1> QED BY <1>6, <1>7, <1>8, <1>9, <1>10, <1>11

LEMMA PagesUnfold ==
    ASSUME NEW pages \in Seq(PdfPages), NEW doc \in ReadDocs
    PROVE  \E g \in [0..Len(pages) -> ReadDocs] :
              /\ g[0] = doc /\ FoldLeft(ReadPdfPage, doc, pages) = g[Len(pages)]
              /\ \A n \in 1..Len(pages) : g[n] = ReadPdfPage(g[n - 1], pages[n])
<1> DEFINE N == Len(pages)
           Is(f) == f = [S \in SUBSET (1..N) |-> IF S = {} THEN doc
                                                 ELSE ReadPdfPage(f[S \ {Max(S)}], pages[Max(S)])]
           F == CHOOSE f : Is(f)
           V == ReadDocs
           base == doc
           step == [x \in UpTo(N) |-> [v \in V |-> ReadPdfPage(v, pages[x])]]
           G == FoldUpTo(N, base, step)
           f == [S \in SUBSET (1..N) |-> G[S]]
           g == [n \in 0..N |-> F[UpTo(n)]]
           all == FoldLeft(ReadPdfPage, doc, pages)
<1>1. N \in Nat /\ DOMAIN pages = 1..N /\ \A n \in 1..N : pages[n] \in PdfPages
    OBVIOUS
<1> HIDE DEF N
<1>2. all = F[UpTo(N)]
    BY <1>1 DEF UpTo, FoldLeft, MapThenFoldSet
<1>3. FoldsIn(V, N, base, step)
    <2>1. \A v \in V, n \in 1..N : ReadPdfPage(v, pages[n]) \in V
        BY <1>1, PagesRead
    <2>2. base \in V
        OBVIOUS
    <2> HIDE DEF V, base
    <2> QED BY <1>1, <2>1, <2>2 DEF UpTo, FoldsIn
<1>4. /\ G[{}] = base
      /\ \A S \in SUBSET UpTo(N) :
            /\ G[S] \in V
            /\ S # {} => /\ LastOf(N)[S] \in UpTo(N) /\ BeforeLast(N)[S] \in SUBSET UpTo(N)
                         /\ G[S] = step[LastOf(N)[S]][G[BeforeLast(N)[S]]]
    <2> HIDE DEF V, base, step
    <2> QED BY <1>3, SequencesFold
<1> HIDE DEF G, V, all
<1>5. \A S \in SUBSET (1..N) :
         LastOf(N)[S] = Max(S) /\ BeforeLast(N)[S] = S \ {Max(S)} /\ S \in SUBSET UpTo(N)
    BY DEF LastOf, BeforeLast, UpTo
<1>6. Is(F)
    <2>1. ASSUME NEW S \in SUBSET (1..N)
          PROVE  f[S] = IF S = {} THEN doc ELSE ReadPdfPage(f[S \ {Max(S)}], pages[Max(S)])
        <3>1. S # {} => /\ Max(S) \in UpTo(N) /\ S \ {Max(S)} \in SUBSET UpTo(N)
                        /\ G[S] = step[Max(S)][G[S \ {Max(S)}]] /\ G[S \ {Max(S)}] \in V
            <4> HIDE DEF base, step
            <4> QED BY <1>4, <1>5
        <3>2. S # {} => G[S] = ReadPdfPage(G[S \ {Max(S)}], pages[Max(S)])
            BY <3>1
        <3>3. f[S] = G[S] /\ (S # {} => f[S \ {Max(S)}] = G[S \ {Max(S)}])
            BY <3>1 DEF UpTo
        <3> HIDE DEF f
        <3> QED BY <1>4, <3>2, <3>3
    <2> HIDE DEF f
    <2>2. f = [S \in SUBSET (1..N) |-> f[S]]
        BY DEF f
    <2>3. Is(f)
        BY <2>1, <2>2
    <2> HIDE DEF Is
    <2> QED BY <2>3
<1> HIDE DEF F
<1>7. FoldFollows(F, V, N, base, step)
    <2>1. F[{}] = base
        BY <1>6
    <2>2. ASSUME NEW S \in SUBSET UpTo(N), S # {}, F[BeforeLast(N)[S]] \in V
          PROVE  F[S] = step[LastOf(N)[S]][F[BeforeLast(N)[S]]]
        <3>1. /\ S \in SUBSET (1..N) /\ Max(S) \in UpTo(N) /\ F[S \ {Max(S)}] \in V
              /\ LastOf(N)[S] = Max(S) /\ BeforeLast(N)[S] = S \ {Max(S)}
            <4> HIDE DEF base, step
            <4> QED BY <1>4, <1>5, <2>2 DEF UpTo
        <3>2. F[S] = ReadPdfPage(F[S \ {Max(S)}], pages[Max(S)])
            BY <1>6, <2>2, <3>1
        <3>3. step[Max(S)][F[S \ {Max(S)}]] = ReadPdfPage(F[S \ {Max(S)}], pages[Max(S)])
            BY <3>1
        <3> HIDE DEF step
        <3> QED BY <3>1, <3>2, <3>3
    <2> HIDE DEF base, step
    <2> QED BY <2>1, <2>2 DEF FoldFollows
<1>8. /\ F[UpTo(0)] = base
      /\ \A n \in 0..N : F[UpTo(n)] \in V
      /\ \A n \in 1..N : F[UpTo(n)] = step[n][F[UpTo(n - 1)]]
    <2> HIDE DEF base, step
    <2> QED BY <1>3, <1>7, FoldsAreFollowed
<1>9. g \in [0..N -> V] /\ g[0] = doc /\ all = g[N]
    <2> HIDE DEF step
    <2> QED BY <1>1, <1>2, <1>8
<1>10. \A n \in 1..N : g[n] = ReadPdfPage(g[n - 1], pages[n])
    <2> SUFFICES ASSUME NEW n \in 1..N PROVE F[UpTo(n)] = ReadPdfPage(F[UpTo(n - 1)], pages[n])
        BY <1>1
    <2>1. n \in UpTo(N) /\ F[UpTo(n - 1)] \in V /\ F[UpTo(n)] = step[n][F[UpTo(n - 1)]]
        <3> HIDE DEF step
        <3> QED BY <1>1, <1>8 DEF UpTo
    <2> QED BY <2>1
<1> HIDE DEF g
<1> QED BY <1>9, <1>10 DEF N, V, all

\* What is read of a PDF is all its pages hold.
LEMMA DocumentsAreWhole ==
    ASSUME NEW body \in Bodies, body.kind = "pdf", Extracted(body).ok
    PROVE  WeightOf(Extracted(body).blocks)
              = Sum([i \in DOMAIN body.pages |-> Chars(body.pages[i].lines)])
<1> DEFINE pages == body.pages
           N == Len(pages)
           first == [stream |-> 0, size |-> body.title, blocks |-> <<>>, reason |-> "none"]
           doc == FoldLeft(ReadPdfPage, first, pages)
           s == [i \in DOMAIN pages |-> Chars(pages[i].lines)]
<1>1. pages \in Seq(PdfPages) /\ body.title \in Nat /\ body.bytes \in Nat
    BY ExtractionAssumption DEF PdfPages
<1>2. first \in ReadDocs
    <2> DEFINE zero == 0
               empty == <<>>
               reason == "none"
    <2>1. zero \in Nat /\ empty \in Seq(TextBlocks) /\ reason \in PdfReasons
        BY EmptySeq DEF PdfReasons
    <2>2. first = DocOf(zero, body.title, empty, reason)
        BY DEF DocOf
    <2> HIDE DEF first, zero, empty, reason
    <2> QED BY <1>1, <2>1, <2>2, ReadDocsAreRecords
<1>3. first.reason = "none" /\ first.blocks = <<>>
    OBVIOUS
<1>4. /\ Extracted(body) = Document({}, doc.size, doc.blocks)
      /\ doc.reason = "none"
    <2>1. Extracted(body) = FromPdf(body)
        BY <1>1, ExtractionAssumption DEF Extracted, Refused
    <2>2. FromPdf(body).ok
        BY <2>1
    <2>3. N \in Nat /\ MaxPdfPages \in Nat
        BY <1>1, ExtractionAssumption
    <2> HIDE DEF first, doc, N, pages
    <2>4. FromPdf(body) = CASE ~body.parsed -> Refused("malformed_content")
             [] body.parsed /\ body.encrypted -> Refused("encrypted_document")
             [] body.parsed /\ ~body.encrypted /\ N > MaxPdfPages -> Refused("page_limit")
             [] body.parsed /\ ~body.encrypted /\ N <= MaxPdfPages ->
                   CASE doc.reason # "none" -> Refused(doc.reason)
                     [] doc.reason = "none" /\ doc.blocks = <<>> -> Refused("no_content")
                     [] doc.reason = "none" /\ doc.blocks # <<>> ->
                           Document({}, doc.size, doc.blocks)
        BY DEF FromPdf, first, doc, N, pages
    <2>5. \A reason : ~Refused(reason).ok
        BY DEF Refused
    <2> QED BY <2>1, <2>2, <2>3, <2>4, <2>5
<1> HIDE DEF first, doc, pages
<1>5. Extracted(body).blocks = doc.blocks
    BY <1>4 DEF Document
<1>6. PICK g \in [0..N -> ReadDocs] : /\ g[0] = first /\ doc = g[N]
                                  /\ \A n \in 1..N : g[n] = ReadPdfPage(g[n - 1], pages[n])
    BY <1>1, <1>2, PagesUnfold DEF doc
<1>7. N \in Nat /\ DOMAIN pages = 1..N /\ \A n \in 1..N : pages[n] \in PdfPages
    BY <1>1
<1>8. /\ s \in Seq(Nat) /\ Len(s) = N
      /\ \A n \in 1..N : s[n] = Chars(pages[n].lines) /\ s[n] \in Nat
    <2>1. \A n \in 1..N : Chars(pages[n].lines) \in Nat
        BY <1>7, PagesAreCut DEF PdfPages
    <2> QED BY <1>7, <2>1
<1> HIDE DEF N, s
<1>9. \A n \in 1..N : /\ g[n] \in ReadDocs /\ g[n - 1] \in ReadDocs
                      /\ g[n].reason = "none" =>
                            /\ g[n - 1].reason = "none"
                            /\ WeightOf(g[n].blocks) = WeightOf(g[n - 1].blocks) + s[n]
    <2> SUFFICES ASSUME NEW n \in 1..N
                 PROVE  /\ g[n] \in ReadDocs /\ g[n - 1] \in ReadDocs
                        /\ g[n].reason = "none" =>
                              /\ g[n - 1].reason = "none"
                              /\ WeightOf(g[n].blocks) = WeightOf(g[n - 1].blocks) + s[n]
        OBVIOUS
    <2>1. n \in 0..N /\ n - 1 \in 0..N
        BY <1>7
    <2>2. g[n] \in ReadDocs /\ g[n - 1] \in ReadDocs /\ pages[n] \in PdfPages
        BY <1>6, <1>7, <2>1
    <2> QED BY <1>6, <1>8, <2>2, PagesRead
\* Read backwards: no page before one that is read was refused.
<1> DEFINE P == {k \in Nat : k <= N => g[N - k].reason = "none"}
<1>10. 0 \in P
    BY <1>4, <1>6, <1>7
<1>11. ASSUME NEW k \in Nat, k \in P PROVE k + 1 \in P
    <2> SUFFICES ASSUME k + 1 <= N PROVE g[N - (k + 1)].reason = "none"
        OBVIOUS
    <2>1. N - k \in 1..N /\ N - (k + 1) = N - k - 1 /\ k <= N
        BY <1>7
    <2> QED BY <1>9, <1>11, <2>1
<1>12. Nat \subseteq P
    <2> HIDE DEF P
    <2> QED BY <1>10, <1>11, NumbersAreReached
<1>13. \A n \in 1..N : g[n].reason = "none"
    <2> SUFFICES ASSUME NEW n \in 1..N PROVE g[n].reason = "none"
        OBVIOUS
    <2>1. N - n \in Nat /\ N - n <= N /\ N - (N - n) = n
        BY <1>7
    <2> QED BY <1>12, <2>1
<1> DEFINE h == [n \in 0..N |-> WeightOf(g[n].blocks)]
<1>14. h[0] = 0
    <2>1. [part |-> "whole", size |-> 0] \in TextBlocks
        BY DEF TextBlocks
    <2>2. WeightOf(<<>>) = 0
        BY <2>1, WeightOfOne
    <2>3. h[0] = WeightOf(g[0].blocks)
        BY <1>7
    <2> HIDE DEF h
    <2> QED BY <1>3, <1>6, <2>2, <2>3
<1>15. \A n \in 1..N : h[n] = h[n - 1] + s[n]
    BY <1>7, <1>9, <1>13
<1>16. h[N] = WeightOf(doc.blocks)
    BY <1>6, <1>7
<1> HIDE DEF h
<1>17. Sum(s) = h[N]
    BY <1>8, <1>14, <1>15, SumIs
<1> QED BY <1>5, <1>16, <1>17 DEF s, pages

\* The sizes of parts add up to a number, whatever the order they are taken in.
LEMMA TotalsAreNumbers ==
    ASSUME NEW S \in SUBSET Parts, IsFiniteSet(S)
    PROVE  TotalSize(S) \in Nat
<1> DEFINE Is(f) == f = [s \in SUBSET S |-> IF s = {} THEN 0
                                             ELSE f[s \ {CHOOSE x \in s : TRUE}]
                                                     + SizeOf[CHOOSE x \in s : TRUE]]
           F == CHOOSE f : Is(f)
           pick == [s \in SUBSET S |-> CHOOSE x \in s : TRUE]
           rest == [s \in SUBSET S |-> s \ {pick[s]}]
           step == [x \in S |-> [v \in Nat |-> v + SizeOf[x]]]
           zero == 0
           G == FoldOf(S, zero, pick, rest, step)
           f == [s \in SUBSET S |-> G[s]]
           all == TotalSize(S)
<1>1. all = F[S]
    BY DEF TotalSize, FoldSet, MapThenFoldSet
<1>2. \A x \in S : SizeOf[x] \in Nat
    BY ExtractionAssumption
<1>3. \A s \in SUBSET S : s # {} => (CHOOSE x \in s : TRUE) \in s
    OBVIOUS
<1>4. Picks(S, pick, rest)
    BY <1>3 DEF Picks
<1>5. Folding(S, pick, rest, Nat, zero, step)
    BY <1>2, <1>4 DEF Folding
<1>6. \A s \in SUBSET S : /\ pick[s] = (CHOOSE x \in s : TRUE)
                          /\ rest[s] = s \ {CHOOSE x \in s : TRUE}
    OBVIOUS
<1>7. \A s \in SUBSET S : s # {} => pick[s] \in S /\ rest[s] \in SUBSET S
    BY <1>3, <1>6
<1>8. /\ G[{}] = zero
      /\ \A s \in SUBSET S : /\ G[s] \in Nat
                             /\ s # {} => G[s] = step[pick[s]][G[rest[s]]]
    <2> HIDE DEF pick, rest, step, zero
    <2> QED BY <1>5, FoldsExist
<1> HIDE DEF G, all
<1>9. Is(F)
    <2>1. ASSUME NEW s \in SUBSET S
          PROVE  f[s] = IF s = {} THEN 0 ELSE f[s \ {CHOOSE x \in s : TRUE}]
                                                 + SizeOf[CHOOSE x \in s : TRUE]
        <3>1. s # {} => /\ G[s] = step[pick[s]][G[rest[s]]] /\ G[rest[s]] \in Nat
                        /\ pick[s] \in S /\ rest[s] \in SUBSET S
            <4> HIDE DEF pick, rest, step, zero
            <4> QED BY <1>7, <1>8
        <3>2. s # {} => G[s] = G[rest[s]] + SizeOf[pick[s]]
            <4> HIDE DEF pick, rest
            <4> QED BY <3>1
        <3>3. f[s] = G[s] /\ (s # {} => f[rest[s]] = G[rest[s]])
            <4> HIDE DEF pick, rest
            <4> QED BY <3>1
        <3>4. s # {} => f[s] = f[rest[s]] + SizeOf[pick[s]]
            BY <3>2, <3>3
        <3>5. s = {} => f[s] = 0
            BY <1>8, <3>3
        <3> HIDE DEF f, pick, rest
        <3> QED BY <1>6, <3>4, <3>5
    <2> HIDE DEF f
    <2>2. f = [s \in SUBSET S |-> f[s]]
        BY DEF f
    <2>3. Is(f)
        BY <2>1, <2>2
    <2> HIDE DEF Is
    <2> QED BY <2>3
<1> HIDE DEF F
<1> DEFINE P == {s \in SUBSET S : F[s] \in Nat}
<1>10. {} \in P
    BY <1>9
<1>11. ASSUME NEW s \in SUBSET S, s # {}, rest[s] \in P PROVE s \in P
    <2>1. F[s] = F[rest[s]] + SizeOf[pick[s]] /\ SizeOf[pick[s]] \in Nat
        BY <1>2, <1>6, <1>7, <1>9, <1>11
    <2> QED BY <1>11, <2>1
<1>12. SUBSET S \subseteq P
    <2> HIDE DEF P, pick, rest
    <2> QED BY <1>4, <1>10, <1>11, SubsetsAreReached
<1>13. S \in P
    <2> HIDE DEF P
    <2> QED BY <1>12
<1> QED BY <1>1, <1>13 DEF all

\* A part that is missing is added, and none is taken away.
LEMMA PartsAreKept ==
    ASSUME NEW body \in Bodies, body.kind = "markup", Extracted(body).ok
    PROVE  body.kept \subseteq Extracted(body).parts
<1> DEFINE held == [parts |-> body.kept, size |-> TotalSize(body.kept)]
           limit == MaxChars - body.title
           text == FoldLeft(LAMBDA t, p : AppendMissing(t, p, limit), held, body.found)
           found == body.found
           N == Len(found)
<1>1. Extracted(body) = FromMarkup(body)
    BY ExtractionAssumption DEF Extracted, Refused
<1> DEFINE fits == held.size + body.title <= MaxChars
           blocks == SelectSeq(body.found, LAMBDA p : p \in text.parts)
<1> HIDE DEF held, text, limit, found, fits, blocks
<1>21. FromMarkup(body) =
         CASE ~body.parsed -> Refused("malformed_content")
           [] body.parsed /\ body.kept = {} -> Refused("no_content")
           [] body.parsed /\ body.kept # {} /\ held.size + body.title > MaxChars ->
                 Refused("output_too_large")
           [] body.parsed /\ body.kept # {} /\ fits ->
                 Document(text.parts, text.size + body.title,
                    IF blocks = <<>> THEN <<[part |-> "whole", size |-> text.size]>>
                    ELSE [i \in DOMAIN blocks |-> [part |-> blocks[i], size |-> SizeOf[blocks[i]]]])
    BY DEF FromMarkup, held, text, limit, found, fits, blocks
<1>22. \A reason : ~Refused(reason).ok
    BY DEF Refused
<1>2. body.parsed
    BY <1>1, <1>21, <1>22
<1> USE DEF held, text, limit, found
<1>3. /\ body.kept \in SUBSET Parts /\ IsFiniteSet(body.kept) /\ found \in Seq(Parts)
      /\ body.title \in Nat
    BY <1>2, ExtractionAssumption
<1>4. TotalSize(body.kept) \in Nat
    BY <1>3, TotalsAreNumbers
<1>5. held \in PageTexts /\ held.parts = body.kept
    BY <1>3, <1>4 DEF PageTexts
<1>6. Extracted(body).parts = text.parts
    <2>1. fits <=> ~(held.size + body.title > MaxChars)
        BY <1>3, <1>4, ExtractionAssumption DEF fits
    <2> HIDE DEF held, text, limit, found, fits, blocks
    <2>4. FromMarkup(body).ok
        BY <1>1
    <2>5. FromMarkup(body) = Document(text.parts, text.size + body.title,
                        IF blocks = <<>> THEN <<[part |-> "whole", size |-> text.size]>>
                        ELSE [i \in DOMAIN blocks |-> [part |-> blocks[i], size |-> SizeOf[blocks[i]]]])
        BY <1>2, <1>21, <1>22, <2>1, <2>4
    <2> QED BY <1>1, <2>5 DEF Document
<1> HIDE DEF held, limit
<1>7. PICK g \in [0..N -> PageTexts] : /\ g[0] = held /\ text = g[N]
                                   /\ \A n \in 1..N : g[n] = AppendMissing(g[n - 1], found[n], limit)
    BY <1>3, <1>5, PartsUnfold
<1>8. N \in Nat
    BY <1>3
<1> HIDE DEF text, found, N
<1> DEFINE P == {n \in Nat : n <= N => body.kept \subseteq g[n].parts}
<1>9. 0 \in P
    BY <1>5, <1>7
<1>10. ASSUME NEW n \in Nat, n \in P PROVE n + 1 \in P
    <2> SUFFICES ASSUME n + 1 <= N PROVE body.kept \subseteq g[n + 1].parts
        OBVIOUS
    <2>1. n + 1 \in 1..N /\ n + 1 - 1 = n /\ n <= N
        BY <1>8
    <2>2. g[n + 1] = AppendMissing(g[n], found[n + 1], limit)
        BY <1>7, <2>1
    <2>3. g[n].parts \subseteq AppendMissing(g[n], found[n + 1], limit).parts
        BY DEF AppendMissing
    <2> QED BY <1>10, <2>1, <2>2, <2>3
<1>11. Nat \subseteq P
    <2> HIDE DEF P
    <2> QED BY <1>9, <1>10, NumbersAreReached
<1>12. N \in P /\ N <= N
    BY <1>8, <1>11
<1> QED BY <1>6, <1>7, <1>12

\* Where the call is tells what may have become of its process, and what it may have printed.
ExtractionInv ==
    /\ extraction = [at |-> extraction.at, body |-> extraction.body, why |-> extraction.why,
                     cancels |-> extraction.cancels, result |-> extraction.result]
    /\ worker = [state |-> worker.state, result |-> worker.result]
    /\ extraction.at \in {"new", "waiting", "reaping"} \cup Finished
    /\ extraction.at = "new" => worker.state = "none" /\ worker.result = NoResult
    /\ extraction.at = "waiting" =>
          /\ extraction.body \in Bodies
          /\ worker.state \in {"running", "exited"}
          /\ worker.result \in {NoResult, Extracted(extraction.body)}
    /\ extraction.at = "reaping" => worker.state \in {"killed", "exited"}
    /\ extraction.at \in Finished => worker.state \in {"none", "reaped"}
    /\ extraction.at = "document" =>
          /\ extraction.body \in Bodies
          /\ extraction.result = Extracted(extraction.body)
          /\ extraction.result.ok /\ extraction.result.size <= MaxChars

\* What is taken for a document is what was printed, and no larger than it may be.
LEMMA DocumentsAreDecoded ==
    ASSUME NEW printed, Decoded(printed).ok
    PROVE  Decoded(printed) = printed /\ printed.ok /\ printed.size <= MaxChars
BY DEF Decoded, Refused

\* Every step of the call and of its process keeps to that.
LEMMA ExtractionSteps ==
    ASSUME ExtractionInv, [ExtractionNext]_extractionVars
    PROVE  ExtractionInv'
<1>1. CASE UNCHANGED extractionVars
    BY <1>1 DEF ExtractionInv, extractionVars
<1>2. ASSUME extraction.at = "new", NEW body \in Bodies, SpawnWorker(body) PROVE ExtractionInv'
    <2>1. CASE body.bytes > MaxInput
        BY <1>2, <2>1 DEF ExtractionInv, SpawnWorker, EndExtraction, Finished
    <2>2. CASE ~(body.bytes > MaxInput)
        BY <1>2, <2>2 DEF ExtractionInv, SpawnWorker, Finished
    <2> QED BY <2>1, <2>2
<1>3. ASSUME NEW why \in {"timeout", "cancelled"}, Abandon(why) PROVE ExtractionInv'
    BY <1>3 DEF ExtractionInv, Abandon, Finished
<1>4. ASSUME WorkerParses PROVE ExtractionInv'
    <2> HIDE DEF Extracted
    <2> QED BY <1>4 DEF ExtractionInv, WorkerParses, Finished
<1>5. ASSUME WorkerDies PROVE ExtractionInv'
    BY <1>5 DEF ExtractionInv, WorkerDies, Finished
<1>6. ASSUME Collect PROVE ExtractionInv'
    <2> DEFINE printed == IF worker.result = NoResult THEN Refused("malformed_content")
                         ELSE Decoded(worker.result)
    <2>1. /\ extraction' = [at |-> IF printed.ok THEN "document" ELSE "failed",
                            body |-> extraction.body, why |-> printed.reason,
                            cancels |-> extraction.cancels, result |-> printed]
          /\ worker' = [state |-> "reaped", result |-> worker.result]
          /\ extraction.at = "waiting"
        <3> HIDE DEF printed
        <3> QED BY <1>6 DEF ExtractionInv, Collect, EndExtraction, printed
    <2>2. /\ extraction.body \in Bodies
          /\ worker.result \in {NoResult, Extracted(extraction.body)}
        BY <2>1 DEF ExtractionInv
    <2>3. printed.ok => /\ printed = Extracted(extraction.body)
                       /\ printed.ok /\ printed.size <= MaxChars
        <3>1. ~Refused("malformed_content").ok
            BY DEF Refused
        <3> QED BY <2>2, <3>1, DocumentsAreDecoded
    <2> HIDE DEF printed
    <2> QED BY <2>1, <2>2, <2>3 DEF ExtractionInv, Finished
<1>7. ASSUME CancelAgain PROVE ExtractionInv'
    BY <1>7 DEF ExtractionInv, CancelAgain, Finished
<1>8. ASSUME Reap PROVE ExtractionInv'
    BY <1>8 DEF ExtractionInv, Reap, EndExtraction, Finished
<1> QED BY <1>1, <1>2, <1>3, <1>4, <1>5, <1>6, <1>7, <1>8 DEF ExtractionNext

LEMMA DocumentsKeepToThat ==
    ASSUME ExtractionInv
    PROVE  NoWorkerIsLeft
<1>1. ASSUME extraction.at = "document", extraction.body.kind = "markup"
      PROVE  extraction.body.kept \subseteq extraction.result.parts
    BY <1>1, PartsAreKept DEF ExtractionInv
<1>2. ASSUME extraction.at = "document", extraction.body.kind = "pdf"
      PROVE  WeightOf(extraction.result.blocks)
                = Sum([i \in DOMAIN extraction.body.pages |-> Chars(extraction.body.pages[i].lines)])
    BY <1>2, DocumentsAreWhole DEF ExtractionInv
<1> QED BY <1>1, <1>2 DEF ExtractionInv, NoWorkerIsLeft, WeightOf

\* A call that is over has left no process, and its document is whole and within the limits,
\* however often it was cancelled (AsyncLocalExtractor.extract, _terminate_worker).
THEOREM NoWorkerStays == ExtractionSpec => []NoWorkerIsLeft
<1>1. ExtractionInit => ExtractionInv
    BY DEF ExtractionInit, ExtractionInv, Finished
<1>2. ExtractionInv /\ [ExtractionNext]_extractionVars => ExtractionInv'
    BY ExtractionSteps
<1>3. ExtractionInv => NoWorkerIsLeft
    BY DocumentsKeepToThat
<1> QED BY <1>1, <1>2, <1>3, PTL DEF ExtractionSpec

\* Whatever a page holds and however its reading ends, in any interleaving: what is read is
\* what the page shows, and no process is left (parse_html_blocks, parse_html_tables and
\* AsyncLocalExtractor.extract).
THEOREM ReadingStaysRight == ReadingSpec => []PagesAreReadRight
<1>1. [ReadingNext]_readingVars => [PageNext]_pageVars /\ [ExtractionNext]_extractionVars
    BY DEF ReadingNext, readingVars, pageVars, extractionVars
<1>2. ReadingSpec => PageSpec /\ ExtractionSpec
    BY <1>1, PTL DEF ReadingSpec, PageSpec, ExtractionSpec
<1>3. BlocksShowThePage /\ NoWorkerIsLeft => PagesAreReadRight
    BY DEF PagesAreReadRight
<1> QED BY <1>2, <1>3, BlocksShow, NoWorkerStays, PTL

(***************************************************************************)
(* Texts, from their characters up: where one has another, how it is cut,  *)
(* packed and joined, and that a part of its own stays one.                *)
(***************************************************************************)
Characters == Letters \cup {Space, Period}

\* A text that is put after another, and what is between two places of it, are texts.
LEMMA NoPhrase == <<>> \in Phrases /\ Len(<<>>) = 0
BY DEF Phrases

LEMMA PhrasesAreSeqs ==
    /\ \A t \in Phrases : /\ t \in Seq(Characters) /\ Len(t) \in Nat /\ DOMAIN t = 1..Len(t)
                          /\ \A i \in 1..Len(t) : t[i] \in Characters
    /\ \A n \in Nat : \A t : t \in [1..n -> Characters] => t \in Phrases /\ Len(t) = n
    /\ \A s \in Phrases : \A t \in Phrases :
          /\ s \o t \in Phrases /\ Len(s \o t) = Len(s) + Len(t)
          /\ \A i \in 1..Len(s) : (s \o t)[i] = s[i]
          /\ \A i \in 1..Len(t) : (s \o t)[Len(s) + i] = t[i]
    /\ <<Space>> \in Phrases /\ Len(<<Space>>) = 1 /\ <<Space>>[1] = Space
<1>1. \A t \in Seq(Characters) : /\ Len(t) \in Nat /\ DOMAIN t = 1..Len(t)
                            /\ \A i \in 1..Len(t) : t[i] \in Characters
    OBVIOUS
<1>2. ASSUME NEW n \in Nat, NEW t \in [1..n -> Characters] PROVE t \in Seq(Characters) /\ Len(t) = n
    <2>1. t \in Seq(Characters)
        BY SeqDef
    <2>2. DOMAIN t = 1..n /\ DOMAIN t = 1..Len(t) /\ Len(t) \in Nat
        BY <2>1, <1>1
    <2> QED BY <2>1, <2>2
<1>3. ASSUME NEW s \in Seq(Characters), NEW t \in Seq(Characters)
      PROVE  /\ s \o t \in Seq(Characters) /\ Len(s \o t) = Len(s) + Len(t)
             /\ \A i \in 1..Len(s) : (s \o t)[i] = s[i]
             /\ \A i \in 1..Len(t) : (s \o t)[Len(s) + i] = t[i]
    OBVIOUS
<1>4. <<Space>> \in Seq(Characters) /\ Len(<<Space>>) = 1 /\ <<Space>>[1] = Space
    BY DEF Characters
<1>5. Phrases = Seq(Characters)
    BY DEF Phrases, Characters
<1>6. \A t \in Phrases : /\ t \in Seq(Characters) /\ Len(t) \in Nat /\ DOMAIN t = 1..Len(t)
                          /\ \A i \in 1..Len(t) : t[i] \in Characters
    BY <1>1, <1>5
<1>7. \A s \in Phrases : \A t \in Phrases :
         /\ s \o t \in Phrases /\ Len(s \o t) = Len(s) + Len(t)
         /\ \A i \in 1..Len(s) : (s \o t)[i] = s[i]
         /\ \A i \in 1..Len(t) : (s \o t)[Len(s) + i] = t[i]
    BY <1>3, <1>5
<1>8. \A n \in Nat : \A t : t \in [1..n -> Characters] => t \in Phrases /\ Len(t) = n
    BY <1>2, <1>5
<1> QED BY <1>4, <1>5, <1>6, <1>7, <1>8

\* A text between two places of another.
LEMMA PiecesArePhrases ==
    ASSUME NEW t \in Phrases, NEW m \in Nat \ {0}, NEW n \in Int, n <= Len(t)
    PROVE  /\ SubSeq(t, m, n) \in Phrases
           /\ Len(SubSeq(t, m, n)) = IF m <= n THEN n - m + 1 ELSE 0
           /\ \A i \in 1..Len(SubSeq(t, m, n)) : SubSeq(t, m, n)[i] = t[m + i - 1] /\ m + i - 1 \in m..n
<1> DEFINE s == SubSeq(t, m, n)
<1>1. Len(t) \in Nat /\ \A i \in 1..Len(t) : t[i] \in Characters
    BY PhrasesAreSeqs
<1>2. \A i \in m..n : t[i] \in Characters
    BY <1>1
<1>3. /\ s \in Seq(Characters) /\ Len(s) = IF m <= n THEN n - m + 1 ELSE 0
      /\ \A i \in 1..(n - m + 1) : s[i] = t[m + i - 1]
    BY <1>2, SubSeqProperties
<1> HIDE DEF s
<1>4. s \in Phrases
    BY <1>3 DEF Phrases, Characters
<1>5. \A i \in 1..Len(s) : i \in 1..(n - m + 1) /\ m + i - 1 \in m..n
    BY <1>3
<1> QED BY <1>3, <1>4, <1>5 DEF s

\* A join of phrases is one, and so is what the wrapping of a text cuts off and leaves.
LEMMA PhrasesJoin ==
    \A p \in Phrases : \A e \in Phrases :
        Beside(p, e) \in Phrases
BY PhrasesAreSeqs DEF Beside

\* A join, text by text.
LEMMA JoinsUnfold ==
    ASSUME NEW texts \in Seq(Phrases)
    PROVE  \E g \in [0..Len(texts) -> Phrases] :
              /\ g[0] = <<>> /\ Join(texts) = g[Len(texts)]
              /\ \A n \in 1..Len(texts) : g[n] = Beside(g[n - 1], texts[n])
<1> DEFINE N == Len(texts)
           Is(f) == f = [S \in SUBSET (1..N) |-> IF S = {} THEN <<>>
                                                 ELSE Beside(f[S \ {Max(S)}], texts[Max(S)])]
           F == CHOOSE f : Is(f)
           V == Phrases
           base == <<>>
           step == [x \in UpTo(N) |-> [v \in V |-> Beside(v, texts[x])]]
           G == FoldUpTo(N, base, step)
           f == [S \in SUBSET (1..N) |-> G[S]]
           g == [n \in 0..N |-> F[UpTo(n)]]
           all == Join(texts)
<1>1. N \in Nat /\ DOMAIN texts = 1..N /\ \A n \in 1..N : texts[n] \in Phrases
    OBVIOUS
<1> HIDE DEF N
<1>2. all = F[UpTo(N)]
    BY <1>1 DEF UpTo, Join, FoldLeft, MapThenFoldSet
<1>3. FoldsIn(V, N, base, step)
    <2>1. \A v \in V, n \in 1..N : Beside(v, texts[n]) \in V
        BY <1>1, PhrasesJoin
    <2>2. base \in V
        BY NoPhrase
    <2> HIDE DEF V, base
    <2> QED BY <1>1, <2>1, <2>2 DEF UpTo, FoldsIn
<1>4. /\ G[{}] = base
      /\ \A S \in SUBSET UpTo(N) :
            /\ G[S] \in V
            /\ S # {} => /\ LastOf(N)[S] \in UpTo(N) /\ BeforeLast(N)[S] \in SUBSET UpTo(N)
                         /\ G[S] = step[LastOf(N)[S]][G[BeforeLast(N)[S]]]
    <2> HIDE DEF V, base, step
    <2> QED BY <1>3, SequencesFold
<1> HIDE DEF G, V, all
<1>5. \A S \in SUBSET (1..N) :
         LastOf(N)[S] = Max(S) /\ BeforeLast(N)[S] = S \ {Max(S)} /\ S \in SUBSET UpTo(N)
    BY DEF LastOf, BeforeLast, UpTo
<1>6. Is(F)
    <2>1. ASSUME NEW S \in SUBSET (1..N)
          PROVE  f[S] = IF S = {} THEN <<>> ELSE Beside(f[S \ {Max(S)}], texts[Max(S)])
        <3>1. S # {} => /\ Max(S) \in UpTo(N) /\ S \ {Max(S)} \in SUBSET UpTo(N)
                        /\ G[S] = step[Max(S)][G[S \ {Max(S)}]] /\ G[S \ {Max(S)}] \in V
            <4> HIDE DEF base, step
            <4> QED BY <1>4, <1>5
        <3>2. S # {} => G[S] = Beside(G[S \ {Max(S)}], texts[Max(S)])
            BY <3>1
        <3>3. f[S] = G[S] /\ (S # {} => f[S \ {Max(S)}] = G[S \ {Max(S)}])
            BY <3>1 DEF UpTo
        <3> HIDE DEF f
        <3> QED BY <1>4, <3>2, <3>3
    <2> HIDE DEF f
    <2>2. f = [S \in SUBSET (1..N) |-> f[S]]
        BY DEF f
    <2>3. Is(f)
        BY <2>1, <2>2
    <2> HIDE DEF Is
    <2> QED BY <2>3
<1> HIDE DEF F
<1>7. FoldFollows(F, V, N, base, step)
    <2>1. F[{}] = base
        BY <1>6
    <2>2. ASSUME NEW S \in SUBSET UpTo(N), S # {}, F[BeforeLast(N)[S]] \in V
          PROVE  F[S] = step[LastOf(N)[S]][F[BeforeLast(N)[S]]]
        <3>1. /\ S \in SUBSET (1..N) /\ Max(S) \in UpTo(N) /\ F[S \ {Max(S)}] \in V
              /\ LastOf(N)[S] = Max(S) /\ BeforeLast(N)[S] = S \ {Max(S)}
            <4> HIDE DEF base, step
            <4> QED BY <1>4, <1>5, <2>2 DEF UpTo
        <3>2. F[S] = Beside(F[S \ {Max(S)}], texts[Max(S)])
            BY <1>6, <2>2, <3>1
        <3>3. step[Max(S)][F[S \ {Max(S)}]] = Beside(F[S \ {Max(S)}], texts[Max(S)])
            BY <3>1
        <3> HIDE DEF step
        <3> QED BY <3>1, <3>2, <3>3
    <2> HIDE DEF base, step
    <2> QED BY <2>1, <2>2 DEF FoldFollows
<1>8. /\ F[UpTo(0)] = base
      /\ \A n \in 0..N : F[UpTo(n)] \in V
      /\ \A n \in 1..N : F[UpTo(n)] = step[n][F[UpTo(n - 1)]]
    <2> HIDE DEF base, step
    <2> QED BY <1>3, <1>7, FoldsAreFollowed
<1>9. g \in [0..N -> V] /\ g[0] = <<>> /\ all = g[N]
    <2> HIDE DEF step
    <2> QED BY <1>1, <1>2, <1>8
<1>10. \A n \in 1..N : g[n] = Beside(g[n - 1], texts[n])
    <2> SUFFICES ASSUME NEW n \in 1..N PROVE F[UpTo(n)] = Beside(F[UpTo(n - 1)], texts[n])
        BY <1>1
    <2>1. n \in UpTo(N) /\ F[UpTo(n - 1)] \in V /\ F[UpTo(n)] = step[n][F[UpTo(n - 1)]]
        <3> HIDE DEF step
        <3> QED BY <1>1, <1>8 DEF UpTo
    <2> QED BY <2>1
<1> HIDE DEF g
<1> QED BY <1>9, <1>10 DEF N, V, all

LEMMA JoinsArePhrases == \A texts \in Seq(Phrases) : Join(texts) \in Phrases
<1> SUFFICES ASSUME NEW texts \in Seq(Phrases) PROVE Join(texts) \in Phrases
    OBVIOUS
<1>1. PICK g \in [0..Len(texts) -> Phrases] : Join(texts) = g[Len(texts)]
    BY JoinsUnfold
<1> QED BY <1>1

\* The last and the first of some of the numbers up to another.
LEMMA EndsAreTaken ==
    ASSUME NEW N \in Nat, NEW S \in SUBSET (1..N), S # {}
    PROVE  /\ Max(S) \in S /\ \A n \in S : n <= Max(S)
           /\ Min(S) \in S /\ \A n \in S : Min(S) <= n
<1>1. PICK z \in S : \A y \in S : z <= y
    <2>1. S \subseteq Nat
        OBVIOUS
    <2> QED BY <2>1, LeastNumber
<1>2. Min(S) \in S /\ \A n \in S : Min(S) <= n
    BY <1>1 DEF Min
<1>3. PICK x \in S : \A y \in S : x >= y
    <2> DEFINE U == {N - y : y \in S}
    <2>1. U \subseteq Nat /\ U # {}
        OBVIOUS
    <2>2. PICK u \in U : \A w \in U : u <= w
        <3> HIDE DEF U
        <3> QED BY <2>1, LeastNumber
    <2>3. PICK x \in S : u = N - x
        BY <2>2
    <2>4. \A y \in S : N - y \in U
        OBVIOUS
    <2>5. \A y \in S : N - x <= N - y
        BY <2>2, <2>3, <2>4
    <2>6. x \in S /\ \A y \in S : y \in Nat
        BY <2>3
    <2>7. x \in S /\ x \in Nat
        BY <2>6
    <2>8. \A y \in S : x >= y
        <3> SUFFICES ASSUME NEW y \in S PROVE x >= y
            OBVIOUS
        <3>1. N - x <= N - y /\ y \in Nat
            BY <2>5, <2>6
        <3> QED BY <2>7, <3>1
    <2> QED BY <2>7, <2>8
<1>4. Max(S) \in S /\ \A n \in S : Max(S) >= n
    BY <1>3 DEF Max
<1>5. \A n \in S : n \in Nat
    OBVIOUS
<1> QED BY <1>2, <1>4, <1>5

\* A text without the spaces around it.
LEMMA StripsArePhrases ==
    ASSUME NEW t \in Phrases
    PROVE  /\ Strip(t) \in Phrases
           /\ Strip(t) # <<>> => \E a \in 1..Len(t) : \E b \in a..Len(t) :
                 /\ Strip(t) = SubSeq(t, a, b)
                 /\ \A k \in 1..Len(t) : k < a \/ k > b => t[k] = Space
<1> DEFINE left == DOMAIN t \ Spaces(t)
           a == Min(left)
           b == Max(left)
<1>1. /\ Len(t) \in Nat /\ DOMAIN t = 1..Len(t) /\ left \in SUBSET (1..Len(t))
      /\ \A k \in 1..Len(t) : k \notin left => t[k] = Space
    BY PhrasesAreSeqs DEF Spaces
<1>2. Strip(t) = IF left = {} THEN <<>> ELSE SubSeq(t, a, b)
    BY DEF Strip
<1> HIDE DEF left
<1>3. CASE left = {}
    BY <1>2, <1>3, NoPhrase
<1>4. CASE left # {}
    <2>1. a \in left /\ b \in left /\ \A n \in left : a <= n /\ n <= b
        BY <1>1, <1>4, EndsAreTaken
    <2> HIDE DEF a, b
    <2>2. a \in 1..Len(t) /\ b \in a..Len(t) /\ a \in Nat \ {0} /\ b \in Int /\ b <= Len(t)
        BY <1>1, <2>1
    <2>3. SubSeq(t, a, b) \in Phrases
        BY <2>2, PiecesArePhrases
    <2>4. \A k \in 1..Len(t) : k < a \/ k > b => t[k] = Space
        BY <1>1, <2>1, <2>2
    <2> QED BY <1>2, <1>4, <2>2, <2>3, <2>4
<1> QED BY <1>3, <1>4

\* Where a text has another one, place by place, and when it has it as words of its own.
LEMMA TextIsHad ==
    ASSUME NEW t \in Phrases, NEW p \in Phrases
    PROVE  \A i : i \in Places(t, p) <=>
               /\ i \in 1..(Len(t) - Len(p) + 1)
               /\ \A j \in 1..Len(p) : t[i + j - 1] = p[j]
<1>1. /\ Len(t) \in Nat /\ Len(p) \in Nat /\ p \in Seq(Characters)
    BY PhrasesAreSeqs
<1> SUFFICES ASSUME NEW i \in 1..(Len(t) - Len(p) + 1)
             PROVE  SubSeq(t, i, i + Len(p) - 1) = p <=> \A j \in 1..Len(p) : t[i + j - 1] = p[j]
    BY DEF Places
<1> DEFINE s == SubSeq(t, i, i + Len(p) - 1)
<1>2. i \in Nat \ {0} /\ i + Len(p) - 1 \in Int /\ i + Len(p) - 1 <= Len(t)
    BY <1>1
<1>3. s \in Phrases /\ Len(s) = Len(p) /\ \A j \in 1..Len(s) : s[j] = t[i + j - 1]
    BY <1>1, <1>2, PiecesArePhrases
<1> HIDE DEF s
<1>4. s \in Seq(Characters)
    BY <1>3, PhrasesAreSeqs
<1>5. s = p <=> \A j \in 1..Len(p) : s[j] = p[j]
    BY <1>1, <1>3, <1>4
<1> QED BY <1>3, <1>5 DEF s

HasAt(t, p, i) ==
    /\ i \in 1..(Len(t) - Len(p) + 1)
    /\ \A j \in 1..Len(p) : t[i + j - 1] = p[j]
    /\ i = 1 \/ p[1] \notin Letters \/ t[i - 1] \notin Letters
    /\ i + Len(p) - 1 = Len(t) \/ p[Len(p)] \notin Letters \/ t[i + Len(p)] \notin Letters

LEMMA TextIsHadExactly ==
    ASSUME NEW t \in Phrases, NEW p \in Phrases
    PROVE  HasExactly(t, p) <=> Len(p) > 0 /\ \E i : HasAt(t, p, i)
<1>1. Len(p) \in Nat /\ Len(t) \in Nat /\ p \in Seq(Characters)
    BY PhrasesAreSeqs
<1>2. p # <<>> <=> Len(p) > 0
    BY <1>1
<1>3. \A i \in 1..(Len(t) - Len(p) + 1) : i \in Int /\ i + Len(p) - 1 + 1 = i + Len(p)
    BY <1>1
<1>4. ASSUME NEW i \in Places(t, p)
      PROVE  HasAt(t, p, i) <=>
                LET last == i + Len(p) - 1 IN
                /\ i = 1 \/ p[1] \notin Letters \/ t[i - 1] \notin Letters
                /\ last = Len(t) \/ p[Len(p)] \notin Letters \/ t[last + 1] \notin Letters
    <2>1. /\ i \in 1..(Len(t) - Len(p) + 1)
          /\ \A j \in 1..Len(p) : t[i + j - 1] = p[j]
        BY <1>4, TextIsHad
    <2>2. i + Len(p) - 1 + 1 = i + Len(p)
        BY <1>3, <2>1
    <2> QED BY <2>1, <2>2 DEF HasAt
<1>5. \A i : HasAt(t, p, i) => i \in Places(t, p)
    BY TextIsHad DEF HasAt
<1>6. HasExactly(t, p) <=> Len(p) > 0 /\ \E i \in Places(t, p) :
                LET last == i + Len(p) - 1 IN
                /\ i = 1 \/ p[1] \notin Letters \/ t[i - 1] \notin Letters
                /\ last = Len(t) \/ p[Len(p)] \notin Letters \/ t[last + 1] \notin Letters
    BY <1>2, Zenon DEF HasExactly
<1> HIDE DEF HasAt
<1> QED BY <1>4, <1>5, <1>6

\* A part that a text has by itself is still there by itself when others are put around it.
LEMMA PartsStayAfter ==
    ASSUME NEW a \in Phrases, NEW t \in Phrases, NEW p \in Phrases, HasExactly(t, p)
    PROVE  HasExactly(a \o <<Space>> \o t, p)
<1> DEFINE b == a \o <<Space>>
           all == b \o t
<1>1. /\ b \in Phrases /\ Len(b) = Len(a) + 1 /\ Len(a) \in Nat /\ b[Len(b)] = Space
      /\ Len(t) \in Nat /\ Len(p) \in Nat
    BY PhrasesAreSeqs
<1> HIDE DEF b
<1>2. /\ all \in Phrases /\ Len(all) = Len(b) + Len(t)
      /\ \A i \in 1..Len(b) : all[i] = b[i]
      /\ \A i \in 1..Len(t) : all[Len(b) + i] = t[i]
    BY <1>1, PhrasesAreSeqs
<1> HIDE DEF all
<1>3. PICK i : HasAt(t, p, i) /\ Len(p) > 0
    BY TextIsHadExactly
<1> DEFINE k == Len(b) + i
<1>4. /\ i \in 1..(Len(t) - Len(p) + 1) /\ i \in 1..Len(t) /\ i + Len(p) - 1 <= Len(t)
      /\ i \in Int /\ k \in Int /\ k = Len(b) + i
    BY <1>1, <1>3 DEF HasAt
<1> HIDE DEF k
<1>5. k \in 1..(Len(all) - Len(p) + 1)
    BY <1>1, <1>2, <1>4
<1>6. \A j \in 1..Len(p) : all[k + j - 1] = p[j]
    <2>1. \A j \in 1..Len(p) : i + j - 1 \in 1..Len(t) /\ k + j - 1 = Len(b) + (i + j - 1)
        BY <1>1, <1>4
    <2>2. \A j \in 1..Len(p) : t[i + j - 1] = p[j]
        BY <1>3 DEF HasAt
    <2> QED BY <1>2, <2>1, <2>2
<1>7. p[1] \notin Letters \/ all[k - 1] \notin Letters
    <2>1. CASE i = 1
        <3>1. k - 1 = Len(b) /\ Len(b) \in 1..Len(b)
            BY <1>1, <1>4, <2>1
        <3>2. all[k - 1] = Space
            BY <1>1, <1>2, <3>1
        <3> QED BY <3>2, PageTextAssumption
    <2>2. CASE i # 1
        <3>1. i - 1 \in 1..Len(t) /\ k - 1 = Len(b) + (i - 1)
            BY <1>1, <1>4, <2>2
        <3>2. all[k - 1] = t[i - 1]
            BY <1>2, <3>1
        <3> QED BY <1>3, <2>2, <3>2 DEF HasAt
    <2> QED BY <2>1, <2>2
<1>8. k + Len(p) - 1 = Len(all) \/ p[Len(p)] \notin Letters \/ all[k + Len(p)] \notin Letters
    <2>1. CASE i + Len(p) - 1 = Len(t)
        BY <1>1, <1>2, <1>4, <2>1
    <2>2. CASE i + Len(p) - 1 # Len(t)
        <3>1. i + Len(p) \in 1..Len(t) /\ k + Len(p) = Len(b) + (i + Len(p))
            BY <1>1, <1>4, <2>2
        <3>2. all[k + Len(p)] = t[i + Len(p)]
            BY <1>2, <3>1
        <3> QED BY <1>3, <2>2, <3>2 DEF HasAt
    <2> QED BY <2>1, <2>2
<1>9. HasAt(all, p, k)
    BY <1>5, <1>6, <1>7, <1>8 DEF HasAt
<1> QED BY <1>2, <1>3, <1>9, TextIsHadExactly DEF all, b

LEMMA PartsStayBefore ==
    ASSUME NEW a \in Phrases, NEW t \in Phrases, NEW p \in Phrases, HasExactly(a, p)
    PROVE  HasExactly(a \o <<Space>> \o t, p)
<1> DEFINE b == a \o <<Space>>
           all == b \o t
<1>1. /\ b \in Phrases /\ Len(b) = Len(a) + 1 /\ Len(a) \in Nat /\ b[Len(b)] = Space
      /\ \A i \in 1..Len(a) : b[i] = a[i]
      /\ Len(t) \in Nat /\ Len(p) \in Nat
    BY PhrasesAreSeqs
<1> HIDE DEF b
<1>2. /\ all \in Phrases /\ Len(all) = Len(b) + Len(t)
      /\ \A i \in 1..Len(b) : all[i] = b[i]
    BY <1>1, PhrasesAreSeqs
<1> HIDE DEF all
<1>3. PICK i : HasAt(a, p, i) /\ Len(p) > 0
    BY TextIsHadExactly
<1>4. /\ \A k \in 1..Len(a) : k \in 1..Len(b) /\ all[k] = a[k]
      /\ Len(b) \in 1..Len(b) /\ all[Len(a) + 1] = Space
    BY <1>1, <1>2
<1>5. HasAt(all, p, i)
    <2>1. i \in 1..(Len(a) - Len(p) + 1) /\ i \in 1..Len(a) /\ i + Len(p) - 1 <= Len(a)
        BY <1>1, <1>3 DEF HasAt
    <2>2. i \in 1..(Len(all) - Len(p) + 1)
        BY <1>1, <1>2, <2>1
    <2>3. \A j \in 1..Len(p) : all[i + j - 1] = p[j]
        <3>1. \A j \in 1..Len(p) : i + j - 1 \in 1..Len(a)
            BY <1>1, <2>1
        <3>2. \A j \in 1..Len(p) : a[i + j - 1] = p[j]
            BY <1>3 DEF HasAt
        <3> QED BY <1>4, <3>1, <3>2
    <2>4. i = 1 \/ p[1] \notin Letters \/ all[i - 1] \notin Letters
        <3>1. i # 1 => i - 1 \in 1..Len(a)
            BY <1>1, <2>1
        <3> QED BY <1>3, <1>4, <3>1 DEF HasAt
    <2>5. p[Len(p)] \notin Letters \/ all[i + Len(p)] \notin Letters
        <3>1. CASE i + Len(p) - 1 = Len(a)
            <4>1. i + Len(p) = Len(a) + 1
                BY <1>1, <2>1, <3>1
            <4> QED BY <1>4, <4>1, PageTextAssumption
        <3>2. CASE i + Len(p) - 1 # Len(a)
            <4>1. i + Len(p) \in 1..Len(a)
                BY <1>1, <2>1, <3>2
            <4> QED BY <1>3, <1>4, <3>2, <4>1 DEF HasAt
        <3> QED BY <3>1, <3>2
    <2> QED BY <2>2, <2>3, <2>4, <2>5 DEF HasAt
<1> QED BY <1>2, <1>3, <1>5, TextIsHadExactly DEF all, b

\* A claim that one of the quotes has is in all of them together.
LEMMA PartsStayJoined ==
    ASSUME NEW texts \in Seq(Phrases), NEW m \in 1..Len(texts), NEW p \in Phrases,
           HasExactly(texts[m], p)
    PROVE  HasExactly(Join(texts), p)
<1>1. PICK g \in [0..Len(texts) -> Phrases] :
         /\ Join(texts) = g[Len(texts)]
         /\ \A n \in 1..Len(texts) :
               g[n] = Beside(g[n - 1], texts[n])
    BY JoinsUnfold
<1>2. Len(texts) \in Nat /\ \A n \in 1..Len(texts) : texts[n] \in Phrases /\ n - 1 \in 0..Len(texts)
    OBVIOUS
<1> DEFINE P == {n \in Nat : m + n <= Len(texts) => HasExactly(g[m + n], p)}
<1>3. 0 \in P
    <2>1. g[m] = texts[m] \/ g[m] = g[m - 1] \o <<Space>> \o texts[m]
        BY <1>1 DEF Beside
    <2>2. HasExactly(g[m], p)
        <3>1. CASE g[m] = texts[m]
            BY <3>1
        <3>2. CASE g[m] = g[m - 1] \o <<Space>> \o texts[m]
            BY <1>1, <1>2, <3>2, PartsStayAfter
        <3> QED BY <2>1, <3>1, <3>2
    <2>3. m + 0 = m
        BY <1>2
    <2> QED BY <2>2, <2>3
<1>4. ASSUME NEW n \in Nat, n \in P PROVE n + 1 \in P
    <2> SUFFICES ASSUME m + (n + 1) <= Len(texts) PROVE HasExactly(g[m + (n + 1)], p)
        OBVIOUS
    <2> DEFINE k == m + (n + 1)
    <2>1. k \in 1..Len(texts) /\ k - 1 = m + n /\ m + n <= Len(texts)
        BY <1>2
    <2> HIDE DEF k
    <2>2. HasExactly(g[k - 1], p)
        BY <1>4, <2>1
    <2>3. g[k - 1] \in Phrases /\ texts[k] \in Phrases
        BY <1>1, <1>2, <2>1
    <2>4. g[k - 1] # <<>>
        <3>1. PICK i : HasAt(g[k - 1], p, i) /\ Len(p) > 0
            BY <2>2, <2>3, TextIsHadExactly
        <3>2. i \in 1..(Len(g[k - 1]) - Len(p) + 1) /\ Len(p) \in Nat /\ Len(g[k - 1]) \in Nat
            BY <2>3, <3>1, PhrasesAreSeqs DEF HasAt
        <3>3. Len(g[k - 1]) # 0
            BY <3>1, <3>2
        <3> QED BY <3>3, NoPhrase
    <2>5. g[k] = g[k - 1] \o <<Space>> \o texts[k]
        BY <1>1, <2>1, <2>4 DEF Beside
    <2>6. HasExactly(g[k], p)
        BY <2>2, <2>3, <2>5, PartsStayBefore
    <2> QED BY <2>6 DEF k
<1>5. Nat \subseteq P
    <2> HIDE DEF P
    <2> QED BY <1>3, <1>4, NumbersAreReached
<1>6. Len(texts) - m \in Nat /\ m + (Len(texts) - m) = Len(texts)
    BY <1>2
<1>7. HasExactly(g[Len(texts)], p)
    BY <1>5, <1>6
<1> QED BY <1>1, <1>7

\* A sentence of a text, without the spaces around it, is a text and there by itself.
LEMMA SentencesAreTexts ==
    ASSUME NEW t \in Phrases, NEW s \in Sentences(t)
    PROVE  s \in Phrases /\ Len(s) \in Nat
<1>1. Len(t) \in Nat /\ DOMAIN t = 1..Len(t)
    BY PhrasesAreSeqs
<1>2. PICK q \in (DOMAIN t) \X (DOMAIN t) : s = Strip(SubSeq(t, q[1], q[2]))
    BY Zenon DEF Sentences
<1>3. q[1] \in Nat \ {0} /\ q[2] \in Int /\ q[2] <= Len(t)
    BY <1>1, <1>2
<1>4. SubSeq(t, q[1], q[2]) \in Phrases
    BY <1>3, PiecesArePhrases
<1> QED BY <1>2, <1>4, StripsArePhrases, PhrasesAreSeqs

LEMMA SentencesAreHad ==
    ASSUME NEW t \in Phrases, NEW s \in Sentences(t), Len(s) > 0
    PROVE  s \in Phrases /\ HasExactly(t, s)
<1>1. Len(t) \in Nat /\ DOMAIN t = 1..Len(t)
    BY PhrasesAreSeqs
<1>2. PICK q \in (DOMAIN t) \X (DOMAIN t) :
         /\ q[1] <= q[2] /\ t[q[1]] # Period
         /\ q[1] > 1 => t[q[1] - 1] = Period
         /\ q[2] < Len(t) => t[q[2]] = Period
         /\ s = Strip(SubSeq(t, q[1], q[2]))
    BY Zenon DEF Sentences
<1> DEFINE m == q[1]
           n == q[2]
           part == SubSeq(t, m, n)
<1>3. /\ m \in 1..Len(t) /\ n \in 1..Len(t) /\ m <= n
      /\ m \in Nat \ {0} /\ n \in Int /\ n <= Len(t)
      /\ m > 1 => t[m - 1] = Period
      /\ n < Len(t) => t[n] = Period
      /\ s = Strip(part)
    BY <1>1, <1>2
<1> HIDE DEF m, n
<1>4. /\ part \in Phrases /\ Len(part) = n - m + 1
      /\ \A i \in 1..Len(part) : part[i] = t[m + i - 1]
    BY <1>3, PiecesArePhrases
<1> HIDE DEF part
<1>5. s \in Phrases /\ s # <<>>
    BY <1>3, <1>4, StripsArePhrases, NoPhrase
<1>6. PICK a \in 1..Len(part) : \E b \in a..Len(part) :
         /\ s = SubSeq(part, a, b)
         /\ \A k \in 1..Len(part) : k < a \/ k > b => part[k] = Space
    BY <1>3, <1>4, <1>5, StripsArePhrases
<1>61. PICK b \in a..Len(part) :
         /\ s = SubSeq(part, a, b)
         /\ \A k \in 1..Len(part) : k < a \/ k > b => part[k] = Space
    BY <1>6
<1>7. /\ Len(s) = b - a + 1
      /\ \A j \in 1..Len(s) : s[j] = part[a + j - 1]
    <2>1. a \in Nat \ {0} /\ b \in Int /\ b <= Len(part) /\ a <= b
        BY <1>3, <1>4, <1>61
    <2> QED BY <1>4, <1>61, <2>1, PiecesArePhrases
<1> DEFINE i == m + a - 1
<1>8. /\ a \in Int /\ b \in Int /\ i \in Int /\ i = m + a - 1
      /\ a \in 1..Len(part) /\ b \in 1..Len(part) /\ a <= b
    BY <1>3, <1>4, <1>61
<1> HIDE DEF i
<1>9. i \in 1..(Len(t) - Len(s) + 1)
    BY <1>1, <1>3, <1>4, <1>7, <1>8
<1>10. \A j \in 1..Len(s) : t[i + j - 1] = s[j]
    <2>1. \A j \in 1..Len(s) : a + j - 1 \in 1..Len(part) /\ m + (a + j - 1) - 1 = i + j - 1
        BY <1>3, <1>4, <1>7, <1>8
    <2> QED BY <1>4, <1>7, <2>1
<1>11. i = 1 \/ t[i - 1] \notin Letters
    <2>1. CASE a = 1
        <3>1. i = m
            BY <1>3, <1>8, <2>1
        <3> QED BY <1>3, <3>1, PageTextAssumption
    <2>2. CASE a # 1
        <3>1. a - 1 \in 1..Len(part) /\ a - 1 < a /\ m + (a - 1) - 1 = i - 1
            BY <1>3, <1>8, <2>2
        <3>2. t[i - 1] = Space
            BY <1>4, <1>61, <3>1
        <3> QED BY <3>2, PageTextAssumption
    <2> QED BY <2>1, <2>2
<1>12. i + Len(s) - 1 = Len(t) \/ s[Len(s)] \notin Letters \/ t[i + Len(s)] \notin Letters
    <2>1. CASE b = Len(part)
        <3>1. i + Len(s) - 1 = n /\ Len(s) \in 1..Len(s)
            BY <1>3, <1>4, <1>7, <1>8, <2>1
        <3>2. s[Len(s)] = t[n]
            BY <1>10, <3>1
        <3>3. n = Len(t) \/ n < Len(t)
            <4>1. n \in Int /\ Len(t) \in Int /\ n <= Len(t)
                BY <1>1, <1>3
            <4> QED BY <4>1
        <3> QED BY <1>3, <3>1, <3>2, <3>3, PageTextAssumption
    <2>2. CASE b # Len(part)
        <3>1. b + 1 \in 1..Len(part) /\ b + 1 > b /\ m + (b + 1) - 1 = i + Len(s)
            BY <1>3, <1>4, <1>7, <1>8, <2>2
        <3>2. t[i + Len(s)] = Space
            BY <1>4, <1>61, <3>1
        <3> QED BY <3>2, PageTextAssumption
    <2> QED BY <2>1, <2>2
<1>13. HasAt(t, s, i)
    BY <1>9, <1>10, <1>11, <1>12 DEF HasAt
<1> QED BY <1>5, <1>13, TextIsHadExactly

\* A text has itself.
LEMMA TextsHaveThemselves ==
    ASSUME NEW t \in Phrases, Len(t) > 0
    PROVE  HasExactly(t, t)
<1>1. Len(t) \in Nat
    BY PhrasesAreSeqs
<1>2. HasAt(t, t, 1)
    <2>1. 1 \in 1..(Len(t) - Len(t) + 1) /\ 1 + Len(t) - 1 = Len(t)
        BY <1>1
    <2>2. \A j \in 1..Len(t) : 1 + j - 1 = j
        OBVIOUS
    <2> QED BY <2>1, <2>2 DEF HasAt
<1> QED BY <1>2, TextIsHadExactly

\* _hard_wrap takes a text to texts: each of its turns cuts one off, and leaves one.
Wraps == [done : Seq(Phrases), rest : Phrases]

WrapOf(d, r) == [done |-> d, rest |-> r]

LEMMA WrapsHold ==
    /\ \A d \in Seq(Phrases) : \A r \in Phrases : WrapOf(d, r) \in Wraps
    /\ \A w \in Wraps : w.done \in Seq(Phrases) /\ w.rest \in Phrases
BY DEF Wraps, WrapOf

LEMMA PhrasesAppend ==
    /\ \A d \in Seq(Phrases) : \A t \in Phrases : Append(d, t) \in Seq(Phrases)
    /\ <<>> \in Seq(Phrases)
    /\ \A t \in Phrases : <<t>> \in Seq(Phrases)
OBVIOUS

LEMMA TurnsWrap ==
    ASSUME NEW limit \in Nat
    PROVE  \A w \in Wraps : WrapTurn(w, limit) \in Wraps
<1>0. \A w \in Wraps : Len(w.rest) <= limit => WrapTurn(w, limit) = w
    BY DEF WrapTurn
<1> SUFFICES ASSUME NEW w \in Wraps, ~(Len(w.rest) <= limit)
             PROVE  WrapTurn(w, limit) \in Wraps
    BY <1>0
<1> DEFINE rest == w.rest
           spaces == {i \in Spaces(rest) : i <= limit + 1}
           boundary == IF spaces = {} \/ Max(spaces) - 1 < limit \div 2 THEN limit
                       ELSE Max(spaces) - 1
           start == Strip(SubSeq(rest, 1, boundary))
           end == Strip(SubSeq(rest, boundary + 1, Len(rest)))
<1>1. w.done \in Seq(Phrases) /\ rest \in Phrases /\ Len(rest) \in Nat /\ limit < Len(rest)
    <2>1. w.done \in Seq(Phrases) /\ w.rest \in Phrases
        BY WrapsHold
    <2>2. Len(w.rest) \in Nat
        BY <2>1, PhrasesAreSeqs
    <2>3. limit < Len(w.rest)
        BY <2>2
    <2> QED BY <2>1, <2>2, <2>3
<1>2. WrapTurn(w, limit) = WrapOf(Append(w.done, start), end)
    BY Zenon DEF WrapTurn, WrapOf
<1> HIDE DEF rest
<1>3. spaces \in SUBSET (1..Len(rest)) /\ \A i \in spaces : i <= limit + 1
    BY <1>1, PhrasesAreSeqs DEF Spaces
<1> HIDE DEF spaces
<1>4. boundary \in Nat /\ boundary <= Len(rest)
    <2>1. CASE spaces = {}
        BY <1>1, <2>1
    <2>2. CASE spaces # {}
        <3>1. Max(spaces) \in spaces
            BY <1>1, <1>3, <2>2, EndsAreTaken
        <3>2. Max(spaces) \in 1..Len(rest) /\ Max(spaces) <= limit + 1
            BY <1>3, <3>1
        <3>3. Max(spaces) - 1 \in Nat /\ Max(spaces) - 1 <= Len(rest)
            BY <1>1, <3>2
        <3> QED BY <1>1, <3>3
    <2> QED BY <2>1, <2>2
<1> HIDE DEF boundary
<1>5. SubSeq(rest, 1, boundary) \in Phrases /\ SubSeq(rest, boundary + 1, Len(rest)) \in Phrases
    <2>1. boundary + 1 \in Nat \ {0} /\ boundary \in Int /\ Len(rest) <= Len(rest) /\ Len(rest) \in Int
        BY <1>1, <1>4
    <2> QED BY <1>1, <1>4, <2>1, PiecesArePhrases
<1>6. start \in Phrases /\ end \in Phrases
    BY <1>5, StripsArePhrases
<1> HIDE DEF start, end
<1> QED BY <1>1, <1>2, <1>6, WrapsHold, PhrasesAppend

\* The wrapping of a text, turn by turn.
LEMMA WrapsUnfold ==
    ASSUME NEW text \in Phrases, NEW limit \in Nat, NEW first \in Wraps
    PROVE  \E g \in [0..Len(text) -> Wraps] :
              /\ g[0] = first /\ FoldLeft(LAMBDA w, c : WrapTurn(w, limit), first, text) = g[Len(text)]
              /\ \A n \in 1..Len(text) : g[n] = WrapTurn(g[n - 1], limit)
<1> DEFINE N == Len(text)
           Is(f) == f = [S \in SUBSET (1..N) |-> IF S = {} THEN first
                                                 ELSE WrapTurn(f[S \ {Max(S)}], limit)]
           F == CHOOSE f : Is(f)
           V == Wraps
           base == first
           step == [x \in UpTo(N) |-> [v \in V |-> WrapTurn(v, limit)]]
           G == FoldUpTo(N, base, step)
           f == [S \in SUBSET (1..N) |-> G[S]]
           g == [n \in 0..N |-> F[UpTo(n)]]
           all == FoldLeft(LAMBDA w, c : WrapTurn(w, limit), first, text)
<1>1. N \in Nat /\ DOMAIN text = 1..N /\ \A n \in 1..N : text[n] \in Characters
    BY PhrasesAreSeqs
<1> HIDE DEF N
<1>2. all = F[UpTo(N)]
    BY <1>1 DEF UpTo, FoldLeft, MapThenFoldSet
<1>3. FoldsIn(V, N, base, step)
    <2>1. \A v \in V, n \in 1..N : WrapTurn(v, limit) \in V
        BY TurnsWrap
    <2>2. base \in V
        OBVIOUS
    <2> HIDE DEF V, base
    <2> QED BY <1>1, <2>1, <2>2 DEF UpTo, FoldsIn
<1>4. /\ G[{}] = base
      /\ \A S \in SUBSET UpTo(N) :
            /\ G[S] \in V
            /\ S # {} => /\ LastOf(N)[S] \in UpTo(N) /\ BeforeLast(N)[S] \in SUBSET UpTo(N)
                         /\ G[S] = step[LastOf(N)[S]][G[BeforeLast(N)[S]]]
    <2> HIDE DEF V, base, step
    <2> QED BY <1>3, SequencesFold
<1> HIDE DEF G, V, all
<1>5. \A S \in SUBSET (1..N) :
         LastOf(N)[S] = Max(S) /\ BeforeLast(N)[S] = S \ {Max(S)} /\ S \in SUBSET UpTo(N)
    BY DEF LastOf, BeforeLast, UpTo
<1>6. Is(F)
    <2>1. ASSUME NEW S \in SUBSET (1..N)
          PROVE  f[S] = IF S = {} THEN first ELSE WrapTurn(f[S \ {Max(S)}], limit)
        <3>1. S # {} => /\ Max(S) \in UpTo(N) /\ S \ {Max(S)} \in SUBSET UpTo(N)
                        /\ G[S] = step[Max(S)][G[S \ {Max(S)}]] /\ G[S \ {Max(S)}] \in V
            <4> HIDE DEF base, step
            <4> QED BY <1>4, <1>5
        <3>2. S # {} => G[S] = WrapTurn(G[S \ {Max(S)}], limit)
            BY <3>1
        <3>3. f[S] = G[S] /\ (S # {} => f[S \ {Max(S)}] = G[S \ {Max(S)}])
            BY <3>1 DEF UpTo
        <3> HIDE DEF f
        <3> QED BY <1>4, <3>2, <3>3
    <2> HIDE DEF f
    <2>2. f = [S \in SUBSET (1..N) |-> f[S]]
        BY DEF f
    <2>3. Is(f)
        BY <2>1, <2>2
    <2> HIDE DEF Is
    <2> QED BY <2>3
<1> HIDE DEF F
<1>7. FoldFollows(F, V, N, base, step)
    <2>1. F[{}] = base
        BY <1>6
    <2>2. ASSUME NEW S \in SUBSET UpTo(N), S # {}, F[BeforeLast(N)[S]] \in V
          PROVE  F[S] = step[LastOf(N)[S]][F[BeforeLast(N)[S]]]
        <3>1. /\ S \in SUBSET (1..N) /\ Max(S) \in UpTo(N) /\ F[S \ {Max(S)}] \in V
              /\ LastOf(N)[S] = Max(S) /\ BeforeLast(N)[S] = S \ {Max(S)}
            <4> HIDE DEF base, step
            <4> QED BY <1>4, <1>5, <2>2 DEF UpTo
        <3>2. F[S] = WrapTurn(F[S \ {Max(S)}], limit)
            BY <1>6, <2>2, <3>1
        <3>3. step[Max(S)][F[S \ {Max(S)}]] = WrapTurn(F[S \ {Max(S)}], limit)
            BY <3>1
        <3> HIDE DEF step
        <3> QED BY <3>1, <3>2, <3>3
    <2> HIDE DEF base, step
    <2> QED BY <2>1, <2>2 DEF FoldFollows
<1>8. /\ F[UpTo(0)] = base
      /\ \A n \in 0..N : F[UpTo(n)] \in V
      /\ \A n \in 1..N : F[UpTo(n)] = step[n][F[UpTo(n - 1)]]
    <2> HIDE DEF base, step
    <2> QED BY <1>3, <1>7, FoldsAreFollowed
<1>9. g \in [0..N -> V] /\ g[0] = first /\ all = g[N]
    <2> HIDE DEF step
    <2> QED BY <1>1, <1>2, <1>8
<1>10. \A n \in 1..N : g[n] = WrapTurn(g[n - 1], limit)
    <2> SUFFICES ASSUME NEW n \in 1..N PROVE F[UpTo(n)] = WrapTurn(F[UpTo(n - 1)], limit)
        BY <1>1
    <2>1. n \in UpTo(N) /\ F[UpTo(n - 1)] \in V /\ F[UpTo(n)] = step[n][F[UpTo(n - 1)]]
        <3> HIDE DEF step
        <3> QED BY <1>1, <1>8 DEF UpTo
    <2> QED BY <2>1
<1> HIDE DEF g
<1> QED BY <1>9, <1>10 DEF N, V, all

LEMMA WrappedTextsArePhrases ==
    ASSUME NEW limit \in Nat, NEW text \in Phrases
    PROVE  HardWrap(text, limit) \in Seq(Phrases)
<1> DEFINE first == WrapOf(<<>>, text)
           wrap == FoldLeft(LAMBDA w, c : WrapTurn(w, limit), first, text)
<1>1. first \in Wraps
    BY WrapsHold, PhrasesAppend
<1>2. HardWrap(text, limit) = IF wrap.rest = <<>> THEN wrap.done ELSE Append(wrap.done, wrap.rest)
    BY DEF HardWrap, Wrapped, WrapOf
<1> HIDE DEF first
<1>3. wrap \in Wraps
    <2>1. PICK g \in [0..Len(text) -> Wraps] : wrap = g[Len(text)]
        BY <1>1, WrapsUnfold
    <2>2. Len(text) \in 0..Len(text)
        BY PhrasesAreSeqs
    <2> HIDE DEF wrap
    <2> QED BY <2>1, <2>2
<1> HIDE DEF wrap
<1> QED BY <1>2, <1>3, WrapsHold, PhrasesAppend

\* The texts that sequences of them hold, put one after another.
LEMMA FlattenedTexts ==
    ASSUME NEW E, NEW seqs \in Seq(Seq(E))
    PROVE  FlattenSeq(seqs) \in Seq(E)
<1> DEFINE N == Len(seqs)
           V == Seq(E)
           step == [i \in UpTo(N) |-> [v \in V |-> v \o seqs[i]]]
           G == FoldUpTo(N, <<>>, step)
           f == [i \in 1..N |-> G[UpTo(i)]]
           Is(h) == h = [i \in 1..N |-> IF i = 1 THEN seqs[i] ELSE h[i - 1] \o seqs[i]]
           F == CHOOSE h : Is(h)
<1>1. /\ N \in Nat /\ \A i \in 1..N : seqs[i] \in V
      /\ <<>> \in V /\ (\A v \in V : <<>> \o v = v) /\ (N = 0 => seqs = <<>>)
      /\ \A v \in V : \A w \in V : v \o w \in V
    OBVIOUS
<1>2. CASE N = 0
    BY <1>1, <1>2 DEF FlattenSeq
<1>3. CASE N # 0
    <2>1. FlattenSeq(seqs) = F[N]
        BY <1>3, Zenon DEF FlattenSeq
    <2> HIDE DEF N, V
    <2>2. FoldsIn(V, N, <<>>, step)
        BY <1>1 DEF FoldsIn, UpTo
    <2>3. /\ G[{}] = <<>>
          /\ \A S \in SUBSET UpTo(N) :
                /\ G[S] \in V
                /\ S # {} => G[S] = step[LastOf(N)[S]][G[BeforeLast(N)[S]]]
        <3> HIDE DEF step
        <3> QED BY <2>2, SequencesFold
    <2> HIDE DEF G
    <2>4. ASSUME NEW i \in 1..N
          PROVE  G[UpTo(i)] = G[UpTo(i - 1)] \o seqs[i] /\ G[UpTo(i - 1)] \in V
        <3>1. /\ UpTo(i) \in SUBSET UpTo(N) /\ UpTo(i - 1) \in SUBSET UpTo(N) /\ UpTo(i) # {}
              /\ LastOf(N)[UpTo(i)] = i /\ BeforeLast(N)[UpTo(i)] = UpTo(i - 1) /\ i \in UpTo(N)
            <4>1. UpTo(i) \in SUBSET UpTo(N) /\ UpTo(i) # {} /\ i \in UpTo(N)
                BY <1>1, LastIsTaken DEF UpTo
            <4>2. UpTo(i - 1) \in SUBSET UpTo(N)
                BY <1>1 DEF UpTo
            <4> QED BY <1>1, <4>1, <4>2, LastIsTaken DEF UpTo, LastOf, BeforeLast
        <3>2. G[UpTo(i)] = step[i][G[UpTo(i - 1)]] /\ G[UpTo(i - 1)] \in V
            <4> HIDE DEF step
            <4> QED BY <2>3, <3>1
        <3> QED BY <3>1, <3>2
    <2>5. Is(f)
        <3>1. ASSUME NEW i \in 1..N
              PROVE  f[i] = IF i = 1 THEN seqs[i] ELSE f[i - 1] \o seqs[i]
            <4>1. CASE i = 1
                <5>1. UpTo(i - 1) = {}
                    BY <4>1 DEF UpTo
                <5>2. G[UpTo(i)] = <<>> \o seqs[i]
                    BY <2>3, <2>4, <5>1
                <5> QED BY <1>1, <4>1, <5>2
            <4>2. CASE i # 1
                <5>1. i - 1 \in 1..N
                    BY <1>1, <4>2
                <5> QED BY <2>4, <4>2, <5>1
            <4> QED BY <4>1, <4>2
        <3> HIDE DEF f
        <3>2. f = [i \in 1..N |-> f[i]]
            BY DEF f
        <3> QED BY <3>1, <3>2
    <2>6. Is(F)
        <3> HIDE DEF Is, f
        <3> QED BY <2>5
    <2> HIDE DEF F
    <2>7. \A i \in 1..N : F[i] = IF i = 1 THEN seqs[i] ELSE F[i - 1] \o seqs[i]
        BY <2>6
    <2> DEFINE P == {i \in Nat : i + 1 <= N => F[i + 1] \in V}
    <2>8. 0 \in P
        BY <1>1, <2>7
    <2>9. ASSUME NEW i \in Nat, i \in P PROVE i + 1 \in P
        <3> SUFFICES ASSUME i + 1 + 1 <= N PROVE F[i + 1 + 1] \in V
            OBVIOUS
        <3>1. /\ i + 1 + 1 \in 1..N /\ i + 1 + 1 # 1 /\ i + 1 + 1 - 1 = i + 1 /\ i + 1 <= N
            BY <1>1
        <3>2. F[i + 1] \in V
            BY <2>9, <3>1
        <3> QED BY <1>1, <2>7, <3>1, <3>2
    <2>10. Nat \subseteq P
        <3> HIDE DEF P
        <3> QED BY <2>8, <2>9, NumbersAreReached
    <2>11. N - 1 \in Nat /\ N - 1 + 1 = N
        BY <1>1, <1>3
    <2>12. F[N] \in V
        BY <2>10, <2>11
    <2> QED BY <2>1, <2>12 DEF V
<1> QED BY <1>2, <1>3

\* _split_block takes the parts of a block to texts.
Packs == [chunks : Seq(Phrases), current : Phrases]

PackOf(d, t) == [chunks |-> d, current |-> t]

LEMMA PacksHold ==
    /\ \A d \in Seq(Phrases) : \A t \in Phrases : PackOf(d, t) \in Packs
    /\ \A p \in Packs : /\ p.chunks \in Seq(Phrases) /\ p.current \in Phrases
                         /\ p = PackOf(p.chunks, p.current)
BY DEF Packs, PackOf

LEMMA PiecesPack ==
    ASSUME NEW limit \in Nat
    PROVE  \A p \in Packs : \A piece \in Phrases : Pack(p, piece, limit) \in Packs
<1> SUFFICES ASSUME NEW p \in Packs, NEW piece \in Phrases
             PROVE  Pack(p, piece, limit) \in Packs
    OBVIOUS
<1> DEFINE candidate == Beside(p.current, piece)
<1>1. /\ p.chunks \in Seq(Phrases) /\ p.current \in Phrases
      /\ candidate \in Phrases /\ Len(candidate) \in Nat
    <2>1. p.chunks \in Seq(Phrases) /\ p.current \in Phrases
        BY PacksHold
    <2>2. candidate \in Phrases
        BY <2>1, PhrasesJoin
    <2> HIDE DEF candidate
    <2> QED BY <2>1, <2>2, PhrasesAreSeqs
<1>2. Pack(p, piece, limit) =
         CASE Len(candidate) <= limit -> [p EXCEPT !.current = candidate]
           [] Len(candidate) > limit /\ p.current = <<>> -> [p EXCEPT !.current = piece]
           [] Len(candidate) > limit /\ p.current # <<>> ->
                 [chunks |-> Append(p.chunks, p.current), current |-> piece]
    BY Zenon DEF Pack
<1> HIDE DEF candidate
<1>3. /\ [p EXCEPT !.current = candidate] = PackOf(p.chunks, candidate)
      /\ [p EXCEPT !.current = piece] = PackOf(p.chunks, piece)
    BY DEF Packs, PackOf
<1>4. CASE Len(candidate) <= limit
    <2>1. ~(Len(candidate) > limit)
        BY <1>1, <1>4
    <2>2. Pack(p, piece, limit) = PackOf(p.chunks, candidate)
        BY <1>2, <1>3, <1>4, <2>1
    <2> QED BY <1>1, <2>2, PacksHold
<1>5. CASE ~(Len(candidate) <= limit)
    <2>1. Len(candidate) > limit
        BY <1>1, <1>5
    <2>2. CASE p.current = <<>>
        <3>1. Pack(p, piece, limit) = PackOf(p.chunks, piece)
            BY <1>2, <1>3, <1>5, <2>1, <2>2
        <3> QED BY <1>1, <3>1, PacksHold
    <2>3. CASE p.current # <<>>
        <3> DEFINE done == Append(p.chunks, p.current)
        <3>1. Pack(p, piece, limit) = PackOf(done, piece)
            BY <1>2, <1>5, <2>1, <2>3 DEF PackOf
        <3>2. done \in Seq(Phrases)
            BY <1>1, PhrasesAppend
        <3> HIDE DEF done
        <3> QED BY <3>1, <3>2, PacksHold
    <2> QED BY <2>2, <2>3
<1> QED BY <1>4, <1>5

\* The packing of a block, piece by piece.
LEMMA PacksUnfold ==
    ASSUME NEW pieces \in Seq(Phrases), NEW limit \in Nat, NEW first \in Packs
    PROVE  \E g \in [0..Len(pieces) -> Packs] :
              /\ g[0] = first /\ FoldLeft(LAMBDA p, piece : Pack(p, piece, limit), first, pieces) = g[Len(pieces)]
              /\ \A n \in 1..Len(pieces) : g[n] = Pack(g[n - 1], pieces[n], limit)
<1> DEFINE N == Len(pieces)
           Is(f) == f = [S \in SUBSET (1..N) |-> IF S = {} THEN first
                                                 ELSE Pack(f[S \ {Max(S)}], pieces[Max(S)], limit)]
           F == CHOOSE f : Is(f)
           V == Packs
           base == first
           step == [x \in UpTo(N) |-> [v \in V |-> Pack(v, pieces[x], limit)]]
           G == FoldUpTo(N, base, step)
           f == [S \in SUBSET (1..N) |-> G[S]]
           g == [n \in 0..N |-> F[UpTo(n)]]
           all == FoldLeft(LAMBDA p, piece : Pack(p, piece, limit), first, pieces)
<1>1. N \in Nat /\ DOMAIN pieces = 1..N /\ \A n \in 1..N : pieces[n] \in Phrases
    OBVIOUS
<1> HIDE DEF N
<1>2. all = F[UpTo(N)]
    BY <1>1 DEF UpTo, FoldLeft, MapThenFoldSet
<1>3. FoldsIn(V, N, base, step)
    <2>1. \A v \in V, n \in 1..N : Pack(v, pieces[n], limit) \in V
        BY <1>1, PiecesPack
    <2>2. base \in V
        OBVIOUS
    <2> HIDE DEF V, base
    <2> QED BY <1>1, <2>1, <2>2 DEF UpTo, FoldsIn
<1>4. /\ G[{}] = base
      /\ \A S \in SUBSET UpTo(N) :
            /\ G[S] \in V
            /\ S # {} => /\ LastOf(N)[S] \in UpTo(N) /\ BeforeLast(N)[S] \in SUBSET UpTo(N)
                         /\ G[S] = step[LastOf(N)[S]][G[BeforeLast(N)[S]]]
    <2> HIDE DEF V, base, step
    <2> QED BY <1>3, SequencesFold
<1> HIDE DEF G, V, all
<1>5. \A S \in SUBSET (1..N) :
         LastOf(N)[S] = Max(S) /\ BeforeLast(N)[S] = S \ {Max(S)} /\ S \in SUBSET UpTo(N)
    BY DEF LastOf, BeforeLast, UpTo
<1>6. Is(F)
    <2>1. ASSUME NEW S \in SUBSET (1..N)
          PROVE  f[S] = IF S = {} THEN first ELSE Pack(f[S \ {Max(S)}], pieces[Max(S)], limit)
        <3>1. S # {} => /\ Max(S) \in UpTo(N) /\ S \ {Max(S)} \in SUBSET UpTo(N)
                        /\ G[S] = step[Max(S)][G[S \ {Max(S)}]] /\ G[S \ {Max(S)}] \in V
            <4> HIDE DEF base, step
            <4> QED BY <1>4, <1>5
        <3>2. S # {} => G[S] = Pack(G[S \ {Max(S)}], pieces[Max(S)], limit)
            BY <3>1
        <3>3. f[S] = G[S] /\ (S # {} => f[S \ {Max(S)}] = G[S \ {Max(S)}])
            BY <3>1 DEF UpTo
        <3> HIDE DEF f
        <3> QED BY <1>4, <3>2, <3>3
    <2> HIDE DEF f
    <2>2. f = [S \in SUBSET (1..N) |-> f[S]]
        BY DEF f
    <2>3. Is(f)
        BY <2>1, <2>2
    <2> HIDE DEF Is
    <2> QED BY <2>3
<1> HIDE DEF F
<1>7. FoldFollows(F, V, N, base, step)
    <2>1. F[{}] = base
        BY <1>6
    <2>2. ASSUME NEW S \in SUBSET UpTo(N), S # {}, F[BeforeLast(N)[S]] \in V
          PROVE  F[S] = step[LastOf(N)[S]][F[BeforeLast(N)[S]]]
        <3>1. /\ S \in SUBSET (1..N) /\ Max(S) \in UpTo(N) /\ F[S \ {Max(S)}] \in V
              /\ LastOf(N)[S] = Max(S) /\ BeforeLast(N)[S] = S \ {Max(S)}
            <4> HIDE DEF base, step
            <4> QED BY <1>4, <1>5, <2>2 DEF UpTo
        <3>2. F[S] = Pack(F[S \ {Max(S)}], pieces[Max(S)], limit)
            BY <1>6, <2>2, <3>1
        <3>3. step[Max(S)][F[S \ {Max(S)}]] = Pack(F[S \ {Max(S)}], pieces[Max(S)], limit)
            BY <3>1
        <3> HIDE DEF step
        <3> QED BY <3>1, <3>2, <3>3
    <2> HIDE DEF base, step
    <2> QED BY <2>1, <2>2 DEF FoldFollows
<1>8. /\ F[UpTo(0)] = base
      /\ \A n \in 0..N : F[UpTo(n)] \in V
      /\ \A n \in 1..N : F[UpTo(n)] = step[n][F[UpTo(n - 1)]]
    <2> HIDE DEF base, step
    <2> QED BY <1>3, <1>7, FoldsAreFollowed
<1>9. g \in [0..N -> V] /\ g[0] = first /\ all = g[N]
    <2> HIDE DEF step
    <2> QED BY <1>1, <1>2, <1>8
<1>10. \A n \in 1..N : g[n] = Pack(g[n - 1], pieces[n], limit)
    <2> SUFFICES ASSUME NEW n \in 1..N PROVE F[UpTo(n)] = Pack(F[UpTo(n - 1)], pieces[n], limit)
        BY <1>1
    <2>1. n \in UpTo(N) /\ F[UpTo(n - 1)] \in V /\ F[UpTo(n)] = step[n][F[UpTo(n - 1)]]
        <3> HIDE DEF step
        <3> QED BY <1>1, <1>8 DEF UpTo
    <2> QED BY <2>1
<1> HIDE DEF g
<1> QED BY <1>9, <1>10 DEF N, V, all

LEMMA BlocksSplitIntoPhrases ==
    ASSUME NEW limit \in Nat, NEW parts \in Seq(Phrases)
    PROVE  SplitBlock(parts, limit) \in Seq(Phrases)
<1> DEFINE whole == Join(parts)
           wrapped == [i \in DOMAIN parts |-> HardWrap(parts[i], limit)]
           pieces == FlattenSeq(wrapped)
           first == PackOf(<<>>, <<>>)
           pack == FoldLeft(LAMBDA p, piece : Pack(p, piece, limit), first, pieces)
<1>1. whole \in Phrases /\ <<whole>> \in Seq(Phrases)
    BY JoinsArePhrases, PhrasesAppend
<1>2. SplitBlock(parts, limit) =
         IF Len(whole) <= limit THEN <<whole>>
         ELSE IF pack.current = <<>> THEN pack.chunks ELSE Append(pack.chunks, pack.current)
    BY DEF SplitBlock, Packed, PackOf
<1>3. first \in Packs
    BY PacksHold, PhrasesAppend, NoPhrase
<1> HIDE DEF whole, first
<1>4. wrapped \in Seq(Seq(Phrases))
    <2>1. /\ Len(parts) \in Nat /\ DOMAIN parts = 1..Len(parts)
          /\ \A i \in 1..Len(parts) : parts[i] \in Phrases
        OBVIOUS
    <2>2. \A i \in 1..Len(parts) : HardWrap(parts[i], limit) \in Seq(Phrases)
        BY <2>1, WrappedTextsArePhrases
    <2>3. wrapped \in [1..Len(parts) -> Seq(Phrases)]
        BY <2>1, <2>2
    <2> HIDE DEF wrapped
    <2> QED BY <2>1, <2>3, SeqDef
<1> HIDE DEF wrapped
<1>5. pieces \in Seq(Phrases)
    BY <1>4, FlattenedTexts
<1> HIDE DEF pieces
<1>6. pack \in Packs
    <2>1. PICK g \in [0..Len(pieces) -> Packs] : pack = g[Len(pieces)]
        BY <1>3, <1>5, PacksUnfold
    <2>2. Len(pieces) \in 0..Len(pieces)
        BY <1>5
    <2> HIDE DEF pack
    <2> QED BY <2>1, <2>2
<1> HIDE DEF pack
<1> QED BY <1>1, <1>2, <1>6, PacksHold, PhrasesAppend

\* The members of a finite set, put in a strict order of them, are a sequence of them in
\* which none comes twice: the numbers before them are all those below their number.
Orders(S, R) ==
    /\ \A x \in S : <<x, x>> \notin R
    /\ \A x \in S : \A y \in S : x # y => <<x, y>> \in R \/ <<y, x>> \in R
    /\ \A x \in S : \A y \in S : \A z \in S : <<x, y>> \in R /\ <<y, z>> \in R => <<x, z>> \in R

LEMMA OrderedMembers ==
    ASSUME NEW S, NEW R, IsFiniteSet(S), Orders(S, R)
    PROVE  /\ InOrder(S, R) \in Seq(S) /\ Len(InOrder(S, R)) = Cardinality(S)
           /\ \A i \in 1..Cardinality(S) : \A j \in 1..Cardinality(S) :
                 InOrder(S, R)[i] = InOrder(S, R)[j] => i = j
<1> DEFINE n == Cardinality(S)
           rank == [x \in S |-> Cardinality({y \in S : <<y, x>> \in R})]
           s == InOrder(S, R)
<1>1. n \in Nat
    BY FS_CardinalityType
<1>2. ASSUME NEW x \in S
      PROVE  LET before == {y \in S : <<y, x>> \in R}
             IN IsFiniteSet(before) /\ Cardinality(before) \in 0..(n - 1)
    <2> DEFINE before == {y \in S : <<y, x>> \in R}
    <2>1. before \in SUBSET S /\ x \notin before
        BY DEF Orders
    <2>2. IsFiniteSet(before) /\ Cardinality(before) <= n /\ Cardinality(before) # n
        BY <2>1, FS_Subset
    <2>3. Cardinality(before) \in Nat
        BY <2>2, FS_CardinalityType
    <2> HIDE DEF before, n
    <2>4. Cardinality(before) \in 0..(n - 1)
        BY <1>1, <2>2, <2>3
    <2> QED BY <2>2, <2>4 DEF before
<1>3. ASSUME NEW x \in S, NEW y \in S, <<x, y>> \in R
      PROVE  rank[x] # rank[y]
    <2> DEFINE X == {z \in S : <<z, x>> \in R}
               Y == {z \in S : <<z, y>> \in R}
    <2>1. X \in SUBSET Y /\ x \in Y /\ x \notin X
        BY <1>3 DEF Orders
    <2>2. IsFiniteSet(Y)
        BY <1>2
    <2>3. X # Y => Cardinality(X) # Cardinality(Y)
        BY <2>1, <2>2, FS_Subset
    <2> QED BY <2>1, <2>3
<1>4. rank \in Injection(S, 0..(n - 1))
    <2>1. rank \in [S -> 0..(n - 1)]
        BY <1>2
    <2>2. \A x \in S : \A y \in S : rank[x] = rank[y] => x = y
        <3> HIDE DEF rank
        <3> QED BY <1>3 DEF Orders
    <2> HIDE DEF rank
    <2>3. IsInjective(rank)
        BY <2>1, <2>2 DEF IsInjective
    <2> QED BY <2>1, <2>3 DEF Injection
<1>5. IsFiniteSet(0..(n - 1)) /\ Cardinality(0..(n - 1)) = n
    <2>1. 0 \in Int /\ n - 1 \in Int
        BY <1>1
    <2>2. IsFiniteSet(0..(n - 1)) /\ Cardinality(0..(n - 1)) = IF 0 > n - 1 THEN 0 ELSE n - 1 - 0 + 1
        BY <2>1, FS_Interval
    <2> HIDE DEF n
    <2> QED BY <1>1, <2>2
<1>6. \A k \in 0..(n - 1) : \E x \in S : rank[x] = k
    <2>1. rank \in Surjection(S, 0..(n - 1))
        <3> HIDE DEF rank
        <3> QED BY <1>4, <1>5, FS_Injection
    <2> HIDE DEF rank
    <2> QED BY <2>1 DEF Surjection
<1>7. ASSUME NEW i \in 1..n
      PROVE  s[i] \in S /\ rank[s[i]] = i - 1
    <2>1. i - 1 \in 0..(n - 1)
        BY <1>1
    <2>2. s[i] = CHOOSE x \in S : Cardinality({y \in S : <<y, x>> \in R}) = i - 1
        BY DEF InOrder
    <2>3. \E x \in S : Cardinality({y \in S : <<y, x>> \in R}) = i - 1
        BY <1>6, <2>1
    <2> HIDE DEF s
    <2> QED BY <2>2, <2>3
<1>8. s \in [1..n -> S]
    <2> DEFINE Nth(i) == CHOOSE x \in S : Cardinality({y \in S : <<y, x>> \in R}) = i - 1
    <2>1. s = [i \in 1..n |-> Nth(i)]
        BY DEF InOrder
    <2> HIDE DEF s, n, Nth
    <2>2. \A i \in 1..n : Nth(i) = s[i]
        BY <2>1
    <2> QED BY <1>7, <2>1, <2>2
<1> HIDE DEF s, rank, n
<1>9. s \in Seq(S) /\ Len(s) = n
    <2>1. s \in Seq(S)
        BY <1>1, <1>8, SeqDef
    <2> QED BY <1>1, <1>8, <2>1
<1>10. \A i \in 1..n : \A j \in 1..n : s[i] = s[j] => i = j
    <2> SUFFICES ASSUME NEW i \in 1..n, NEW j \in 1..n, s[i] = s[j] PROVE i = j
        OBVIOUS
    <2>1. i - 1 = j - 1 /\ i \in Int /\ j \in Int
        BY <1>1, <1>7
    <2> QED BY <2>1
<1> QED BY <1>9, <1>10 DEF s, n

\* What a sequence has at some of its places, in order.
LEMMA PickedMembers ==
    ASSUME NEW E, NEW q \in Seq(E), NEW P \in SUBSET DOMAIN q
    PROVE  /\ Picked(q, P) \in Seq(E) /\ Len(Picked(q, P)) = Cardinality(P)
           /\ \E at \in Seq(P) :
                 /\ Len(at) = Cardinality(P)
                 /\ \A k \in 1..Cardinality(P) : Picked(q, P)[k] = q[at[k]] /\ at[k] \in P
                 /\ \A k \in 1..Cardinality(P) : \A l \in 1..Cardinality(P) : at[k] = at[l] => k = l
<1> DEFINE R == {p \in P \X P : p[1] < p[2]}
           at == InOrder(P, R)
           n == Cardinality(P)
           s == Picked(q, P)
<1>1. Len(q) \in Nat /\ DOMAIN q = 1..Len(q) /\ \A i \in 1..Len(q) : q[i] \in E
    OBVIOUS
<1>2. IsFiniteSet(P)
    BY <1>1, LastIsTaken, FS_Subset
<1>3. Orders(P, R)
    <2>1. \A x \in P : x \in Int
        BY <1>1
    <2>2. \A x \in P : \A y \in P : <<x, y>> \in R <=> x < y
        OBVIOUS
    <2> HIDE DEF R
    <2> QED BY <2>1, <2>2 DEF Orders
<1> HIDE DEF R
<1>4. /\ at \in Seq(P) /\ Len(at) = n
      /\ \A i \in 1..n : \A j \in 1..n : at[i] = at[j] => i = j
    BY <1>2, <1>3, OrderedMembers
<1>5. n \in Nat
    BY <1>2, FS_CardinalityType
<1>6. s = [k \in 1..n |-> q[at[k]]]
    BY DEF Picked, R
<1> HIDE DEF at, n, s
<1>7. \A k \in 1..n : at[k] \in P /\ q[at[k]] \in E
    BY <1>1, <1>4
<1>8. s \in [1..n -> E] /\ \A k \in 1..n : s[k] = q[at[k]]
    BY <1>6, <1>7
<1>9. s \in Seq(E)
    BY <1>5, <1>8, SeqDef
<1>10. Len(s) = n
    BY <1>5, <1>8, <1>9
<1> QED BY <1>4, <1>7, <1>8, <1>9, <1>10 DEF s, n

\* A page is cut into pieces of different texts.
Pieces == [text : Phrases, section : Phrases]

PieceOf(t, s) == [text |-> t, section |-> s]

Distinct(s) == \A i \in 1..Len(s) : \A j \in 1..Len(s) : s[i].text = s[j].text => i = j

LEMMA PiecesHold ==
    /\ \A t \in Phrases : \A s \in Phrases : PieceOf(t, s) \in Pieces
    /\ \A p \in Pieces : p.text \in Phrases /\ p.section \in Phrases
BY DEF Pieces, PieceOf

LEMMA SequencesAre ==
    ASSUME NEW E, NEW n \in Nat, NEW s \in [1..n -> E]
    PROVE  s \in Seq(E) /\ Len(s) = n
<1>1. s \in Seq(E)
    BY SeqDef
<1> QED BY <1>1

LEMMA PagesCutApart ==
    ASSUME NEW doc \in Documents
    PROVE  Cuts(doc) \in Seq(Pieces) /\ Distinct(Cuts(doc))
<1> DEFINE blocks == doc.blocks
           texts(i) == SplitBlock(blocks[i].parts, MaxChunk)
           cuts(i) == [k \in DOMAIN texts(i) |-> PieceOf(texts(i)[k], blocks[i].section)]
           all == FlattenSeq([i \in DOMAIN blocks |-> cuts(i)])
           P == {i \in DOMAIN all : \A j \in 1..(i - 1) : all[j].text # all[i].text}
<1>1. MaxChunk \in Nat /\ blocks \in Seq([parts : Seq(Phrases), section : Phrases])
    BY GroundingAssumption
<1>2. Cuts(doc) = Picked(all, P)
    BY DEF Cuts, Once, FromSection, PieceOf
<1> HIDE DEF blocks
<1>3. /\ Len(blocks) \in Nat /\ DOMAIN blocks = 1..Len(blocks)
      /\ \A i \in 1..Len(blocks) : blocks[i].parts \in Seq(Phrases) /\ blocks[i].section \in Phrases
    <2> DEFINE Q == Seq(Phrases)
               B == [parts : Q, section : Phrases]
    <2>1. blocks \in Seq(B)
        BY <1>1
    <2> HIDE DEF Q
    <2>2. \A b \in B : b.parts \in Q /\ b.section \in Phrases
        OBVIOUS
    <2> HIDE DEF B
    <2>3. Len(blocks) \in Nat /\ DOMAIN blocks = 1..Len(blocks) /\ \A i \in 1..Len(blocks) : blocks[i] \in B
        BY <2>1
    <2> QED BY <2>2, <2>3 DEF Q
<1>4. \A i \in 1..Len(blocks) : cuts(i) \in Seq(Pieces)
    <2> SUFFICES ASSUME NEW i \in 1..Len(blocks) PROVE cuts(i) \in Seq(Pieces)
        OBVIOUS
    <2> DEFINE t == texts(i)
               section == blocks[i].section
               c == [k \in DOMAIN t |-> PieceOf(t[k], section)]
    <2>1. t \in Seq(Phrases) /\ section \in Phrases
        BY <1>1, <1>3, BlocksSplitIntoPhrases
    <2> HIDE DEF t, section
    <2>2. Len(t) \in Nat /\ DOMAIN t = 1..Len(t) /\ \A k \in 1..Len(t) : t[k] \in Phrases
        BY <2>1
    <2>3. \A k \in 1..Len(t) : PieceOf(t[k], section) \in Pieces
        BY <2>1, <2>2, PiecesHold
    <2>4. c \in [1..Len(t) -> Pieces]
        BY <2>2, <2>3
    <2> HIDE DEF c
    <2>5. c \in Seq(Pieces)
        BY <2>2, <2>4, SequencesAre
    <2> QED BY <2>5 DEF c, t, section
<1> HIDE DEF cuts
<1>5. [i \in DOMAIN blocks |-> cuts(i)] \in [1..Len(blocks) -> Seq(Pieces)]
    BY <1>3, <1>4
<1>6. [i \in DOMAIN blocks |-> cuts(i)] \in Seq(Seq(Pieces))
    BY <1>3, <1>5, SequencesAre
<1>7. all \in Seq(Pieces)
    BY <1>6, FlattenedTexts
<1> HIDE DEF all
<1> DEFINE s == Picked(all, P)
           n == Cardinality(P)
<1>8. P \in SUBSET DOMAIN all
    OBVIOUS
<1>9. /\ s \in Seq(Pieces) /\ Len(s) = n
      /\ \E at \in Seq(P) :
            /\ Len(at) = n
            /\ \A k \in 1..n : s[k] = all[at[k]] /\ at[k] \in P
            /\ \A k \in 1..n : \A l \in 1..n : at[k] = at[l] => k = l
    <2> HIDE DEF P
    <2> QED BY <1>7, <1>8, PickedMembers
<1> HIDE DEF s, n
<1>10. ASSUME NEW k \in 1..n, NEW l \in 1..n, s[k].text = s[l].text
       PROVE  k = l
    <2>1. PICK at \in Seq(P) :
             /\ \A j \in 1..n : s[j] = all[at[j]] /\ at[j] \in P
             /\ at[k] = at[l] => k = l
        BY <1>9
    <2>2. \A i \in P : \A j \in P : all[i].text = all[j].text => i = j
        <3>1. \A i \in P : \A j \in P : i < j => all[i].text # all[j].text
            BY <1>7
        <3>2. \A i \in P : i \in Int
            BY <1>7
        <3> HIDE DEF P
        <3> QED BY <3>1, <3>2
    <2> HIDE DEF P
    <2> QED BY <1>10, <2>1, <2>2
<1> QED BY <1>2, <1>9, <1>10 DEF s, Distinct

\* The chunks of a page, and the numbers that they are ranked by.
Chunks == [page : Documents, ordinal : Nat, text : Phrases, section : Phrases,
           final : Int, lexical : Int]

ChunkOf(p, o, t, s, f, l) ==
    [page |-> p, ordinal |-> o, text |-> t, section |-> s, final |-> f, lexical |-> l]

LEMMA ChunksHold ==
    /\ \A p \in Documents : \A o \in Nat : \A t \in Phrases : \A s \in Phrases :
          \A f \in Int : \A l \in Int :
             /\ ChunkOf(p, o, t, s, f, l) \in Chunks
             /\ ChunkOf(p, o, t, s, f, l).page = p /\ ChunkOf(p, o, t, s, f, l).ordinal = o
             /\ ChunkOf(p, o, t, s, f, l).text = t /\ ChunkOf(p, o, t, s, f, l).section = s
    /\ \A c \in Chunks : /\ c.page \in Documents /\ c.ordinal \in Nat /\ c.text \in Phrases
                         /\ c.section \in Phrases /\ c.final \in Int /\ c.lexical \in Int
BY DEF Chunks, ChunkOf

\* The numbers that a chunk is scored by.
LEMMA LesserOfTwo ==
    ASSUME NEW a \in Int, NEW b \in Int
    PROVE  /\ Min({a, b}) \in {a, b} /\ Min({a, b}) <= a /\ Min({a, b}) <= b
           /\ Max({a, b}) \in {a, b}
<1>1. (a <= b \/ b <= a) /\ a <= a /\ b <= b
    OBVIOUS
<1>2. \E x \in {a, b} : \A y \in {a, b} : x <= y
    BY <1>1
<1>3. \E x \in {a, b} : \A y \in {a, b} : x >= y
    BY <1>1
<1>4. Min({a, b}) \in {a, b} /\ \A y \in {a, b} : Min({a, b}) <= y
    BY <1>2 DEF Min
<1>5. Max({a, b}) \in {a, b}
    BY <1>3 DEF Max
<1> QED BY <1>4, <1>5

LEMMA ProductsAreNumbers ==
    /\ \A a \in Int : \A b \in Int : a * b \in Int
    /\ \A a \in Int : \A b \in Int : a + b \in Int
OBVIOUS

LEMMA ScoresAreNumbers ==
    ASSUME NEW doc \in Documents, NEW query, IsFiniteSet(query), NEW text
    PROVE  /\ Lexical(query, text, doc.title) \in Int
           /\ Final(query, text, doc) \in Int
<1> DEFINE n == Cardinality(query)
           w == Cardinality(query \cap Words(text))
           v == Cardinality(query \cap Words(doc.title))
           t == Cardinality(ExactTerms(query))
           x == Cardinality(ExactTerms(query) \cap Words(text))
           lexical == Lexical(query, text, doc.title)
           exact == Exact(query, text)
           terms == Max({1, t})
           unit == 4 * n * terms
           a == doc.authority
           r == doc.fresh
<1>1. \A T \in SUBSET query : Cardinality(T) \in Int
    BY FS_Subset, FS_CardinalityType
<1>2. n \in Int /\ w \in Int /\ v \in Int /\ t \in Int /\ x \in Int
    BY <1>1 DEF ExactTerms
<1>3. a \in Int /\ r \in Int
    BY GroundingAssumption
<1>4. lexical = Min({4 * n, 4 * w + v})
    BY DEF Lexical
<1>5. exact = IF ExactTerms(query) # {} THEN 4 * n * x ELSE IF query \subseteq Words(text) THEN 4 * n ELSE 0
    BY DEF Exact
<1>6. Final(query, text, doc)
         = Min({10 * unit, 5 * terms * lexical + 2 * exact + (2 * a + r) * unit})
    BY Zenon DEF Final
<1> HIDE DEF n, w, v, t, x, lexical, exact, a, r
<1>7. lexical \in Int
    <2>1. 4 * n \in Int /\ 4 * w + v \in Int
        BY <1>2
    <2> QED BY <1>4, <2>1, LesserOfTwo
<1>8. exact \in Int
    <2>1. 4 * n \in Int /\ 4 * n * x \in Int
        BY <1>2, ProductsAreNumbers
    <2> QED BY <1>5, <2>1
<1>9. terms \in Int
    BY <1>2, LesserOfTwo
<1> HIDE DEF terms
<1>10. unit \in Int
    <2>1. 4 * n \in Int
        BY <1>2
    <2> QED BY <1>9, <2>1, ProductsAreNumbers
<1> HIDE DEF unit
<1>11. 5 * terms * lexical + 2 * exact + (2 * a + r) * unit \in Int
    <2>1. 5 * terms \in Int /\ 2 * exact \in Int /\ 2 * a + r \in Int
        BY <1>3, <1>8, <1>9
    <2>2. 5 * terms * lexical \in Int /\ (2 * a + r) * unit \in Int
        BY <1>7, <1>10, <2>1, ProductsAreNumbers
    <2> QED BY <2>1, <2>2, ProductsAreNumbers
<1>12. 10 * unit \in Int
    BY <1>10
<1>13. Final(query, text, doc) \in Int
    BY <1>6, <1>11, <1>12, LesserOfTwo
<1> QED BY <1>7, <1>13 DEF lexical

LEMMA PagesHaveChunks ==
    ASSUME NEW doc \in Documents, NEW query, IsFiniteSet(query)
    PROVE  /\ ChunksOf(query, doc) \in Seq(Chunks) /\ Distinct(ChunksOf(query, doc))
           /\ \A i \in 1..Len(ChunksOf(query, doc)) :
                 ChunksOf(query, doc)[i].page = doc /\ ChunksOf(query, doc)[i].ordinal = i
<1> DEFINE cuts == Cuts(doc)
           final(i) == Final(query, cuts[i].text, doc)
           lexical(i) == Lexical(query, cuts[i].text, doc.title)
           chunks == [i \in DOMAIN cuts |->
                        ChunkOf(doc, i, cuts[i].text, cuts[i].section, final(i), lexical(i))]
<1>1. ChunksOf(query, doc) = chunks
    BY DEF ChunksOf, Scored, ChunkOf
<1>2. \A i : final(i) \in Int /\ lexical(i) \in Int
    BY ScoresAreNumbers
<1> HIDE DEF final, lexical, cuts
<1>3. cuts \in Seq(Pieces) /\ Distinct(cuts)
    BY PagesCutApart DEF cuts
<1>4. /\ Len(cuts) \in Nat /\ DOMAIN cuts = 1..Len(cuts)
      /\ \A i \in 1..Len(cuts) : cuts[i].text \in Phrases /\ cuts[i].section \in Phrases
    <2>1. Len(cuts) \in Nat /\ DOMAIN cuts = 1..Len(cuts) /\ \A i \in 1..Len(cuts) : cuts[i] \in Pieces
        BY <1>3
    <2> QED BY <2>1, PiecesHold
<1>5. \A i \in 1..Len(cuts) :
         /\ chunks[i] \in Chunks /\ chunks[i].page = doc /\ chunks[i].ordinal = i
         /\ chunks[i].text = cuts[i].text
    <2> SUFFICES ASSUME NEW i \in 1..Len(cuts)
                 PROVE  /\ chunks[i] \in Chunks /\ chunks[i].page = doc /\ chunks[i].ordinal = i
                        /\ chunks[i].text = cuts[i].text
        OBVIOUS
    <2>1. i \in Nat /\ final(i) \in Int /\ lexical(i) \in Int
        BY <1>2, <1>4
    <2>2. chunks[i] = ChunkOf(doc, i, cuts[i].text, cuts[i].section, final(i), lexical(i))
        BY <1>4
    <2> HIDE DEF chunks
    <2> QED BY <1>4, <2>1, <2>2, ChunksHold
<1>6. chunks \in [1..Len(cuts) -> Chunks]
    BY <1>4, <1>5
<1> HIDE DEF chunks
<1>7. chunks \in Seq(Chunks) /\ Len(chunks) = Len(cuts)
    BY <1>4, <1>6, SequencesAre
<1> QED BY <1>1, <1>3, <1>5, <1>7 DEF Distinct

\* Chunks are ranked by six numbers, each where those before it are equal; the ordinal and
\* the number of the page tell any two apart.
Keys == [1..6 -> Int]

Earlier(k, l) == \E i \in 1..6 : k[i] < l[i] /\ \A j \in 1..(i - 1) : k[j] = l[j]

LEMMA KeysAreOrdered ==
    /\ \A k \in Keys : ~Earlier(k, k)
    /\ \A k \in Keys : \A l \in Keys :
          Earlier(k, l) \/ Earlier(l, k) \/ \A i \in 1..6 : k[i] = l[i]
    /\ \A k \in Keys : \A l \in Keys : \A m \in Keys :
          Earlier(k, l) /\ Earlier(l, m) => Earlier(k, m)
<1>1. ASSUME NEW k \in Keys PROVE ~Earlier(k, k)
    BY DEF Earlier, Keys
<1>2. ASSUME NEW k \in Keys, NEW l \in Keys, \E i \in 1..6 : k[i] # l[i]
      PROVE  Earlier(k, l) \/ Earlier(l, k)
    <2> DEFINE S == {i \in 1..6 : k[i] # l[i]}
    <2>1. S \subseteq Nat /\ S # {}
        BY <1>2
    <2>2. PICK i \in S : \A j \in S : i <= j
        <3> HIDE DEF S
        <3> QED BY <2>1, LeastNumber
    <2>3. i \in 1..6 /\ k[i] # l[i] /\ \A j \in 1..(i - 1) : k[j] = l[j]
        BY <2>2
    <2>4. k[i] \in Int /\ l[i] \in Int
        BY <2>3 DEF Keys
    <2>5. k[i] < l[i] \/ l[i] < k[i]
        BY <2>3, <2>4
    <2> QED BY <2>3, <2>5 DEF Earlier
<1>3. ASSUME NEW k \in Keys, NEW l \in Keys, NEW m \in Keys, Earlier(k, l), Earlier(l, m)
      PROVE  Earlier(k, m)
    <2>1. PICK i \in 1..6 : k[i] < l[i] /\ \A n \in 1..(i - 1) : k[n] = l[n]
        BY <1>3 DEF Earlier
    <2>2. PICK j \in 1..6 : l[j] < m[j] /\ \A n \in 1..(j - 1) : l[n] = m[n]
        BY <1>3 DEF Earlier
    <2>3. \A n \in 1..6 : k[n] \in Int /\ l[n] \in Int /\ m[n] \in Int
        BY DEF Keys
    <2>4. CASE i <= j
        <3>1. k[i] < m[i]
            <4>1. CASE i = j
                BY <2>1, <2>2, <2>3, <4>1
            <4>2. CASE i # j
                <5>1. i \in 1..(j - 1)
                    BY <2>4, <4>2
                <5> QED BY <2>1, <2>2, <5>1
            <4> QED BY <4>1, <4>2
        <3>2. \A n \in 1..(i - 1) : n \in 1..(j - 1)
            BY <2>4
        <3> QED BY <2>1, <2>2, <3>1, <3>2 DEF Earlier
    <2>5. CASE j < i
        <3>1. j \in 1..(i - 1)
            BY <2>5
        <3>2. \A n \in 1..(j - 1) : n \in 1..(i - 1)
            BY <2>5
        <3>3. k[j] < m[j]
            BY <2>1, <2>2, <3>1
        <3> QED BY <2>1, <2>2, <3>2, <3>3 DEF Earlier
    <2> QED BY <2>4, <2>5
<1> QED BY <1>1, <1>2, <1>3

LEMMA KeysHold ==
    ASSUME NEW c \in Chunks
    PROVE  /\ RankKey(c) \in Keys
           /\ RankKey(c)[5] = c.ordinal /\ RankKey(c)[6] = c.page.number
<1>1. /\ c.ordinal \in Int /\ -c.final \in Int /\ -c.lexical \in Int
      /\ c.page.number \in Int /\ -c.page.authority \in Int /\ -c.page.fresh \in Int
    <2>1. /\ c.page \in Documents /\ c.ordinal \in Int /\ c.final \in Int /\ c.lexical \in Int
        BY ChunksHold
    <2>2. c.page.number \in Int /\ c.page.authority \in Int /\ c.page.fresh \in Int
        BY <2>1, GroundingAssumption
    <2> QED BY <2>1, <2>2
<1> QED BY <1>1 DEF Keys, RankKey

\* Of two chunks of the pages of a round one is ranked before the other, and of those kept no
\* two have one text.
ChunkedFrom(chunks, query) ==
    \A c \in chunks : c \in Chunks /\ c = ChunksOf(query, c.page)[c.ordinal]

LEMMA ChunksAreRanked ==
    ASSUME NEW chunks, NEW query, ChunkedFrom(chunks, query)
    PROVE  Orders(chunks, {p \in chunks \X chunks : Before(p[1], p[2])})
<1> DEFINE R == {p \in chunks \X chunks : Before(p[1], p[2])}
<1>1. \A c \in chunks : \A d \in chunks : <<c, d>> \in R <=> Earlier(RankKey(c), RankKey(d))
    BY DEF Before, Earlier
<1>2. \A c \in chunks : RankKey(c) \in Keys
    BY KeysHold DEF ChunkedFrom
<1>3. ASSUME NEW c \in chunks, NEW d \in chunks, \A i \in 1..6 : RankKey(c)[i] = RankKey(d)[i]
      PROVE  c = d
    <2>1. c.ordinal = d.ordinal /\ c.page.number = d.page.number
        BY <1>3, KeysHold DEF ChunkedFrom
    <2>2. c.page = d.page
        BY <2>1, GroundingAssumption, ChunksHold DEF ChunkedFrom
    <2> QED BY <2>1, <2>2 DEF ChunkedFrom
<1> HIDE DEF R
<1>4. \A c \in chunks : <<c, c>> \notin R
    BY <1>1, <1>2, KeysAreOrdered
<1>5. ASSUME NEW c \in chunks, NEW d \in chunks, c # d
      PROVE  <<c, d>> \in R \/ <<d, c>> \in R
    <2>1. ~ \A i \in 1..6 : RankKey(c)[i] = RankKey(d)[i]
        BY <1>3, <1>5
    <2>2. Earlier(RankKey(c), RankKey(d)) \/ Earlier(RankKey(d), RankKey(c))
        BY <1>2, <2>1, KeysAreOrdered
    <2> QED BY <1>1, <2>2
<1>6. ASSUME NEW c \in chunks, NEW d \in chunks, NEW e \in chunks, <<c, d>> \in R, <<d, e>> \in R
      PROVE  <<c, e>> \in R
    <2>1. Earlier(RankKey(c), RankKey(d)) /\ Earlier(RankKey(d), RankKey(e))
        BY <1>1, <1>6
    <2>2. Earlier(RankKey(c), RankKey(e))
        BY <1>2, <2>1, KeysAreOrdered
    <2> QED BY <1>1, <2>2
<1>7. Orders(chunks, R)
    BY <1>4, <1>5, <1>6 DEF Orders
<1> QED BY <1>7 DEF R

LEMMA ImagesAreFinite ==
    ASSUME NEW f, IsFiniteSet(DOMAIN f)
    PROVE  IsFiniteSet({f[x] : x \in DOMAIN f})
<1> DEFINE T == {f[x] : x \in DOMAIN f}
           g == [x \in DOMAIN f |-> f[x]]
<1>1. g \in Surjection(DOMAIN f, T)
    BY DEF Surjection
<1> HIDE DEF g, T
<1>2. IsFiniteSet(T)
    BY <1>1, FS_Surjection
<1> QED BY <1>2 DEF T

\* A beginning of a sequence.
LEMMA BeginningsAre ==
    ASSUME NEW E, NEW s \in Seq(E), NEW most \in Nat
    PROVE  /\ Ahead(s, most) \in Seq(E) /\ Len(Ahead(s, most)) <= Len(s)
           /\ \A i \in 1..Len(Ahead(s, most)) : Ahead(s, most)[i] = s[i]
<1> DEFINE n == Min({most, Len(s)})
<1>1. Len(s) \in Nat /\ \A i \in 1..Len(s) : s[i] \in E
    OBVIOUS
<1>2. n \in Nat /\ n <= Len(s)
    <2>1. most \in Int /\ Len(s) \in Int
        BY <1>1
    <2>2. n \in {most, Len(s)} /\ n <= Len(s)
        BY <2>1, LesserOfTwo
    <2> HIDE DEF n
    <2> QED BY <1>1, <2>2
<1>3. Ahead(s, most) = SubSeq(s, 1, n)
    BY DEF Ahead
<1> HIDE DEF n
<1>4. /\ SubSeq(s, 1, n) \in Seq(E) /\ Len(SubSeq(s, 1, n)) = IF 1 <= n THEN n - 1 + 1 ELSE 0
      /\ \A i \in 1..(n - 1 + 1) : SubSeq(s, 1, n)[i] = s[1 + i - 1]
    <2>1. 1 \in Int /\ n \in Int /\ \A i \in 1..n : s[i] \in E
        BY <1>1, <1>2
    <2> QED BY <2>1, SubSeqProperties
<1> QED BY <1>1, <1>2, <1>3, <1>4

LEMMA RankedChunks ==
    ASSUME NEW chunks, NEW query, ChunkedFrom(chunks, query), IsFiniteSet(chunks)
    PROVE  Ranked(chunks) \in Seq(Chunks) /\ Distinct(Ranked(chunks))
<1> DEFINE left == WithoutMirrors(chunks)
           R == {p \in left \X left : Before(p[1], p[2])}
           s == InOrder(left, R)
<1>1. left \in SUBSET chunks
    BY DEF WithoutMirrors
<1>2. IsFiniteSet(left) /\ ChunkedFrom(left, query)
    BY <1>1, FS_Subset DEF ChunkedFrom
<1>3. Ranked(chunks) = s
    BY DEF Ranked
<1>4. \A c \in left : \A d \in left : c.text = d.text /\ c # d => <<c, d>> \in R /\ <<d, c>> \in R
    BY DEF WithoutMirrors
<1> HIDE DEF left
<1>5. Orders(left, R)
    BY <1>2, ChunksAreRanked
<1> HIDE DEF R
<1>6. \A c \in left : \A d \in left : c.text = d.text => c = d
    BY <1>4, <1>5 DEF Orders
<1>7. /\ s \in Seq(left) /\ Len(s) = Cardinality(left)
      /\ \A i \in 1..Cardinality(left) : \A j \in 1..Cardinality(left) : s[i] = s[j] => i = j
    BY <1>2, <1>5, OrderedMembers
<1> HIDE DEF s
<1>8. \A i \in 1..Len(s) : s[i] \in left
    BY <1>7
<1>9. Distinct(s)
    BY <1>6, <1>7, <1>8 DEF Distinct
<1>10. s \in Seq(Chunks)
    <2>1. \A i \in 1..Len(s) : s[i] \in Chunks
        BY <1>2, <1>8 DEF ChunkedFrom
    <2>2. Len(s) \in Nat /\ s \in [1..Len(s) -> Chunks]
        BY <1>7, <2>1
    <2> QED BY <2>2, SequencesAre
<1> QED BY <1>3, <1>9, <1>10

\* The first item of a list is a part of the chunks of its page.
LEMMA FirstPairs ==
    ASSUME NEW N \in Nat, NEW S \in SUBSET ((1..N) \X (1..N)), S # {}
    PROVE  \E p \in S : \A q \in S : p[1] < q[1] \/ (p[1] = q[1] /\ p[2] <= q[2])
<1> DEFINE A == {p[1] : p \in S}
<1>1. A \subseteq Nat /\ A # {}
    OBVIOUS
<1>2. PICK a \in A : \A b \in A : a <= b
    <2> HIDE DEF A
    <2> QED BY <1>1, LeastNumber
<1> DEFINE B == {p[2] : p \in {q \in S : q[1] = a}}
<1>3. B \subseteq Nat /\ B # {}
    BY <1>2
<1>4. PICK b \in B : \A c \in B : b <= c
    <2> HIDE DEF B
    <2> QED BY <1>3, LeastNumber
<1>5. PICK p \in S : p[1] = a /\ p[2] = b
    BY <1>4
<1>6. ASSUME NEW q \in S PROVE p[1] < q[1] \/ (p[1] = q[1] /\ p[2] <= q[2])
    <2>1. q[1] \in A /\ a <= q[1] /\ q[1] \in Nat /\ a \in Nat
        BY <1>2
    <2>2. CASE q[1] = a
        <3>1. q[2] \in B
            BY <2>2
        <3> HIDE DEF A, B
        <3> QED BY <1>4, <1>5, <2>2, <3>1
    <2>3. CASE q[1] # a
        <3> HIDE DEF A, B
        <3> QED BY <1>5, <2>1, <2>3
    <2> QED BY <2>2, <2>3
<1> QED BY <1>6

LEMMA FirstItemsHold ==
    ASSUME NEW s \in Seq(Chunks), Distinct(s)
    PROVE  FirstItem(s) \in Seq(Chunks) /\ Distinct(FirstItem(s))
<1> DEFINE N == Len(s)
           named == {p \in Beginnings(s) : Named(s, p)}
           first == CHOOSE p \in named : \A q \in named : p[1] < q[1] \/ (p[1] = q[1] /\ p[2] <= q[2])
           opens == Opens(s)
<1>1. N \in Nat /\ DOMAIN s = 1..N /\ \A i \in 1..N : s[i] \in Chunks
    OBVIOUS
<1>2. /\ opens = {} => FirstItem(s) = <<>>
      /\ opens # {} /\ named = {} => FirstItem(s) = <<s[Min(opens)]>>
      /\ opens # {} /\ named # {} => FirstItem(s) = SubSeq(s, first[1], first[2])
    BY DEF FirstItem
<1>3. /\ opens \in SUBSET (1..N) /\ named \in SUBSET ((1..N) \X (1..N))
      /\ \A p \in named : p[1] <= p[2]
    BY <1>1 DEF Opens, Beginnings
<1> HIDE DEF opens, named, N
<1>4. CASE opens = {}
    BY <1>2, <1>4 DEF Distinct
<1>5. CASE opens # {} /\ named = {}
    <2>1. s[Min(opens)] \in Chunks
        BY <1>1, <1>3, <1>5, EndsAreTaken
    <2> DEFINE e == s[Min(opens)]
    <2>2. FirstItem(s) = <<e>>
        BY <1>2, <1>5
    <2> HIDE DEF e
    <2>3. <<e>> \in Seq(Chunks) /\ Len(<<e>>) = 1
        BY <2>1 DEF e
    <2>4. Distinct(<<e>>)
        BY <2>3 DEF Distinct
    <2> QED BY <2>2, <2>3, <2>4
<1>6. CASE opens # {} /\ named # {}
    <2>1. first \in named
        BY <1>1, <1>3, <1>6, FirstPairs
    <2> HIDE DEF first
    <2> DEFINE a == first[1]
               b == first[2]
    <2>2. a \in 1..N /\ b \in 1..N /\ a <= b
        BY <1>3, <2>1
    <2>3. FirstItem(s) = SubSeq(s, a, b)
        BY <1>2, <1>6
    <2> HIDE DEF a, b
    <2> DEFINE t == SubSeq(s, a, b)
    <2>4. /\ t \in Seq(Chunks) /\ Len(t) = b - a + 1
          /\ \A i \in 1..(b - a + 1) : t[i] = s[a + i - 1]
        <3>1. a \in Int /\ b \in Int /\ \A i \in a..b : s[i] \in Chunks
            BY <1>1, <2>2
        <3> QED BY <2>2, <3>1, SubSeqProperties
    <2> HIDE DEF t
    <2>5. Distinct(t)
        <3> SUFFICES ASSUME NEW i \in 1..(b - a + 1), NEW j \in 1..(b - a + 1), t[i].text = t[j].text
                     PROVE  i = j
            BY <2>4 DEF Distinct
        <3>1. a + i - 1 \in 1..N /\ a + j - 1 \in 1..N
            BY <1>1, <2>2
        <3>2. a + i - 1 = a + j - 1
            BY <2>4, <3>1 DEF Distinct, N
        <3> QED BY <1>1, <2>2, <3>2
    <2> QED BY <2>3, <2>4, <2>5 DEF t
<1> QED BY <1>4, <1>5, <1>6

\* What is selected for a request of the pages that were fetched.
LEMMA SelectionsHold ==
    ASSUME NEW pages \in Seq(Documents), NEW request \in Requests
    PROVE  Selected(request, pages) \in Seq(Chunks) /\ Distinct(Selected(request, pages))
<1> DEFINE query == request.words
           found == WithFirstItem(request, pages)
           chunksOf == [i \in DOMAIN pages |-> ToSet(ChunksOf(query, pages[i]))]
           chunks == UNION {chunksOf[i] : i \in DOMAIN chunksOf}
           ranked == Ranked(chunks)
<1>1. Len(pages) \in Nat /\ DOMAIN pages = 1..Len(pages) /\ \A i \in 1..Len(pages) : pages[i] \in Documents
    OBVIOUS
<1>2. IsFiniteSet(query) /\ TopK \in Nat
    BY GroundingAssumption
<1>3. Selected(request, pages) =
         CASE request.first /\ found = {} -> <<>>
           [] request.first /\ found # {} -> FirstItem(ChunksOf(query, pages[Min(found)]))
           [] ~request.first -> Ahead(ranked, TopK)
    <2>1. chunks = UNION {ToSet(ChunksOf(request.words, pages[i])) : i \in DOMAIN pages}
        OBVIOUS
    <2> HIDE DEF chunks
    <2> QED BY <2>1, Zenon DEF Selected
<1>4. found \in SUBSET (1..Len(pages))
    BY <1>1 DEF WithFirstItem
<1> HIDE DEF query, found
<1>5. \A i \in 1..Len(pages) :
         /\ ChunksOf(query, pages[i]) \in Seq(Chunks) /\ Distinct(ChunksOf(query, pages[i]))
         /\ \A k \in 1..Len(ChunksOf(query, pages[i])) :
               ChunksOf(query, pages[i])[k].page = pages[i] /\ ChunksOf(query, pages[i])[k].ordinal = k
    BY <1>1, <1>2, PagesHaveChunks
<1>6. ASSUME NEW i \in 1..Len(pages)
      PROVE  IsFiniteSet(chunksOf[i]) /\ ChunkedFrom(chunksOf[i], query)
    <2> DEFINE s == ChunksOf(query, pages[i])
    <2>1. /\ s \in Seq(Chunks)
          /\ \A k \in 1..Len(s) : s[k].page = pages[i] /\ s[k].ordinal = k
        BY <1>5
    <2>2. chunksOf[i] = {s[k] : k \in DOMAIN s}
        BY <1>1 DEF ToSet
    <2>3. Len(s) \in Nat /\ DOMAIN s = 1..Len(s) /\ \A k \in 1..Len(s) : s[k] \in Chunks
        BY <2>1
    <2>4. IsFiniteSet(DOMAIN s)
        BY <2>3, LastIsTaken
    <2>5. \A c \in chunksOf[i] : c = ChunksOf(query, c.page)[c.ordinal]
        <3> SUFFICES ASSUME NEW c \in chunksOf[i] PROVE c = ChunksOf(query, c.page)[c.ordinal]
            OBVIOUS
        <3>1. PICK k \in DOMAIN s : c = s[k]
            BY <2>2
        <3>2. c.page = pages[i] /\ c.ordinal = k
            BY <2>1, <2>3, <3>1
        <3> QED BY <3>1, <3>2
    <2> HIDE DEF s, chunksOf
    <2>6. IsFiniteSet(chunksOf[i])
        BY <2>2, <2>4, ImagesAreFinite
    <2> QED BY <2>2, <2>3, <2>5, <2>6 DEF ChunkedFrom
<1>7. IsFiniteSet(DOMAIN chunksOf) /\ DOMAIN chunksOf = 1..Len(pages)
    BY <1>1, LastIsTaken
<1> HIDE DEF chunksOf
<1>8. IsFiniteSet(chunks)
    <2>1. IsFiniteSet({chunksOf[i] : i \in DOMAIN chunksOf})
        BY <1>7, ImagesAreFinite
    <2> QED BY <1>6, <1>7, <2>1, FS_UNION
<1>9. ChunkedFrom(chunks, query)
    BY <1>6, <1>7 DEF ChunkedFrom
<1> HIDE DEF chunks
<1>10. CASE request.first /\ found = {}
    BY <1>3, <1>10 DEF Distinct
<1>11. CASE request.first /\ found # {}
    <2>1. Min(found) \in 1..Len(pages)
        BY <1>1, <1>4, <1>11, EndsAreTaken
    <2>2. Selected(request, pages) = FirstItem(ChunksOf(query, pages[Min(found)]))
        BY <1>3, <1>11
    <2> QED BY <1>5, <2>1, <2>2, FirstItemsHold
<1>12. CASE ~request.first
    <2>1. ranked \in Seq(Chunks) /\ Distinct(ranked)
        BY <1>8, <1>9, RankedChunks
    <2> DEFINE s == Ahead(ranked, TopK)
    <2>2. Selected(request, pages) = s
        BY <1>3, <1>12
    <2> HIDE DEF ranked
    <2>3. s \in Seq(Chunks) /\ Len(s) <= Len(ranked) /\ \A i \in 1..Len(s) : s[i] = ranked[i]
        BY <1>2, <2>1, BeginningsAre
    <2> HIDE DEF s
    <2>4. Len(s) \in Nat /\ Len(ranked) \in Nat
        BY <2>1, <2>3
    <2>5. Distinct(s)
        BY <2>1, <2>3, <2>4 DEF Distinct
    <2> QED BY <2>2, <2>3, <2>5
<1> QED BY <1>10, <1>11, <1>12

\* A record of a page that is built: each quote is text of the page, and what it offers for
\* citation it would support.
RecordHolds(r) ==
    /\ r.page \in Documents /\ r.url = r.page.url
    /\ r.chunks \in Seq(Chunks) /\ r.quotes \in Seq(Phrases)
    /\ \A i \in DOMAIN r.quotes : Has(r.page.text, r.quotes[i])
    /\ \A s \in Spans(r) : Supported(r, s)

LEMMA CutsArePhrases ==
    ASSUME NEW t \in Phrases, NEW limit \in Nat
    PROVE  Cut(t, limit) \in Phrases
<1> DEFINE n == IF Len(t) <= limit THEN Len(t) ELSE limit
           left == SubSeq(t, 1, n)
           shown == DOMAIN left \ Spaces(left)
           m == Max(shown)
<1>1. n \in Nat /\ n <= Len(t)
    <2>1. Len(t) \in Nat
        BY PhrasesAreSeqs
    <2> QED BY <2>1
<1>2. Cut(t, limit) = IF shown = {} THEN <<>> ELSE SubSeq(left, 1, m)
    BY DEF Cut
<1> HIDE DEF n
<1>3. left \in Phrases
    BY <1>1, PiecesArePhrases
<1> HIDE DEF left
<1>4. Len(left) \in Nat /\ shown \in SUBSET (1..Len(left))
    BY <1>3, PhrasesAreSeqs
<1> HIDE DEF shown
<1>5. CASE shown = {}
    BY <1>2, <1>5, NoPhrase
<1>6. CASE shown # {}
    <2>1. m \in 1..Len(left)
        BY <1>4, <1>6, EndsAreTaken
    <2> HIDE DEF m
    <2>2. m \in Int /\ m <= Len(left) /\ 1 \in Nat \ {0}
        BY <1>4, <2>1
    <2>3. SubSeq(left, 1, m) \in Phrases
        BY <1>3, <2>2, PiecesArePhrases
    <2> QED BY <1>2, <1>6, <2>3
<1> QED BY <1>5, <1>6

LEMMA RecordsHold ==
    ASSUME NEW context \in Seq(Chunks), NEW doc \in Documents,
           Buildable(doc, ChunksFrom(context, doc))
    PROVE  /\ RecordHolds(Record(doc, ChunksFrom(context, doc)))
           /\ Record(doc, ChunksFrom(context, doc)).page = doc
<1> DEFINE P == {i \in DOMAIN context : context[i].page = doc}
           picked == Picked(context, P)
           chunks == ChunksFrom(context, doc)
           quotes == Quotes(chunks)
           r == Record(doc, chunks)
<1>1. picked \in Seq(Chunks)
    BY PickedMembers
<1>2. chunks \in Seq(Chunks)
    <2>1. MaxQuotes \in Nat /\ chunks = Ahead(picked, MaxQuotes)
        BY GroundingAssumption DEF ChunksFrom
    <2> HIDE DEF picked, chunks
    <2> QED BY <1>1, <2>1, BeginningsAre
<1> HIDE DEF chunks
<1>3. quotes \in Seq(Phrases)
    <2>1. /\ Len(chunks) \in Nat /\ DOMAIN chunks = 1..Len(chunks)
          /\ \A i \in 1..Len(chunks) : chunks[i] \in Chunks
        BY <1>2
    <2>2. \A i \in 1..Len(chunks) : Cut(chunks[i].text, QuoteLimit) \in Phrases
        BY <2>1, ChunksHold, CutsArePhrases, GroundingAssumption
    <2>3. quotes \in [1..Len(chunks) -> Phrases]
        BY <2>1, <2>2 DEF Quotes
    <2> HIDE DEF quotes
    <2> QED BY <2>1, <2>3, SequencesAre
<1>4. r.page = doc /\ r.url = doc.url /\ r.chunks = chunks /\ r.quotes = quotes
    BY DEF Record
<1>5. \A i \in DOMAIN quotes : Has(doc.text, quotes[i])
    <2>1. DOMAIN quotes = DOMAIN chunks
        BY DEF Quotes
    <2> HIDE DEF quotes
    <2>2. \A i \in DOMAIN chunks : Has(doc.text, Quotes(chunks)[i])
        BY Zenon DEF Buildable, chunks
    <2> QED BY <2>1, <2>2 DEF quotes
<1> HIDE DEF quotes, r
<1>6. ASSUME NEW s \in Spans(r) PROVE Supported(r, s)
    <2>1. PICK i \in DOMAIN quotes : s \in {quotes[i]} \cup Sentences(quotes[i])
        BY <1>4, <1>6 DEF Spans
    <2>2. Len(s) >= MinSpan /\ MinSpan \in Nat \ {0}
        BY <1>6, GroundingAssumption DEF Spans
    <2>3. quotes[i] \in Phrases
        BY <1>3, <2>1
    <2>4. HasExactly(quotes[i], s)
        <3>1. CASE s = quotes[i]
            <4>1. Len(s) \in Nat /\ Len(s) > 0
                BY <2>2, <2>3, <3>1, PhrasesAreSeqs
            <4> QED BY <2>3, <3>1, <4>1, TextsHaveThemselves
        <3>2. CASE s \in Sentences(quotes[i])
            <4>1. CASE Len(s) > 0
                BY <2>3, <3>2, <4>1, SentencesAreHad
            <4>2. Len(s) \in Nat
                BY <2>3, <3>2, SentencesAreTexts
            <4> QED BY <2>2, <4>1, <4>2
        <3> QED BY <2>1, <3>1, <3>2
    <2> QED BY <1>4, <2>1, <2>4 DEF Supported
<1>7. RecordHolds(r) /\ r.page = doc
    BY <1>2, <1>3, <1>4, <1>5, <1>6 DEF RecordHolds
<1> QED BY <1>7 DEF r, chunks

\* What a refusal is not about, and so what an answer that is not refused has: every claim
\* reads so in a record, and enough texts are cited.
Grounded(records, now, request, answer) ==
    /\ answer # <<>> /\ now \in 0..MaxAge
    /\ \A i \in DOMAIN answer : \E r \in records :
          LET c == answer[i] IN
          /\ c.id = r.url /\ c.url = r.url
          /\ HasExactly(Join(r.quotes), c.claim)
          /\ request.first =>
                \E k \in DOMAIN r.chunks : /\ r.chunks[k].section # NoSection
                                           /\ HasExactly(c.claim, r.chunks[k].section)
    /\ Cardinality({r.page.text : r \in {x \in records :
                       \E i \in DOMAIN answer : answer[i].id = x.url}}) >= request.sources

LEMMA ClaimsReadSo ==
    ASSUME NEW r, RecordHolds(r), NEW claim \in Phrases
    PROVE  /\ Supported(r, claim) => HasExactly(Join(r.quotes), claim)
           /\ NamesFirstItem(r, claim) =>
                 \E k \in DOMAIN r.chunks : /\ r.chunks[k].section # NoSection
                                            /\ HasExactly(claim, r.chunks[k].section)
<1>1. ASSUME Supported(r, claim) PROVE HasExactly(Join(r.quotes), claim)
    <2> DEFINE quotes == r.quotes
    <2>1. quotes \in Seq(Phrases)
        BY DEF RecordHolds
    <2>2. ASSUME NEW i \in DOMAIN quotes, HasExactly(quotes[i], claim)
          PROVE  HasExactly(Join(quotes), claim)
        <3> HIDE DEF quotes
        <3>1. i \in 1..Len(quotes)
            BY <2>1
        <3> QED BY <2>1, <2>2, <3>1, PartsStayJoined
    <2> QED BY <1>1, <2>2 DEF Supported
<1>2. ASSUME NamesFirstItem(r, claim)
      PROVE  \E k \in DOMAIN r.chunks : /\ r.chunks[k].section # NoSection
                                        /\ HasExactly(claim, r.chunks[k].section)
    <2> DEFINE sections == {r.chunks[i].section : i \in DOMAIN r.chunks} \ {NoSection}
    <2>1. claim \in sections \/ \E s \in sections : HasExactly(claim, s)
        BY <1>2, Zenon DEF NamesFirstItem
    <2>2. claim # NoSection => HasExactly(claim, claim)
        <3>1. claim # <<>> => Len(claim) > 0
            BY DEF Phrases
        <3> QED BY <3>1, TextsHaveThemselves DEF NoSection
    <2> QED BY <2>1, <2>2
<1> QED BY <1>1, <1>2

LEMMA RefusalsTell ==
    ASSUME NEW refusals, NEW n \in Nat, DOMAIN refusals = 1..n, NEW cited, IsFiniteSet(cited),
           NEW needed \in Nat, FirstRefusal(refusals, cited, needed) = "none"
    PROVE  /\ \A i \in 1..n : refusals[i] = "none"
           /\ cited # {} /\ Cardinality({r.page.text : r \in cited}) >= needed
<1> DEFINE refused == {i \in DOMAIN refusals : refusals[i] # "none"}
<1>1. refused \in SUBSET (1..n)
    OBVIOUS
<1>2. FirstRefusal(refusals, cited, needed) =
         CASE refused # {} -> refusals[Min(refused)]
           [] refused = {} /\ cited = {} -> "uncited_content"
           [] refused = {} /\ cited # {} /\ TooFewSources(cited, needed) -> "insufficient_source_diversity"
           [] OTHER -> "none"
    BY Zenon DEF FirstRefusal
<1>3. refused = {}
    <2> SUFFICES ASSUME refused # {} PROVE FALSE
        OBVIOUS
    <2>1. Min(refused) \in refused
        <3> HIDE DEF refused
        <3> QED BY <1>1, EndsAreTaken
    <2>2. refusals[Min(refused)] # "none"
        BY <2>1
    <2>3. FirstRefusal(refusals, cited, needed) = refusals[Min(refused)]
        <3> HIDE DEF refused
        <3> QED BY <1>2
    <2> QED BY <2>2, <2>3
<1>4. \A i \in 1..n : refusals[i] = "none"
    BY <1>3
<1> HIDE DEF refused
<1>5. cited # {} /\ ~TooFewSources(cited, needed)
    BY <1>2, <1>3
<1> DEFINE url == [r \in cited |-> r.url]
           text == [r \in cited |-> r.page.text]
           urls == {r.url : r \in cited}
           texts == {r.page.text : r \in cited}
<1>6. IsFiniteSet(urls)
    <2>1. urls = {url[r] : r \in DOMAIN url} /\ DOMAIN url = cited
        OBVIOUS
    <2> HIDE DEF url, urls
    <2> QED BY <2>1, ImagesAreFinite
<1>7. IsFiniteSet(texts)
    <2>1. texts = {text[r] : r \in DOMAIN text} /\ DOMAIN text = cited
        OBVIOUS
    <2> HIDE DEF text, texts
    <2> QED BY <2>1, ImagesAreFinite
<1>8. ~(Min({Cardinality(urls), Cardinality(texts)}) < needed)
    BY <1>5 DEF TooFewSources
<1> HIDE DEF urls, texts
<1> DEFINE a == Cardinality(urls)
           b == Cardinality(texts)
<1>9. a \in Int /\ b \in Int
    BY <1>6, <1>7, FS_CardinalityType
<1> HIDE DEF a, b
<1>10. Min({a, b}) \in {a, b} /\ Min({a, b}) <= b
    BY <1>9, LesserOfTwo
<1>11. ~(Min({a, b}) < needed)
    BY <1>8 DEF a, b
<1> DEFINE m == Min({a, b})
<1>12. m \in Int /\ m <= b /\ ~(m < needed)
    BY <1>9, <1>10, <1>11
<1> HIDE DEF m
<1>13. b >= needed
    BY <1>9, <1>12
<1> QED BY <1>4, <1>5, <1>13 DEF b, texts

LEMMA AcceptedAnswersAreGrounded ==
    ASSUME NEW records, IsFiniteSet(records), \A r \in records : RecordHolds(r),
           NEW now \in AnswerTimes, NEW request, request.sources \in Nat,
           NEW answer \in Answers, AnswerRefused(records, now, request, answer) = "none"
    PROVE  Grounded(records, now, request, answer)
<1> DEFINE refusals == [i \in DOMAIN answer |-> CitationRefused(records, now, request.first, answer[i])]
           cited == {r \in records : \E i \in DOMAIN answer : answer[i].id = r.url}
<1>1. answer \in Seq(ToSet(answer)) /\ \A i \in DOMAIN answer : answer[i].claim \in Phrases
    BY GroundingAssumption
<1>2. now \in Int /\ MaxAge \in Nat
    BY GroundingAssumption
<1>3. Len(answer) \in Nat /\ DOMAIN answer = 1..Len(answer)
    BY <1>1
<1>4. FirstRefusal(refusals, cited, request.sources) = "none"
    <2>1. AnswerRefused(records, now, request, answer) =
             IF ~IsInjective([i \in DOMAIN answer |-> answer[i].id]) THEN "duplicate_citation"
             ELSE FirstRefusal(refusals, cited, request.sources)
        BY Zenon DEF AnswerRefused
    <2> HIDE DEF refusals, cited
    <2> QED BY <2>1
<1>5. IsFiniteSet(cited)
    BY FS_Subset
<1>6. DOMAIN refusals = 1..Len(answer)
    BY <1>3
<1> HIDE DEF refusals, cited
<1>7. /\ \A i \in 1..Len(answer) : refusals[i] = "none"
      /\ cited # {} /\ Cardinality({r.page.text : r \in cited}) >= request.sources
    BY <1>3, <1>4, <1>5, <1>6, RefusalsTell
<1>8. answer # <<>>
    <2>1. PICK i : i \in DOMAIN answer
        BY <1>7 DEF cited
    <2> QED BY <2>1
<1>9. ASSUME NEW i \in DOMAIN answer
      PROVE  /\ now \in 0..MaxAge
             /\ \E r \in records :
                  /\ answer[i].id = r.url /\ answer[i].url = r.url
                  /\ HasExactly(Join(r.quotes), answer[i].claim)
                  /\ request.first =>
                        \E k \in DOMAIN r.chunks : /\ r.chunks[k].section # NoSection
                                                   /\ HasExactly(answer[i].claim, r.chunks[k].section)
    <2> DEFINE c == answer[i]
               of == {r \in records : r.url = c.id}
               r == CHOOSE x \in of : TRUE
               reads == (request.first => NamesFirstItem(r, c.claim)) /\ Supported(r, c.claim)
               why == CitationRefused(records, now, request.first, c)
    <2>1. why = "none"
        BY <1>3, <1>7, <1>9 DEF refusals
    <2>2. why =
             CASE of = {} -> "unknown_citation"
               [] of # {} /\ now < 0 -> "invalid_evidence"
               [] of # {} /\ now > MaxAge -> "stale_evidence"
               [] of # {} /\ now \in 0..MaxAge /\ c.url # r.url -> "url_mismatch"
               [] of # {} /\ now \in 0..MaxAge /\ c.url = r.url ->
                     IF reads THEN "none" ELSE "unsupported_claim"
        BY Zenon DEF CitationRefused
    <2>3. of # {} => r \in of
        OBVIOUS
    <2>4. r \in of => r \in records /\ r.url = c.id
        OBVIOUS
    <2>5. c.claim \in Phrases
        BY <1>1, <1>9
    <2>6. reads => (request.first => NamesFirstItem(r, c.claim)) /\ Supported(r, c.claim)
        OBVIOUS
    <2> HIDE DEF of, r, c, why, reads
    <2>7. now < 0 \/ now > MaxAge \/ now \in 0..MaxAge
        BY <1>2
    <2>8. of # {} /\ now \in 0..MaxAge /\ c.url = r.url /\ reads
        <3>1. of # {}
            BY <2>1, <2>2
        <3>2. ~(now < 0) /\ ~(now > MaxAge)
            <4>1. now < 0 => ~(now > MaxAge) /\ now \notin 0..MaxAge
                BY <1>2
            <4>2. now > MaxAge => ~(now < 0) /\ now \notin 0..MaxAge
                BY <1>2
            <4> QED BY <2>1, <2>2, <3>1, <4>1, <4>2
        <3>3. now \in 0..MaxAge
            BY <2>7, <3>2
        <3>4. c.url = r.url
            BY <2>1, <2>2, <3>1, <3>2, <3>3
        <3> QED BY <2>1, <2>2, <3>1, <3>2, <3>3, <3>4
    <2>9. r \in records /\ r.url = c.id /\ RecordHolds(r)
        BY <2>3, <2>4, <2>8
    <2>10. /\ HasExactly(Join(r.quotes), c.claim)
           /\ request.first =>
                 \E k \in DOMAIN r.chunks : /\ r.chunks[k].section # NoSection
                                            /\ HasExactly(c.claim, r.chunks[k].section)
        BY <2>5, <2>6, <2>8, <2>9, ClaimsReadSo
    <2> QED BY <2>8, <2>9, <2>10 DEF c
<1>10. now \in 0..MaxAge
    BY <1>8, <1>9, <1>1
<1> QED BY <1>7, <1>8, <1>9, <1>10 DEF Grounded, cited

\* The inductive invariant: what is selected consists of chunks of different texts, and each
\* record is one of a page of the round and holds; an accepted answer is grounded in them.
RoundInv ==
    /\ DOMAIN round = {"at", "pages", "request", "context", "records", "dropped", "tries", "now",
                       "answer"}
    /\ round.pages \in Seq(Documents) /\ round.request.sources \in Nat
    /\ round.context \in Seq(Chunks) /\ Distinct(round.context)
    /\ round.at \in {"fetched", "selected"} => round.records = {}
    /\ IsFiniteSet(round.records)
    /\ \A r \in round.records : RecordHolds(r) /\ r.page \in ToSet(round.pages)
    /\ round.at = "accepted" => Grounded(round.records, round.now, round.request, round.answer)

LEMMA RoundStarts == RoundInit => RoundInv
<1> SUFFICES ASSUME RoundInit PROVE RoundInv
    OBVIOUS
<1>1. /\ DOMAIN round = {"at", "pages", "request", "context", "records", "dropped", "tries", "now",
                         "answer"}
      /\ round.pages = <<>> /\ round.request.sources = 1 /\ round.context = <<>>
      /\ round.records = {} /\ round.at = "fetched"
    BY DEF RoundInit
<1>2. IsFiniteSet({}) /\ Distinct(<<>>) /\ <<>> \in Seq(Chunks) /\ <<>> \in Seq(Documents)
    BY FS_EmptySet DEF Distinct
<1> QED BY <1>1, <1>2 DEF RoundInv

LEMMA RoundsSelect ==
    ASSUME RoundInv, NEW pages \in Seq(Documents), NEW request \in Requests, SelectFrom(pages, request)
    PROVE  RoundInv'
<1> DEFINE selected == Selected(request, pages)
           at == IF Usable(selected) THEN "selected" ELSE "no_evidence"
<1>1. selected \in Seq(Chunks) /\ Distinct(selected)
    BY SelectionsHold
<1>2. /\ round.at = "fetched"
      /\ round' = [round EXCEPT !.pages = pages, !.request = request, !.context = selected, !.at = at]
    BY DEF SelectFrom
<1>3. at # "accepted"
    OBVIOUS
<1> HIDE DEF selected, at
<1>4. /\ DOMAIN round' = DOMAIN round /\ round.records = {}
      /\ round'.pages = pages /\ round'.request = request /\ round'.context = selected
      /\ round'.records = round.records /\ round'.at = at
    BY <1>2 DEF RoundInv
<1>5. request.sources \in Nat /\ IsFiniteSet({})
    BY GroundingAssumption, FS_EmptySet
<1> QED BY <1>1, <1>3, <1>4, <1>5 DEF RoundInv, Distinct

LEMMA RoundsBuild ==
    ASSUME RoundInv, BuildRecords
    PROVE  RoundInv'
<1> DEFINE with == {p \in ToSet(round.pages) : ChunksFrom(round.context, p) # <<>>}
           crashed == \E p \in with : Crashes(p)
           built == {p \in with : Buildable(p, ChunksFrom(round.context, p))}
           recorded == [p \in built |-> Record(p, ChunksFrom(round.context, p))]
           made == {Record(p, ChunksFrom(round.context, p)) : p \in built}
           records == IF crashed THEN {} ELSE made
           dropped == Cardinality(with \ built)
           at == IF crashed THEN "failed" ELSE IF built = {} THEN "no_evidence" ELSE "answering"
<1>1. round' = [round EXCEPT !.records = records, !.dropped = dropped, !.at = at]
    BY DEF BuildRecords
<1>2. at # "accepted" /\ at \notin {"fetched", "selected"}
    OBVIOUS
<1>3. IsFiniteSet(made)
    <2>1. ToSet(round.pages) = {round.pages[i] : i \in DOMAIN round.pages}
        BY DEF ToSet
    <2>2. IsFiniteSet(DOMAIN round.pages)
        BY LastIsTaken DEF RoundInv
    <2>3. IsFiniteSet(ToSet(round.pages))
        BY <2>1, <2>2, ImagesAreFinite
    <2>4. built \in SUBSET ToSet(round.pages)
        OBVIOUS
    <2>5. IsFiniteSet(built)
        <3> HIDE DEF built
        <3> QED BY <2>3, <2>4, FS_Subset
    <2>6. made = {recorded[p] : p \in DOMAIN recorded} /\ DOMAIN recorded = built
        OBVIOUS
    <2> HIDE DEF made, recorded, built
    <2> QED BY <2>5, <2>6, ImagesAreFinite
<1>4. \A r \in made : RecordHolds(r) /\ r.page \in ToSet(round.pages)
    <2> SUFFICES ASSUME NEW p \in built
                 PROVE  LET r == Record(p, ChunksFrom(round.context, p))
                        IN RecordHolds(r) /\ r.page \in ToSet(round.pages)
        OBVIOUS
    <2>1. p \in ToSet(round.pages) /\ Buildable(p, ChunksFrom(round.context, p))
        OBVIOUS
    <2>2. p \in Documents /\ round.context \in Seq(Chunks)
        BY <2>1 DEF RoundInv, ToSet
    <2> QED BY <2>1, <2>2, RecordsHold
<1>5. IsFiniteSet(records) /\ \A r \in records : RecordHolds(r) /\ r.page \in ToSet(round.pages)
    BY <1>3, <1>4, FS_EmptySet
<1> HIDE DEF records, dropped, at
<1>6. /\ DOMAIN round' = DOMAIN round /\ round'.pages = round.pages /\ round'.request = round.request
      /\ round'.context = round.context /\ round'.records = records /\ round'.at = at
    BY <1>1 DEF RoundInv
<1> QED BY <1>2, <1>5, <1>6 DEF RoundInv, Distinct

LEMMA RoundsAnswer ==
    ASSUME RoundInv, NEW answer \in Answers, NEW now \in AnswerTimes, NEW inScope \in BOOLEAN,
           Answer(answer, now, inScope)
    PROVE  RoundInv'
<1> DEFINE why == AnswerRefused(round.records, now, round.request, answer)
           taken == why = "none" /\ inScope
           left == IF taken THEN answer ELSE round.answer
           at == CASE taken -> "accepted"
                   [] ~taken /\ round.tries > 1 /\ (why \in Retryable \/ why = "none") -> "answering"
                   [] OTHER -> "abstained"
<1>1. round' = [round EXCEPT !.now = now, !.tries = @ - 1, !.answer = left, !.at = at]
    BY DEF Answer
<1>2. at \notin {"fetched", "selected"} /\ (at = "accepted" => taken)
    OBVIOUS
<1>3. taken => left = answer /\ why = "none"
    OBVIOUS
<1> HIDE DEF taken, left, at
<1>4. /\ DOMAIN round' = DOMAIN round /\ round'.pages = round.pages /\ round'.request = round.request
      /\ round'.context = round.context /\ round'.records = round.records
      /\ round'.at = at /\ round'.now = now /\ round'.answer = left
    BY <1>1 DEF RoundInv
<1>5. taken => Grounded(round.records, now, round.request, answer)
    BY <1>3, AcceptedAnswersAreGrounded DEF RoundInv
<1> HIDE DEF why
<1>6. at = "accepted" => Grounded(round'.records, round'.now, round'.request, round'.answer)
    BY <1>2, <1>3, <1>4, <1>5
<1> QED BY <1>2, <1>4, <1>6 DEF RoundInv, Distinct

(***************************************************************************)
(* An accepted answer is grounded in pages that were fetched, for any      *)
(* pages, requests and answers, any characters and any limits.             *)
(***************************************************************************)
THEOREM AnswersStayGrounded == RoundSpec => []AnswersAreGrounded
<1>1. RoundInit => RoundInv
    BY RoundStarts
<1>2. RoundInv /\ [RoundNext]_round => RoundInv'
    <2> SUFFICES ASSUME RoundInv, [RoundNext]_round PROVE RoundInv'
        OBVIOUS
    <2> DEFINE fetches == {<<p>> : p \in Documents} \cup {<<p, q>> : p, q \in Documents}
    <2>1. ASSUME NEW pages \in fetches, NEW request \in Requests, SelectFrom(pages, request)
          PROVE  RoundInv'
        <3>1. CASE \E p \in Documents : pages = <<p>>
            <4>1. pages \in Seq(Documents)
                BY <3>1
            <4> QED BY <2>1, <4>1, RoundsSelect
        <3>2. CASE \E p \in Documents : \E q \in Documents : pages = <<p, q>>
            <4>1. pages \in Seq(Documents)
                BY <3>2
            <4> QED BY <2>1, <4>1, RoundsSelect
        <3> QED BY <3>1, <3>2
    <2>2. CASE BuildRecords
        BY <2>2, RoundsBuild
    <2>3. ASSUME NEW now \in AnswerTimes, NEW inScope \in BOOLEAN, NEW answer \in Answers,
                 Answer(answer, now, inScope)
          PROVE  RoundInv'
        BY <2>3, RoundsAnswer
    <2>4. CASE UNCHANGED round
        BY <2>4 DEF RoundInv, Distinct, Grounded
    <2> DEFINE Selects == \E pages \in fetches, request \in Requests :
                             (/\ IsInjective([i \in DOMAIN pages |-> pages[i].url])
                              /\ SelectFrom(pages, request))
               Answered == \E now \in AnswerTimes, inScope \in BOOLEAN :
                              \E answer \in Answers : Answer(answer, now, inScope)
    <2>5. RoundNext => Selects \/ BuildRecords \/ Answered
        BY DEF RoundNext
    <2> HIDE DEF fetches
    <2>6. Selects => RoundInv'
        BY <2>1
    <2>7. Answered => RoundInv'
        BY <2>3
    <2> HIDE DEF Selects, Answered
    <2> QED BY <2>2, <2>4, <2>5, <2>6, <2>7
<1>3. RoundInv => AnswersAreGrounded
    <2> SUFFICES ASSUME RoundInv PROVE AnswersAreGrounded
        OBVIOUS
    <2>1. IsInjective([i \in DOMAIN round.context |-> round.context[i].text])
        <3>1. DOMAIN round.context = 1..Len(round.context)
            BY DEF RoundInv
        <3> QED BY <3>1 DEF RoundInv, Distinct, IsInjective
    <2>2. \A r \in round.records : /\ \A i \in DOMAIN r.quotes : Has(r.page.text, r.quotes[i])
                                   /\ \A s \in Spans(r) : Supported(r, s)
        BY DEF RoundInv, RecordHolds
    <2>3. round.at = "accepted" => Grounded(round.records, round.now, round.request, round.answer)
        BY DEF RoundInv
    <2>4. \A r \in round.records : r.page \in ToSet(round.pages)
        BY DEF RoundInv
    <2> QED BY <2>1, <2>2, <2>3, <2>4 DEF AnswersAreGrounded, Grounded
<1> QED BY <1>1, <1>2, <1>3, PTL DEF RoundSpec
=============================================================================

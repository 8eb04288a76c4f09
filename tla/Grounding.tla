------------------------------ MODULE Grounding ------------------------------
(***************************************************************************)
(* From the pages of a run to its answer: the pages are cut into chunks,   *)
(* the best are selected, each page with a selected chunk becomes a record *)
(* of quotes, a model answers with citations, and only an answer whose     *)
(* claims its records support is accepted.  The model answers as it likes. *)
(***************************************************************************)
EXTENDS PageText

CONSTANTS
    Documents,       \* documents: their address, title, text, blocks and standing
    Requests,    \* answer focuses: their words, whether they ask for the first item of a
                 \* list, the addresses they name, and the sources that an answer needs
    Answers,     \* what a model may answer: citations [id, url, claim]
    AnswerTimes,   \* readings of the clock; the pages were fetched at 0
    MaxAge, MaxChunk, MaxContext, TopK, MaxQuotes, QuoteLimit, MinSpan,
    LongWord,    \* the length from which a word is an exact term
    Attempts     \* _SYNTHESIS_ATTEMPTS

ASSUME GroundingAssumption ==
    /\ {MaxChunk, MaxContext, TopK, MaxQuotes, QuoteLimit, Attempts, MinSpan} \subseteq Nat \ {0}
    /\ AnswerTimes \subseteq Int /\ MaxAge \in Nat
    /\ \A page \in Documents :
          /\ page.text \in Phrases /\ page.title \in Phrases
          /\ page.number \in Int /\ page.authority \in Int /\ page.fresh \in Int
          /\ page.blocks \in Seq([parts : Seq(Phrases), section : Phrases])
          /\ \A i \in DOMAIN page.blocks : Has(page.text, Join(page.blocks[i].parts))
    /\ \A p, q \in Documents : p.number = q.number => p = q
    /\ \A request \in Requests : request.sources \in Nat /\ IsFiniteSet(request.words)
    /\ \A answer \in Answers : /\ answer \in Seq(ToSet(answer))
                               /\ \A i \in DOMAIN answer : answer[i].claim \in Phrases

VARIABLE round

NoSection == <<>>

(***************************************************************************)
(* chunk_document: the scores are fractions, taken here times one          *)
(* denominator.                                                            *)
(***************************************************************************)
Lexical(query, text, title) ==
    Min({4 * Cardinality(query),
         4 * Cardinality(query \cap Words(text)) + Cardinality(query \cap Words(title))})

ExactTerms(query) == {w \in query : Len(w) >= LongWord}

Exact(query, text) ==
    LET terms == ExactTerms(query) IN
    IF terms # {} THEN 4 * Cardinality(query) * Cardinality(terms \cap Words(text))
    ELSE IF query \subseteq Words(text) THEN 4 * Cardinality(query) ELSE 0

Final(query, text, page) ==
    LET terms == Max({1, Cardinality(ExactTerms(query))})
        unit  == 4 * Cardinality(query) * terms
    IN Min({10 * unit, 5 * terms * Lexical(query, text, page.title) + 2 * Exact(query, text)
                          + (2 * page.authority + page.fresh) * unit})

\* The texts of one section; the pieces of a page in order, a text that comes again left out.
FromSection(texts, section) == [k \in DOMAIN texts |-> [text |-> texts[k], section |-> section]]

Once(all) == Picked(all, {i \in DOMAIN all : \A j \in 1..(i - 1) : all[j].text # all[i].text})

Cuts(page) ==
    Once(FlattenSeq([i \in DOMAIN page.blocks |->
        FromSection(SplitBlock(page.blocks[i].parts, MaxChunk), page.blocks[i].section)]))

\* Its chunks, by their ordinals.
Scored(cuts, query, page) ==
    [i \in DOMAIN cuts |->
        [page |-> page, ordinal |-> i, text |-> cuts[i].text, section |-> cuts[i].section,
         final |-> Final(query, cuts[i].text, page),
         lexical |-> Lexical(query, cuts[i].text, page.title)]]

ChunksOf(query, page) == Scored(Cuts(page), query, page)

\* _rank_key; the order of the last resort is that of the chunks' identities, which mean
\* nothing: the number of the page stands for it.
RankKey(c) ==
    <<-c.final, -c.lexical, -c.page.authority, -c.page.fresh, c.ordinal, c.page.number>>

Before(c, d) ==
    \E i \in 1..6 : /\ RankKey(c)[i] < RankKey(d)[i]
                    /\ \A k \in 1..(i - 1) : RankKey(c)[k] = RankKey(d)[k]

\* Of pages that mirror a text the chunk that ranks first stands for all.
WithoutMirrors(chunks) ==
    {c \in chunks : \A d \in chunks : d.text = c.text /\ d # c => Before(c, d)}

Ranked(chunks) ==
    LET kept == WithoutMirrors(chunks)
    IN InOrder(kept, {p \in kept \X kept : Before(p[1], p[2])})

\* _first_structured_item: chunks that follow each other under one section are a group; the
\* first beginning of a group whose text has its section, but not at the start.
Opens(chunks) ==
    {i \in DOMAIN chunks : /\ chunks[i].section # NoSection
                           /\ i > 1 => chunks[i - 1].section # chunks[i].section}

Beginnings(chunks) ==
    {p \in Opens(chunks) \X DOMAIN chunks :
        p[1] <= p[2] /\ \A k \in p[1]..p[2] : chunks[k].section = chunks[p[1]].section}

Named(chunks, p) ==
    LET text == Join([i \in 1..(p[2] - p[1] + 1) |-> chunks[p[1] + i - 1].text])
        at   == Places(text, chunks[p[1]].section)
    IN at # {} /\ 1 \notin at

FirstItem(chunks) ==
    LET named == {p \in Beginnings(chunks) : Named(chunks, p)}
        first == CHOOSE p \in named : \A q \in named : p[1] < q[1] \/ (p[1] = q[1] /\ p[2] <= q[2])
    IN CASE Opens(chunks) = {} -> <<>>
         [] Opens(chunks) # {} /\ named = {} -> <<chunks[Min(Opens(chunks))]>>
         [] Opens(chunks) # {} /\ named # {} -> SubSeq(chunks, first[1], first[2])

\* select_context: empty when there is nothing that may be selected.
WithFirstItem(request, pages) ==
    {i \in DOMAIN pages : /\ request.only = {} \/ pages[i].url \in request.only
                          /\ FirstItem(ChunksOf(request.words, pages[i])) # <<>>}

Ahead(sequence, most) == SubSeq(sequence, 1, Min({most, Len(sequence)}))

Selected(request, pages) ==
    LET found == WithFirstItem(request, pages) IN
    CASE request.first /\ found = {} -> <<>>
      [] request.first /\ found # {} -> FirstItem(ChunksOf(request.words, pages[Min(found)]))
      [] ~request.first ->
            Ahead(Ranked(UNION {ToSet(ChunksOf(request.words, pages[i])) : i \in DOMAIN pages}), TopK)

\* The quotes of the selected context itself, which share its budget of characters.
ContextQuotes(chunks) ==
    FoldLeft(LAMBDA acc, c :
                LET quote == BoundedQuote(c.text, Min({acc.left, QuoteLimit}))
                IN IF acc.left <= 0 \/ quote = <<>> THEN acc
                   ELSE [quotes |-> Append(acc.quotes, quote), left |-> acc.left - Len(quote)],
             [quotes |-> <<>>, left |-> MaxContext],
             Ahead(chunks, MaxQuotes))

(***************************************************************************)
(* build_evidence, by the runner: the quotes of a page are the beginnings  *)
(* of its selected chunks.                                                 *)
(***************************************************************************)
ChunksFrom(selected, page) ==
    Ahead(Picked(selected, {i \in DOMAIN selected : selected[i].page = page}), MaxQuotes)

Quotes(chunks) == [i \in DOMAIN chunks |-> Cut(chunks[i].text, QuoteLimit)]

\* Quotes that are alike are one, and then the chunks no longer match them.
Buildable(page, chunks) ==
    /\ \A i \in DOMAIN chunks : Has(page.text, Quotes(chunks)[i])
    /\ IsInjective(Quotes(chunks))

\* The chunks of a page are checked by cutting it again, with the words of its title for a
\* request: a title without any is an error that is no failure of the page.
Crashes(page) == Words(page.title) = {}

Record(page, chunks) ==
    [page |-> page, url |-> page.url, chunks |-> chunks, quotes |-> Quotes(chunks)]

\* _citable_spans: the quotes and their sentences, the short ones left out.
Spans(record) ==
    {s \in UNION {{record.quotes[i]} \cup Sentences(record.quotes[i]) : i \in DOMAIN record.quotes} :
        Len(s) >= MinSpan}

(***************************************************************************)
(* AnswerValidator.validate                                                *)
(***************************************************************************)
NamesFirstItem(record, claim) ==
    LET sections == {record.chunks[i].section : i \in DOMAIN record.chunks} \ {NoSection}
        text     == Join([i \in DOMAIN record.chunks |-> record.chunks[i].text])
    IN \/ claim \in sections
       \/ HasExactly(text, claim) /\ \E s \in sections : HasExactly(claim, s)

SupportedAnywhere(record, claim) == Has(Join(record.quotes), claim)
Supported(record, claim) ==
    \/ \E i \in DOMAIN record.quotes : HasExactly(record.quotes[i], claim)
    \/ HasExactly(Join(record.quotes), claim)

\* Why one citation is refused, in the order of the checks; records by their address.
CitationRefused(records, now, first, c) ==
    LET of == {r \in records : r.url = c.id}
        r  == CHOOSE x \in of : TRUE
    IN CASE of = {} -> "unknown_citation"
         [] of # {} /\ now < 0 -> "invalid_evidence"
         [] of # {} /\ now > MaxAge -> "stale_evidence"
         [] of # {} /\ now \in 0..MaxAge /\ c.url # r.url -> "url_mismatch"
         [] of # {} /\ now \in 0..MaxAge /\ c.url = r.url ->
               IF (first => NamesFirstItem(r, c.claim)) /\ Supported(r, c.claim) THEN "none"
               ELSE "unsupported_claim"

TooFewSources(cited, needed) ==
    Min({Cardinality({r.url : r \in cited}), Cardinality({r.page.text : r \in cited})}) < needed

FirstRefusal(refusals, cited, needed) ==
    LET refused == {i \in DOMAIN refusals : refusals[i] # "none"} IN
    CASE refused # {} -> refusals[Min(refused)]
      [] refused = {} /\ cited = {} -> "uncited_content"
      [] refused = {} /\ cited # {} /\ TooFewSources(cited, needed) -> "insufficient_source_diversity"
      [] OTHER -> "none"

AnswerRefused(records, now, request, answer) ==
    IF ~IsInjective([i \in DOMAIN answer |-> answer[i].id]) THEN "duplicate_citation"
    ELSE FirstRefusal(
            [i \in DOMAIN answer |-> CitationRefused(records, now, request.first, answer[i])],
            {r \in records : \E i \in DOMAIN answer : answer[i].id = r.url},
            request.sources)

Retryable == {"unknown_citation", "url_mismatch", "unsupported_claim", "duplicate_citation",
              "uncited_content", "insufficient_source_diversity"}

(***************************************************************************)
(* The round: fetched pages, selection, records, answers.                  *)
(***************************************************************************)
RoundInit ==
    round = [at |-> "fetched", pages |-> <<>>, request |-> [words |-> {}, first |-> FALSE, only |-> {}, sources |-> 1],
             context |-> <<>>, records |-> {}, dropped |-> 0, tries |-> Attempts, now |-> 0,
             answer |-> <<>>]

Usable(selected) == selected # <<>> /\ ContextQuotes(selected).quotes # <<>>

SelectFrom(pages, request) ==
    /\ round.at = "fetched"
    /\ \E selected \in {Selected(request, pages)} :
          round' = [round EXCEPT !.pages = pages, !.request = request, !.context = selected,
                                 !.at = IF Usable(selected) THEN "selected" ELSE "no_evidence"]

BuildRecords ==
    /\ round.at = "selected"
    /\ LET with    == {p \in ToSet(round.pages) : ChunksFrom(round.context, p) # <<>>}
           crashed == \E p \in with : Crashes(p)
           built   == {p \in with : Buildable(p, ChunksFrom(round.context, p))}
       IN round' = [round EXCEPT
             !.records = IF crashed THEN {} ELSE {Record(p, ChunksFrom(round.context, p)) : p \in built},
             !.dropped = Cardinality(with \ built),
             !.at = IF crashed THEN "failed" ELSE IF built = {} THEN "no_evidence" ELSE "answering"]

\* One answer of the model, and what the validator and the policy on its scope say of it.
Answer(answer, now, inScope) ==
    /\ round.at = "answering"
    /\ LET why == AnswerRefused(round.records, now, round.request, answer) IN
       round' = [round EXCEPT
          !.now = now,
          !.tries = @ - 1,
          !.answer = IF why = "none" /\ inScope THEN answer ELSE @,
          !.at = CASE why = "none" /\ inScope -> "accepted"
                   [] ~(why = "none" /\ inScope) /\ round.tries > 1
                      /\ (why \in Retryable \/ why = "none") -> "answering"
                   [] OTHER -> "abstained"]

RoundNext ==
    \/ /\ round.at = "fetched"
       /\ \E pages \in {<<p>> : p \in Documents} \cup {<<p, q>> : p, q \in Documents}, request \in Requests :
             (IsInjective([i \in DOMAIN pages |-> pages[i].url]) /\ SelectFrom(pages, request))
    \/ BuildRecords
    \/ /\ round.at = "answering"
       /\ \E now \in AnswerTimes, inScope \in BOOLEAN :
             \E answer \in Answers : Answer(answer, now, inScope)

RoundSpec == RoundInit /\ [][RoundNext]_round

(***************************************************************************)
(* Whatever the model says: an accepted answer consists of claims, each of *)
(* which reads so in the quotes of a page that was fetched and is not      *)
(* stale; every quote is verbatim text of its page, mirrored pages count   *)
(* once and give no second chunk; for the first item of a list each claim  *)
(* names a section of the item; and every span that was offered to the     *)
(* model for citation would be accepted as a claim.                        *)
(***************************************************************************)
AnswersAreGrounded ==
    /\ round.at = "accepted" =>
          /\ round.answer # <<>> /\ round.now \in 0..MaxAge
          /\ \A i \in DOMAIN round.answer : \E r \in round.records :
                LET c == round.answer[i] IN
                /\ c.id = r.url /\ c.url = r.url /\ r.page \in ToSet(round.pages)
                /\ HasExactly(Join(r.quotes), c.claim)
                /\ round.request.first =>
                      \E k \in DOMAIN r.chunks : /\ r.chunks[k].section # NoSection
                                                 /\ HasExactly(c.claim, r.chunks[k].section)
          /\ Cardinality({r.page.text : r \in {x \in round.records :
                            \E i \in DOMAIN round.answer : round.answer[i].id = x.url}}) >= round.request.sources
    /\ \A r \in round.records :
          /\ \A i \in DOMAIN r.quotes : Has(r.page.text, r.quotes[i])
          /\ \A s \in Spans(r) : Supported(r, s)
    /\ IsInjective([i \in DOMAIN round.context |-> round.context[i].text])

=============================================================================

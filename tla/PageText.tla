------------------------------ MODULE PageText ------------------------------
(***************************************************************************)
(* Phrases as sequences of characters, single-spaced as the code leaves    *)
(* them, and what the code asks of them.                                   *)
(***************************************************************************)
EXTENDS Integers, SequencesExt, FiniteSetsExt

CONSTANTS Letters, Space, Period   \* the characters: those of words, and two others

ASSUME PageTextAssumption == Space # Period /\ Space \notin Letters /\ Period \notin Letters

Phrases == Seq(Letters \cup {Space, Period})

\* The members of a finite set in an order, given as the pairs in it: the one in a place has
\* as many before it as there are places before; and what a sequence has at some places.
InOrder(set, order) ==
    [i \in 1..Cardinality(set) |->
        CHOOSE x \in set : Cardinality({y \in set : <<y, x>> \in order}) = i - 1]

Picked(sequence, places) ==
    LET at == InOrder(places, {p \in places \X places : p[1] < p[2]})
    IN [k \in 1..Cardinality(places) |-> sequence[at[k]]]

\* The places at which a text has another one.
Places(text, part) ==
    {i \in 1..(Len(text) - Len(part) + 1) : SubSeq(text, i, i + Len(part) - 1) = part}

Has(text, part) == Places(text, part) # {}

Spaces(text) == {i \in DOMAIN text : text[i] = Space}

Strip(text) ==
    LET kept == DOMAIN text \ Spaces(text)
    IN IF kept = {} THEN <<>> ELSE SubSeq(text, Min(kept), Max(kept))

Words(text) ==
    {SubSeq(text, p[1], p[2]) : p \in
        {q \in (DOMAIN text) \X (DOMAIN text) :
            /\ q[1] <= q[2]
            /\ \A k \in q[1]..q[2] : text[k] \in Letters
            /\ q[1] > 1 => text[q[1] - 1] \notin Letters
            /\ q[2] < Len(text) => text[q[2] + 1] \notin Letters}}

\* " ".join, one text beside another.
Beside(first, next) == IF first = <<>> THEN next ELSE first \o <<Space>> \o next

Join(texts) == FoldLeft(LAMBDA all, text : Beside(all, text), <<>>, texts)

\* _contains_exact_text: at a place where it neither begins nor ends within a word.
HasExactly(text, part) ==
    part # <<>> /\ \E i \in Places(text, part) :
        LET last == i + Len(part) - 1 IN
        /\ i = 1 \/ part[1] \notin Letters \/ text[i - 1] \notin Letters
        /\ \/ last = Len(text)
           \/ part[Len(part)] \notin Letters
           \/ text[last + 1] \notin Letters

\* _hard_wrap: at the last space that fits, unless it is in the first half.  Each turn of its
\* loop takes a character at least, so that the text has as many turns as it may take.
WrapTurn(wrap, limit) ==
    LET rest     == wrap.rest
        spaces   == {i \in Spaces(rest) : i <= limit + 1}
        boundary == IF spaces = {} \/ Max(spaces) - 1 < limit \div 2 THEN limit
                    ELSE Max(spaces) - 1
    IN IF Len(rest) <= limit THEN wrap
       ELSE [done |-> Append(wrap.done, Strip(SubSeq(rest, 1, boundary))),
             rest |-> Strip(SubSeq(rest, boundary + 1, Len(rest)))]

Wrapped(wrap) == IF wrap.rest = <<>> THEN wrap.done ELSE Append(wrap.done, wrap.rest)

HardWrap(text, limit) ==
    Wrapped(FoldLeft(LAMBDA w, c : WrapTurn(w, limit), [done |-> <<>>, rest |-> text], text))

\* _split_block: the parts of a block that is too long, packed as long as they fit.
Pack(pack, piece, limit) ==
    LET candidate == Beside(pack.current, piece)
    IN CASE Len(candidate) <= limit -> [pack EXCEPT !.current = candidate]
         [] Len(candidate) > limit /\ pack.current = <<>> -> [pack EXCEPT !.current = piece]
         [] Len(candidate) > limit /\ pack.current # <<>> ->
               [chunks |-> Append(pack.chunks, pack.current), current |-> piece]

Packed(pack) == IF pack.current = <<>> THEN pack.chunks ELSE Append(pack.chunks, pack.current)

SplitBlock(parts, limit) ==
    IF Len(Join(parts)) <= limit THEN <<Join(parts)>>
    ELSE Packed(FoldLeft(LAMBDA p, piece : Pack(p, piece, limit),
                         [chunks |-> <<>>, current |-> <<>>],
                         FlattenSeq([i \in DOMAIN parts |-> HardWrap(parts[i], limit)])))

\* The text up to a limit, without the spaces that it then ends in.
Cut(text, limit) ==
    LET kept  == SubSeq(text, 1, IF Len(text) <= limit THEN Len(text) ELSE limit)
        shown == DOMAIN kept \ Spaces(kept)
    IN IF shown = {} THEN <<>> ELSE SubSeq(kept, 1, Max(shown))

BoundedQuote(text, limit) ==
    LET spaces   == {i \in Spaces(text) : i <= limit + 1}
        half     == IF limit \div 2 < 1 THEN 1 ELSE limit \div 2
        boundary == IF spaces = {} \/ Max(spaces) - 1 < half THEN limit ELSE Max(spaces) - 1
    IN CASE limit <= 0 -> <<>>
         [] limit > 0 /\ Len(text) <= limit -> text
         [] limit > 0 /\ Len(text) > limit -> Strip(SubSeq(text, 1, boundary))

\* The sentences of a text, each with its stops.
Sentences(text) ==
    {Strip(SubSeq(text, p[1], p[2])) : p \in
        {q \in (DOMAIN text) \X (DOMAIN text) :
            /\ q[1] <= q[2] /\ text[q[1]] # Period
            /\ q[1] > 1 => text[q[1] - 1] = Period
            /\ \A k \in q[1]..(q[2] - 1) : text[k] = Period => text[k + 1] = Period
            /\ q[2] < Len(text) => text[q[2]] = Period /\ text[q[2] + 1] # Period}}
=============================================================================

----------------------------- MODULE PageBlocks -----------------------------
(***************************************************************************)
(* The two parsers that take tables and blocks from a page, fed the same   *)
(* tags and words.  Neither sees the tree: each keeps one count of the     *)
(* elements that are open inside a hidden one, and a few marks of where it *)
(* is.  The tree itself is the history `open`, which the properties        *)
(* compare the parsers with.  Pages are well nested.                       *)
(***************************************************************************)
EXTENDS Integers, SequencesExt

CONSTANTS
    Vocabularies, \* sets of elements [tag, hidden]; a page keeps to one
    MaxTags,    \* bound: the tags and words of a page
    MaxDepth      \* bound: the elements open at once

ASSUME PageAssumption == Vocabularies \subseteq SUBSET [tag : STRING, hidden : BOOLEAN]

BlockTags == {"h", "li", "p"}
Void == "br"
DateTags == {"time", "date"}  \* a time with its attribute; a span of class date

VARIABLES
    page,   \* history: what of the page was read, and the tree it is
    table,  \* _HTMLTableParser
    block   \* _HTMLBlockParser

pageVars == <<page, table, block>>

NoTable == [hiding |-> 0, depth |-> 0, rows |-> {}, inRow |-> FALSE, row |-> {},
            inCell |-> FALSE, cell |-> {}, out |-> <<>>]
NoBlock == [hiding |-> 0, active |-> "none", words |-> {}, attribute |-> FALSE,
            pending |-> FALSE, out |-> <<>>]

PageInit ==
    /\ page \in {[words |-> v, tokens |-> 0, open |-> <<>>, lost |-> FALSE, over |-> FALSE] :
                    v \in Vocabularies}
    /\ table = NoTable /\ block = NoBlock

Hidden == \E i \in DOMAIN page.open : page.open[i].hidden

\* A count that only the first element of a hidden part raises, and the one of the code:
\* void elements, which never close, are not counted.
EnterOnce(p, e) == IF p.hiding > 0 THEN p ELSE [p EXCEPT !.hiding = 1]
Enter(p, e) == IF e.tag = Void THEN p ELSE [p EXCEPT !.hiding = @ + 1]

\* _HTMLTableParser.handle_starttag
TableStart(t, e) ==
    CASE t.hiding > 0 \/ e.hidden -> Enter(t, e)
      [] t.hiding = 0 /\ ~e.hidden /\ e.tag = "table" ->
            [t EXCEPT !.depth = @ + 1, !.rows = IF t.depth = 0 THEN {} ELSE @]
      [] t.hiding = 0 /\ ~e.hidden /\ e.tag # "table" ->
            CASE t.depth = 1 /\ e.tag = "tr" -> [t EXCEPT !.inRow = TRUE, !.row = {}]
              [] t.depth = 1 /\ e.tag = "td" /\ t.inRow -> [t EXCEPT !.inCell = TRUE, !.cell = {}]
              [] OTHER -> t

\* handle_data, which asks for no count: a hidden part of a cell leaves the marks of the
\* cell as they are.
TableData(t, word) == IF t.depth = 1 /\ t.inCell THEN [t EXCEPT !.cell = @ \cup {word}] ELSE t

\* handle_endtag
TableEnd(t, e) ==
    CASE t.hiding > 0 -> [t EXCEPT !.hiding = @ - 1]
      [] t.hiding = 0 /\ t.depth = 1 /\ e.tag = "td" ->
            [t EXCEPT !.row = IF t.inRow /\ t.inCell THEN @ \cup t.cell ELSE @,
                      !.inCell = FALSE, !.cell = {}]
      [] t.hiding = 0 /\ t.depth = 1 /\ e.tag = "tr" ->
            [t EXCEPT !.rows = IF t.inRow THEN @ \cup t.row ELSE @,
                      !.inRow = FALSE, !.row = {}, !.inCell = FALSE, !.cell = {}]
      [] t.hiding = 0 /\ t.depth > 0 /\ e.tag = "table" ->
            IF t.depth > 1 THEN [t EXCEPT !.depth = @ - 1]
            ELSE [NoTable EXCEPT !.out = IF t.rows = {} THEN t.out ELSE Append(t.out, t.rows)]
      [] OTHER -> t

\* _finish_block: a date waits for the heading that comes right after it.
Finish(b) ==
    LET cleared == [b EXCEPT !.active = "none", !.words = {}, !.attribute = FALSE] IN
    CASE b.active = "none" -> b
      [] b.active \in DateTags -> [cleared EXCEPT !.pending = b.words # {} \/ b.attribute]
      [] b.active \in BlockTags /\ b.words = {} -> cleared
      [] b.active \in BlockTags /\ b.words # {} ->
            [cleared EXCEPT !.pending = FALSE,
                            !.out = Append(@, [tag |-> b.active, words |-> b.words,
                                               dated |-> b.pending /\ b.active = "h"])]

\* _HTMLBlockParser.handle_starttag: a date within a heading or a paragraph is part of it.
BlockStart(b, e) ==
    CASE b.hiding > 0 \/ e.hidden -> Enter(b, e)
      [] b.hiding = 0 /\ ~e.hidden /\ e.tag \in DateTags /\ b.active \in {"none", "li"} ->
            [Finish(b) EXCEPT !.active = e.tag, !.attribute = e.tag = "time"]
      [] b.hiding = 0 /\ ~e.hidden /\ e.tag \in BlockTags -> [Finish(b) EXCEPT !.active = e.tag]
      [] OTHER -> b

BlockData(b, word) ==
    IF b.hiding = 0 /\ b.active # "none" THEN [b EXCEPT !.words = @ \cup {word}] ELSE b

BlockEnd(b, e) ==
    CASE b.hiding > 0 -> [b EXCEPT !.hiding = @ - 1]
      [] b.hiding = 0 /\ e.tag = b.active -> Finish(b)
      [] OTHER -> b

\* What may stand in what.
Nests(e) ==
    LET parent == IF page.open = <<>> THEN "body" ELSE page.open[Len(page.open)].tag IN
    /\ e.tag = "tr" <=> parent = "table"
    /\ e.tag = "td" <=> parent = "tr"

\* A block or a date within an open block breaks it, but a date not a heading or paragraph.
Breaks(e) == /\ ~e.hidden /\ ~Hidden
             /\ \/ e.tag \in BlockTags
                \/ /\ e.tag \in DateTags
                   /\ page.open # <<>> => page.open[Len(page.open)].tag \notin {"h", "p"}

Open(e) ==
    /\ ~page.over /\ page.tokens < MaxTags /\ Nests(e)
    /\ e.tag # Void => Len(page.open) < MaxDepth
    /\ table' = TableStart(table, e)
    /\ block' = BlockStart(block, e)
    /\ LET outer == [i \in DOMAIN page.open |->
                       [page.open[i] EXCEPT !.leaf = @ /\ ~Breaks(e)]]
           node  == [tag |-> e.tag, hidden |-> e.hidden, leaf |-> TRUE, spoke |-> FALSE]
       IN page' = [page EXCEPT !.tokens = @ + 1,
                               !.open = IF e.tag = Void THEN @ ELSE Append(outer, node)]

ReadWord ==
    /\ ~page.over /\ page.tokens < MaxTags
    /\ LET word == IF Hidden THEN "hidden" ELSE "shown" IN
       /\ table' = TableData(table, word)
       /\ block' = BlockData(block, word)
       /\ page' = [page EXCEPT !.tokens = @ + 1,
                               !.open = [i \in DOMAIN page.open |->
                                           [page.open[i] EXCEPT !.spoke = @ \/ ~Hidden]]]

Shut ==
    /\ ~page.over /\ page.open # <<>>
    /\ LET e == page.open[Len(page.open)] IN
       /\ table' = TableEnd(table, e)
       /\ block' = BlockEnd(block, e)
       /\ page' = [page EXCEPT !.open = SubSeq(@, 1, Len(@) - 1),
                               !.lost = \/ @
                                        \/ /\ e.tag \in BlockTags /\ e.leaf /\ e.spoke
                                           /\ Len(block'.out) = Len(block.out)]

\* close: the text after the last tag of a block that is still open counts as well.
EndPage ==
    /\ ~page.over /\ page.open = <<>>
    /\ block' = Finish(block)
    /\ page' = [page EXCEPT !.over = TRUE]
    /\ UNCHANGED table

PageNext == (\E e \in page.words : Open(e)) \/ ReadWord \/ Shut \/ EndPage

PageSpec == PageInit /\ [][PageNext]_pageVars

(***************************************************************************)
(* What the parser of blocks takes from a well nested page, however its    *)
(* hidden parts nest: no word of a hidden part is in a block, and the      *)
(* words of an innermost visible block are not lost, nor does the parser   *)
(* believe in the end that it still is inside a hidden part.               *)
(***************************************************************************)
BlocksShowThePage ==
    /\ \A i \in DOMAIN block.out : block.out[i].words = {"shown"}
    /\ ~page.lost
    /\ page.over => block.hiding = 0 /\ table.hiding = 0 /\ table.depth = 0
=============================================================================

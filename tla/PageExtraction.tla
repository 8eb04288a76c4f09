--------------------------- MODULE PageExtraction ---------------------------
(***************************************************************************)
(* A fetched body is parsed in a process of its own, which may hang, die   *)
(* or answer anything; the caller gives it a time, may itself be cancelled *)
(* at any moment, more than once, and must not leave the process behind.   *)
(***************************************************************************)
EXTENDS PageBlocks, FiniteSetsExt

CONSTANTS
    Parts,        \* the pieces of text of a page
    SizeOf,       \* their sizes
    Bodies,       \* the bodies: pages of markup, of text, of PDF
    MaxInput,     \* max_input_bytes
    MaxChars,     \* max_output_chars
    MaxPdfPages, MaxStream, BlocksPerPage,
    MaxCancels    \* bound: how often the caller is cancelled

LineKinds == {"blank", "heading", "table", "text"}

ASSUME ExtractionAssumption ==
    /\ SizeOf \in [Parts -> Nat \ {0}]
    /\ {MaxInput, MaxChars, MaxPdfPages, MaxStream, BlocksPerPage} \subseteq Nat \ {0}
    /\ \A body \in Bodies :
          /\ body.bytes \in Nat
          /\ body.kind = "markup" /\ body.parsed =>
                /\ body.kept \subseteq Parts /\ IsFiniteSet(body.kept)
                /\ body.found \in Seq(Parts) /\ body.title \in Nat
          /\ body.kind = "pdf" => body.pages \in Seq([stream : Nat, lines : Seq(LineKinds)])
                                  /\ body.title \in Nat

VARIABLES
    extraction, \* the call of AsyncLocalExtractor.extract
    worker      \* its process

extractionVars == <<extraction, worker>>

Refused(reason) == [ok |-> FALSE, reason |-> reason, parts |-> {}, size |-> 0, blocks |-> <<>>]
Document(parts, size, blocks) ==
    [ok |-> TRUE, reason |-> "none", parts |-> parts, size |-> size, blocks |-> blocks]

Sum(sizes) == FoldLeft(+, 0, sizes)
TotalSize(parts) == FoldSet(LAMBDA p, n : n + SizeOf[p], 0, parts)

(***************************************************************************)
(* Markup: the library keeps a part of the page, and the blocks and tables *)
(* it left out are added while they fit.                                   *)
(***************************************************************************)
AppendMissing(text, part, limit) ==
    IF part \in text.parts \/ text.size + SizeOf[part] + 1 > limit THEN text
    ELSE [parts |-> text.parts \cup {part}, size |-> text.size + SizeOf[part] + 1]

FromMarkup(body) ==
    LET kept  == [parts |-> body.kept, size |-> TotalSize(body.kept)]
        limit == MaxChars - body.title
        text  == FoldLeft(LAMBDA t, p : AppendMissing(t, p, limit), kept, body.found)
        blocks == SelectSeq(body.found, LAMBDA p : p \in text.parts)
    IN CASE ~body.parsed -> Refused("malformed_content")
         [] body.parsed /\ body.kept = {} -> Refused("no_content")
         [] body.parsed /\ body.kept # {} /\ kept.size + body.title > MaxChars ->
               Refused("output_too_large")
         [] body.parsed /\ body.kept # {} /\ kept.size + body.title <= MaxChars ->
               Document(text.parts, text.size + body.title,
                        IF blocks = <<>> THEN <<[part |-> "whole", size |-> text.size]>>
                        ELSE [i \in DOMAIN blocks |-> [part |-> blocks[i], size |-> SizeOf[blocks[i]]]])

FromPlainText(body) ==
    CASE ~body.parsed -> Refused("malformed_content")
      [] body.parsed /\ body.chars = 0 -> Refused("no_content")
      [] body.parsed /\ body.chars > MaxChars -> Refused("output_too_large")
      [] body.parsed /\ body.chars \in 1..MaxChars ->
            Document({}, body.chars, <<[part |-> "whole", size |-> body.chars]>>)

(***************************************************************************)
(* PDF: a page is cut where a line is blank, a table begins or ends, or a  *)
(* heading stands.                                                         *)
(***************************************************************************)
Flush(cut) ==
    IF cut.buffer = 0 THEN cut
    ELSE [cut EXCEPT !.buffer = 0,
                     !.out = Append(@, [part |-> "whole", size |-> cut.buffer])]

CutLine(cut, line) ==
    CASE line = "blank" -> [Flush(cut) EXCEPT !.table = FALSE]
      [] line = "heading" -> [Flush(cut) EXCEPT !.buffer = 1, !.table = FALSE]
      [] line \in {"table", "text"} ->
            LET same == IF cut.table = (line = "table") THEN cut ELSE Flush(cut)
            IN [same EXCEPT !.buffer = @ + 1, !.table = line = "table"]

PageCut(lines) ==
    Flush(FoldLeft(CutLine, [buffer |-> 0, table |-> FALSE, out |-> <<>>], lines)).out

Chars(lines) == Cardinality({i \in DOMAIN lines : lines[i] # "blank"})

\* One page more; the first limit that is passed ends the reading.
ReadPdfPage(doc, p) ==
    LET stream == doc.stream + p.stream
        size   == doc.size + Chars(p.lines) + (IF doc.blocks = <<>> THEN 0 ELSE 1)
    IN CASE doc.reason # "none" -> doc
         [] doc.reason = "none" /\ stream > MaxStream ->
               [doc EXCEPT !.reason = "content_stream_too_large"]
         [] doc.reason = "none" /\ stream <= MaxStream /\ Chars(p.lines) = 0 ->
               [doc EXCEPT !.stream = stream]
         [] doc.reason = "none" /\ stream <= MaxStream /\ Chars(p.lines) > 0 ->
               IF size > MaxChars THEN [doc EXCEPT !.reason = "output_too_large"]
               ELSE [doc EXCEPT !.stream = stream, !.size = size,
                                !.blocks = @ \o PageCut(p.lines)]

FromPdf(body) ==
    LET doc == FoldLeft(ReadPdfPage, [stream |-> 0, size |-> body.title, blocks |-> <<>>,
                                      reason |-> "none"], body.pages)
    IN CASE ~body.parsed -> Refused("malformed_content")
         [] body.parsed /\ body.encrypted -> Refused("encrypted_document")
         [] body.parsed /\ ~body.encrypted /\ Len(body.pages) > MaxPdfPages ->
               Refused("page_limit")
         [] body.parsed /\ ~body.encrypted /\ Len(body.pages) <= MaxPdfPages ->
               CASE doc.reason # "none" -> Refused(doc.reason)
                 [] doc.reason = "none" /\ doc.blocks = <<>> -> Refused("no_content")
                 [] doc.reason = "none" /\ doc.blocks # <<>> ->
                       Document({}, doc.size, doc.blocks)

\* LocalExtractor.extract, in the worker
Extracted(body) ==
    CASE body.bytes > MaxInput -> Refused("input_too_large")
      [] body.bytes <= MaxInput /\ body.kind = "markup" -> FromMarkup(body)
      [] body.bytes <= MaxInput /\ body.kind = "text" -> FromPlainText(body)
      [] body.bytes <= MaxInput /\ body.kind = "pdf" -> FromPdf(body)

(***************************************************************************)
(* What the parent takes for a document: it trusts no limit of the worker, *)
(* and its own count of blocks and of their characters may refuse what the *)
(* worker accepted.                                                        *)
(***************************************************************************)
Decoded(result) ==
    CASE ~result.ok -> result
      [] result.ok /\ result.size <= MaxChars
                   /\ Len(result.blocks) <= MaxPdfPages * BlocksPerPage
                   /\ Sum([i \in DOMAIN result.blocks |-> result.blocks[i].size]) <= MaxChars
                   /\ \A i \in DOMAIN result.blocks :
                         result.blocks[i].part \in result.parts \cup {"whole"} -> result
      [] OTHER -> Refused("malformed_content")

NoResult == Refused("none")
NoBody == [kind |-> "none"]

ExtractionInit ==
    /\ extraction = [at |-> "new", body |-> NoBody, why |-> "none", cancels |-> 0,
                     result |-> NoResult]
    /\ worker = [state |-> "none", result |-> NoResult]

Finished == {"document", "failed", "cancelled"}

EndExtraction(outcome, why) == [extraction EXCEPT !.at = outcome, !.why = why]

\* A body that is too large starts no process.
SpawnWorker(body) ==
    /\ extraction.at = "new"
    /\ IF body.bytes > MaxInput
       THEN /\ extraction' = EndExtraction("failed", "input_too_large")
            /\ UNCHANGED worker
       ELSE /\ extraction' = [extraction EXCEPT !.at = "waiting", !.body = body]
            /\ worker' = [worker EXCEPT !.state = "running"]

\* The process prints what it found and exits, or dies without a word.
WorkerParses ==
    /\ worker.state = "running"
    /\ worker' = [state |-> "exited", result |-> Extracted(extraction.body)]
    /\ UNCHANGED extraction

WorkerDies ==
    /\ worker.state \in {"running", "killed"}
    /\ worker' = [worker EXCEPT !.state = "exited"]
    /\ UNCHANGED extraction

\* communicate ends: its process is reaped with it.
Collect ==
    /\ extraction.at = "waiting" /\ worker.state = "exited"
    /\ worker' = [worker EXCEPT !.state = "reaped"]
    /\ LET result == IF worker.result = NoResult THEN Refused("malformed_content")
                     ELSE Decoded(worker.result)
       IN extraction' = [EndExtraction(IF result.ok THEN "document" ELSE "failed", result.reason)
                            EXCEPT !.result = result]

\* The time is up, or the caller is cancelled, and _terminate_worker begins.
Abandon(why) ==
    /\ extraction.at = "waiting"
    /\ why = "cancelled" => extraction.cancels < MaxCancels
    /\ extraction' = [extraction EXCEPT !.at = "reaping", !.why = why,
                                        !.cancels = IF why = "cancelled" THEN @ + 1 ELSE @]
    /\ worker' = [worker EXCEPT !.state = IF @ = "running" THEN "killed" ELSE @]

\* A cancellation during the reaping: it waits on.
CancelAgain ==
    /\ extraction.at = "reaping" /\ extraction.cancels < MaxCancels
    /\ extraction' = [extraction EXCEPT !.cancels = @ + 1]
    /\ UNCHANGED worker

Reap ==
    /\ extraction.at = "reaping" /\ worker.state = "exited"
    /\ worker' = [worker EXCEPT !.state = "reaped"]
    /\ extraction' = EndExtraction(IF extraction.why = "cancelled" THEN "cancelled" ELSE "failed",
                                   extraction.why)

ExtractionNext ==
    \/ extraction.at = "new" /\ \E body \in Bodies : SpawnWorker(body)
    \/ \E why \in {"timeout", "cancelled"} : Abandon(why)
    \/ WorkerParses \/ WorkerDies \/ Collect \/ CancelAgain \/ Reap

ExtractionSpec == ExtractionInit /\ [][ExtractionNext]_extractionVars

(***************************************************************************)
(* When a call is over its process is gone, however it ended and however   *)
(* often the caller was cancelled meanwhile; and a document is what a      *)
(* process printed, within the limits, with no block that its text lacks.  *)
(***************************************************************************)
NoWorkerIsLeft ==
    /\ extraction.at \in Finished => worker.state \in {"none", "reaped"}
    /\ extraction.at = "document" =>
          /\ extraction.result = Extracted(extraction.body)
          /\ extraction.result.size <= MaxChars
          /\ extraction.body.kind = "markup" => extraction.body.kept \subseteq extraction.result.parts
          /\ extraction.body.kind = "pdf" =>
                Sum([i \in DOMAIN extraction.result.blocks |-> extraction.result.blocks[i].size])
                   = Sum([i \in DOMAIN extraction.body.pages |-> Chars(extraction.body.pages[i].lines)])

readingVars == <<pageVars, extractionVars>>

ReadingNext ==
    (PageNext /\ UNCHANGED extractionVars) \/ (ExtractionNext /\ UNCHANGED pageVars)

ReadingSpec == PageInit /\ ExtractionInit /\ [][ReadingNext]_readingVars

(***************************************************************************)
(* What a run reads of a page is what the page shows, and reading it, with *)
(* all its ways to fail, leaves no process behind.                         *)
(***************************************************************************)
PagesAreReadRight == BlocksShowThePage /\ NoWorkerIsLeft
=============================================================================

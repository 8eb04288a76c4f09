------------------------------ MODULE WebFetch ------------------------------
(***************************************************************************)
(* One guarded fetch: every address that is connected to was checked just  *)
(* before, at every redirect anew, since a name may answer otherwise the   *)
(* next time; bodies are read in bounded pieces, and whatever happens the  *)
(* response that is open is closed.  Servers, resolvers and the transport  *)
(* answer as they like, and the caller may be cancelled at any await.      *)
(*                                                                         *)
(* AccessSpec has a search and a fetch next to one another, both under the *)
(* rules of SitePolicy.                                                    *)
(***************************************************************************)
EXTENDS WebSearch, FiniteSetsExt

CONSTANTS
    Urls,       \* what a caller or a Location header may name
    MaxBytes,   \* max_bytes
    PieceBytes, \* _DECODE_CHUNK_BYTES
    NoUrl

ASSUME FetchAssumption ==
    /\ {MaxBytes, PieceBytes} \subseteq Nat \ {0}
    /\ NoUrl \notin Urls

VARIABLES
    fetch,     \* the call: where it is, its redirects, the URL it checked, the body
    contacted  \* history: the requests it sent

fetchVars == <<fetch, contacted>>

FetchIdle ==
    [at |-> "new", redirects |-> 0, url |-> NoUrl, answer |-> {}, open |-> FALSE,
     target |-> NoUrl, encoded |-> FALSE, raw |-> 0, pending |-> 0, held |-> 0, body |-> 0,
     why |-> "none"]

FetchInit == fetch = FetchIdle /\ contacted = <<>>

Over == {"document", "failed", "cancelled"}

Fail(why) == [fetch EXCEPT !.at = IF fetch.open THEN "closing" ELSE "failed", !.why = why]

\* _raise_policy_failure
PolicyReason(kind) ==
    IF kind = "redirects" THEN "too_many_redirects"
    ELSE IF kind = "malformed" /\ fetch.redirects > 0 THEN "malformed_redirect"
    ELSE "policy_rejected"

PolicyFailure(kind) == Fail(PolicyReason(kind))

\* What keeps a URL from being looked up, in the order of the checks.
Refusal(url) ==
    CASE fetch.redirects > MaxRedirects -> "redirects"
      [] fetch.redirects <= MaxRedirects /\ ~url.valid -> "malformed"
      [] fetch.redirects <= MaxRedirects /\ url.valid ->
            IF \/ url.port \notin AllowedPorts
               \/ ~SiteAllowed(url.host)
               \/ ~IsLiteral(url.host) /\ Covered(url.host, LocalDomains)
            THEN "rejected" ELSE "none"

\* A check that one public answer is enough for, and the one of the code: every answer is
\* public and none is denied as a site.
VettedBySome(answer) == \E a \in answer : IsPublic(a) /\ SiteAllowed(<<a>>)
Vetted(answer) == \A a \in answer : IsPublic(a) /\ SiteAllowed(<<a>>)

\* validate_for_connection; a name that does not resolve answers with nothing.
Guard(url) ==
    /\ fetch.at = "checking" /\ fetch.target = url
    /\ \E resolved \in SUBSET Addresses :
          LET answer == IF IsLiteral(url.host) THEN {Head(url.host)} ELSE resolved IN
          /\ fetch' = CASE Refusal(url) # "none" -> PolicyFailure(Refusal(url))
                        [] Refusal(url) = "none" /\ (answer = {} \/ ~Vetted(answer)) ->
                              PolicyFailure("rejected")
                        [] Refusal(url) = "none" /\ answer # {} /\ Vetted(answer) ->
                              [fetch EXCEPT !.at = "sending", !.url = url, !.answer = answer]
          /\ UNCHANGED contacted

StartFetch(url) ==
    /\ fetch.at = "new"
    /\ fetch' = [fetch EXCEPT !.at = "checking", !.target = url]
    /\ UNCHANGED contacted

\* _pinned_request: the socket goes to the first address, whatever the name means by now.
Peer(answer) == Min(answer)

\* The transport fails, or a response of some status has come.
Send ==
    /\ fetch.at = "sending"
    /\ contacted' = Append(contacted, [url |-> fetch.url, answer |-> fetch.answer,
                                       peer |-> Peer(fetch.answer)])
    /\ \/ \E why \in {"timeout", "invalid_response", "network_error"} : fetch' = Fail(why)
       \/ \E status \in {"redirect", "success", "other"} :
             fetch' = [fetch EXCEPT !.at = status, !.open = TRUE]

\* A Location header that is missing or there twice; else the response is closed first.
Redirect ==
    /\ fetch.at = "redirect"
    /\ \/ fetch' = Fail("malformed_redirect")
       \/ \E url \in Urls : fetch' = [fetch EXCEPT !.at = "closing", !.target = url]
    /\ UNCHANGED contacted

\* The status and the headers of _read_success.
Headers ==
    /\ \/ fetch.at = "other" /\ fetch' = Fail("http_status")
       \/ /\ fetch.at = "success"
          /\ \/ \E why \in {"content_type", "invalid_response", "content_too_large"} :
                   fetch' = Fail(why)
             \/ \E encoded \in BOOLEAN :
                   fetch' = [fetch EXCEPT !.at = "reading", !.encoded = encoded]
    /\ UNCHANGED contacted

\* _append_bounded
Keep(f, n) ==
    IF f.body + n > MaxBytes
    THEN [f EXCEPT !.at = "closing", !.why = "content_too_large", !.held = f.body + n]
    ELSE [f EXCEPT !.held = f.body + n, !.body = @ + n]

\* The next piece of the stream, in raw bytes.
ReadPiece ==
    /\ fetch.at = "reading" /\ fetch.pending = 0
    /\ \/ \E size \in 1..PieceBytes :
             fetch' = CASE fetch.raw + size > MaxBytes -> Fail("content_too_large")
                        [] fetch.raw + size <= MaxBytes /\ ~fetch.encoded ->
                              Keep([fetch EXCEPT !.raw = @ + size], size)
                        [] fetch.raw + size <= MaxBytes /\ fetch.encoded ->
                              [fetch EXCEPT !.raw = @ + size, !.pending = size]
       \/ \E why \in {"timeout", "network_error"} : fetch' = Fail(why)
    /\ UNCHANGED contacted

\* _decode_bounded: a little compressed text may stand for a lot, so at most one byte more
\* than what still fits is asked of the decoder.
DecodeLimit == Min({PieceBytes, MaxBytes - fetch.body + 1})

Decode ==
    /\ fetch.at = "reading" /\ fetch.pending > 0
    /\ \/ \E out \in 0..DecodeLimit, rest \in 0..fetch.pending :
             fetch' = IF rest = fetch.pending /\ out = 0 THEN Fail("invalid_response")
                      ELSE Keep([fetch EXCEPT !.pending = rest], out)
       \/ fetch' = Fail("invalid_response")
    /\ UNCHANGED contacted

\* The stream is at its end: a compressed one must be complete, and the text not blank.
EndBody ==
    /\ fetch.at = "reading" /\ fetch.pending = 0
    /\ \/ fetch.encoded /\ fetch' = Fail("invalid_response")
       \/ fetch' = Fail("empty_content")
       \/ fetch.body > 0 /\ fetch' = [fetch EXCEPT !.at = "closing"]
    /\ UNCHANGED contacted

\* The finally of fetch: a close that fails hides no earlier failure and is one itself
\* when there was none.
Close ==
    /\ fetch.at = "closing" /\ fetch.open
    /\ LET closed == [fetch EXCEPT !.open = FALSE] IN
       \/ fetch' = CASE fetch.why = "cancelled" -> [closed EXCEPT !.at = "cancelled"]
                     [] fetch.why \notin {"none", "cancelled"} -> [closed EXCEPT !.at = "failed"]
                     [] fetch.why = "none" /\ fetch.body > 0 -> [closed EXCEPT !.at = "document"]
                     [] fetch.why = "none" /\ fetch.body = 0 ->
                           [closed EXCEPT !.at = "checking", !.redirects = @ + 1]
       \/ /\ fetch.why = "none"
          /\ \E why \in {"timeout", "network_error", "invalid_response"} :
                fetch' = [closed EXCEPT !.at = "failed", !.why = why]
    /\ UNCHANGED contacted

\* The caller is cancelled while it waits: for the resolver, the peer or a piece.
CancelFetch ==
    /\ fetch.at \in {"checking", "sending", "reading"}
    /\ fetch' = [fetch EXCEPT !.at = IF fetch.open THEN "closing" ELSE "cancelled",
                              !.why = "cancelled"]
    /\ UNCHANGED contacted

FetchNext ==
    \/ \E url \in Urls : StartFetch(url) \/ Guard(url)
    \/ Send \/ Redirect \/ Headers \/ ReadPiece \/ Decode \/ EndBody \/ Close \/ CancelFetch

FetchSpec == FetchInit /\ [][FetchNext]_fetchVars

(***************************************************************************)
(* Whatever names, servers and redirects say: every request went to an     *)
(* address of that hop's own answer, all of whose addresses are public and *)
(* none denied, for an allowed site and port and never for a local name;   *)
(* there are at most MaxRedirects requests after the first; no more than   *)
(* one byte beyond the limit is ever held; the document is that of the     *)
(* last request; and a call that is over has no response open.             *)
(***************************************************************************)
FetchIsGuarded ==
    /\ \A i \in DOMAIN contacted :
          LET hop == contacted[i] IN
          /\ hop.peer \in hop.answer
          /\ \A a \in hop.answer : IsPublic(a) /\ SiteAllowed(<<a>>)
          /\ SiteAllowed(hop.url.host) /\ hop.url.port \in AllowedPorts
          /\ IsLiteral(hop.url.host) => hop.answer = {Head(hop.url.host)}
          /\ ~Covered(hop.url.host, LocalDomains)
    /\ Len(contacted) <= MaxRedirects + 1
    /\ fetch.held <= MaxBytes + 1 /\ fetch.raw <= MaxBytes
    /\ fetch.at = "document" => /\ fetch.body \in 1..MaxBytes
                                /\ fetch.why = "none"
                                /\ fetch.url = contacted[Len(contacted)].url
    /\ fetch.at \in Over => ~fetch.open

AccessVars == <<search, fetchVars>>

AccessNext == (SearchNext /\ UNCHANGED fetchVars) \/ (FetchNext /\ UNCHANGED search)

AccessSpec == SearchInit /\ FetchInit /\ [][AccessNext]_AccessVars

(***************************************************************************)
(* What a run may read is decided right whatever search services, servers, *)
(* resolvers and redirects answer, and it is told a failure from an empty  *)
(* result.                                                                 *)
(***************************************************************************)
PagesAreGuarded == SearchIsHonest /\ FetchIsGuarded
=============================================================================

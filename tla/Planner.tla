------------------------------- MODULE Planner ------------------------------
(***************************************************************************)
(* QueryPlanner and the policies on what a run may search and say.  A      *)
(* model drafts a plan as it likes; the draft is screened, routed,         *)
(* replaced by a bounded plan where it may be repaired, and validated      *)
(* against the request and its conversation; what the model answers later  *)
(* is held against the plan.                                               *)
(*                                                                         *)
(* Abstractions: a text is the set of its words; the marks of a request    *)
(* (it names a page, asks for research, is a question, opens like small    *)
(* talk) are given with it, since patterns decide them.                    *)
(***************************************************************************)
EXTENDS Integers, FiniteSets, FiniteSetsExt, SequencesExt

CONSTANTS
    Generic,     \* _SCOPE_GENERIC_TOKENS
    Years, Markers, Controls, Controlled,  \* words of years, of forbidden requests, of
                 \* _CONTROL_ACTIONS and of _CONTROL_TARGETS
    Alike,       \* pairs of words of which one begins with the other
    Expansions,  \* what the acronym of a request may be spelled out as: a function
    PlanRequests, Contexts, Drafts, ScopedAnswers,
    FixedReply, FixedQuestion,  \* the two fixed texts
    MaxChat,     \* _MAX_CONVERSATIONAL_TOKENS
    MaxRetries   \* of the provider

\* Numbers are natural, and texts are finite.
ASSUME PlannerAssumption ==
    /\ MaxChat \in Nat /\ MaxRetries \in Nat
    /\ \A r \in PlanRequests : IsFiniteSet(r.text)
    /\ \A c \in Contexts : IsFiniteSet(c.words)
    /\ \A answer \in ScopedAnswers : \A i \in DOMAIN answer.claims :
          \A text \in ToSet(answer.claims[i].sentences) : IsFiniteSet(text)

VARIABLE planner

Meaningful(text) == text \ Generic
Forbids(text) == text \cap Markers # {}

\* _shares_topic_token
Shared(asked, said, related) ==
    IF related THEN {w \in asked : \E v \in said : v = w \/ <<v, w>> \in Alike \/ <<w, v>> \in Alike}
    ELSE asked \cap said

\* _stays_scoped, and one that asks for shared words only.
StaysScopedByShare(request, candidate, least, strict, related) ==
    \/ request = candidate
    \/ LET asked == Meaningful(request)
           said  == Meaningful(candidate)
           needed == Min({least, Cardinality(asked), Cardinality(said \ Years)})
       IN needed > 0 /\ Cardinality(Shared(asked, said, related)) >= needed
StaysScoped(request, candidate, least, strict, related) ==
    \/ request = candidate
    \/ LET asked == Meaningful(request)
           said  == Meaningful(candidate)
           needed == Min({least, Cardinality(asked), Cardinality(said \ Years)})
       IN /\ needed > 0 /\ Cardinality(Shared(asked, said, related)) >= needed
          /\ strict => said \ asked \subseteq Years

\* is_conversational_request, of the request alone or with its conversation behind it.
Conversational(request, more) == request.chat /\ request.tokens + more <= MaxChat

Scope(request, context) == request.text \cup context.words

(***************************************************************************)
(* Decisions.                                                              *)
(***************************************************************************)
NoOffers == [given |-> FALSE, offer |-> {}, followUps |-> {}]
NoDecision == [category |-> "none", focus |-> {}, plan |-> {}, offers |-> NoOffers]

Decision(category, focus, plan, offers) ==
    [category |-> category, focus |-> focus, plan |-> plan, offers |-> offers]

Texts(d) == {d.focus} \cup d.plan
              \cup (IF d.offers.given THEN {d.offers.offer} \cup d.offers.followUps ELSE {})

\* _request_bounded_company_research_decision: a search takes no text as long as a request
\* may be, and then the decision cannot be built.
Bounded(request) ==
    IF request.long THEN NoDecision ELSE Decision("research", request.text, {request.text}, NoOffers)

\* The shape that PlanningDecision asks for; the budget and the texts of the plan fit.
WellFormed(draft) ==
    /\ draft.fits
    /\ draft.requires <=> draft.plan # {}
    /\ draft.requires <=> draft.category = "research"

Screened(d) == \A text \in Texts(d) : ~Forbids(text)

\* AssistancePolicy.validate, which a plan's offers meet as well.
OffersStayScoped(scope, offers) ==
    offers.given => /\ \A t \in {offers.offer} \cup offers.followUps : ~Forbids(t)
                    /\ StaysScoped(scope, offers.offer, 1, TRUE, FALSE)
                    /\ \A t \in offers.followUps : StaysScoped(scope, t, 2, TRUE, FALSE)

\* validate_planning_decision: small talk is recognised with its conversation.
Approved(request, context, d) ==
    LET scope == Scope(request, context)
        inScope == StaysScoped(scope, d.focus, 1, TRUE, FALSE)
    IN /\ ~Forbids(request.text) /\ ~Forbids(d.focus)
       /\ CASE d.category = "clarification" -> d.focus = FixedQuestion /\ ~d.offers.given
            [] d.category # "clarification" ->
                  /\ d.category = "research" => inScope
                  /\ d.category = "reply" =>
                        \/ Conversational(request, context.tokens) \/ inScope
                        \/ \E a \in DOMAIN Expansions : a \in scope /\ d.focus = Expansions[a]
                  /\ \A t \in d.plan : ~Forbids(t) /\ StaysScoped(scope, t, 2, TRUE, FALSE)
                  /\ OffersStayScoped(scope, d.offers)

(***************************************************************************)
(* plan_with_context, from a draft to the decision; NoDecision stands for  *)
(* an error.                                                               *)
(***************************************************************************)
NamesResearch(request) == request.web \/ request.explicit

AddsNothing(request, d) ==
    d.category = "reply" /\ Meaningful(d.focus) \subseteq Meaningful(request.text)

\* A plan that a draft without search has all the same is screened and dropped.
Decided(request, repair, draft) ==
    LET unused  == ~draft.requires /\ draft.plan # {}
        dropped == IF unused THEN [draft EXCEPT !.plan = {}, !.fits = TRUE] ELSE draft
    IN CASE unused /\ \E text \in draft.plan : Forbids(text) -> NoDecision
         [] ~(unused /\ \E text \in draft.plan : Forbids(text)) /\ WellFormed(dropped) ->
               Decision(dropped.category, dropped.focus, dropped.plan, dropped.offers)
         [] OTHER -> IF repair /\ (draft.category = "research" \/ NamesResearch(request))
                     THEN Bounded(request) ELSE NoDecision

\* What asks for research and a question that is only repeated are searched for.
Routed(request, repair, d) ==
    IF repair /\ \/ d.category # "research" /\ NamesResearch(request)
                 \/ AddsNothing(request, d) /\ request.question /\ ~Conversational(request, 0)
    THEN IF Screened(d) THEN Bounded(request) ELSE NoDecision
    ELSE d

\* Small talk that is only repeated gets the fixed line, and a clarification always does.
Fixed(request, d) ==
    CASE Conversational(request, 0) /\ AddsNothing(request, d) ->
            IF Screened(d) THEN Decision("reply", FixedReply, {}, NoOffers) ELSE NoDecision
      [] d.category = "clarification" ->
            IF Screened(d) THEN Decision("clarification", FixedQuestion, {}, NoOffers) ELSE NoDecision
      [] OTHER -> d

Checked(request, context, repair, d) ==
    CASE Approved(request, context, d) -> d
      [] ~Approved(request, context, d) /\ repair /\ d.category = "research" ->
            IF Approved(request, context, Bounded(request)) THEN Bounded(request) ELSE NoDecision
      [] OTHER -> NoDecision

Then(d, Step(_)) == IF d = NoDecision THEN NoDecision ELSE Step(d)

Planned(request, context, repair, draft) ==
    Then(Then(Then(Decided(request, repair, draft), LAMBDA d : Routed(request, repair, d)),
              LAMBDA d : Fixed(request, d)),
         LAMBDA d : Checked(request, context, repair, d))

(***************************************************************************)
(* AnswerScopePolicy.validate: claims are sequences of sentences.          *)
(***************************************************************************)
Said(claims) == UNION {UNION ToSet(claims[i].sentences) : i \in DOMAIN claims}

Instructs(scope, words) ==
    /\ words \cap Controls # {} /\ words \cap Controlled # {}
    /\ ~((words \cap (Controls \cup Controlled)) \subseteq scope)

Touches(scope, focus, text) ==
    \E of \in {scope, focus} : StaysScoped(of, text, 2, FALSE, TRUE)

AnswerStaysScoped(scope, focus, claims) ==
    /\ StaysScoped(scope, focus, 1, TRUE, FALSE)
    /\ ~Forbids(Said(claims)) /\ ~Instructs(scope, Said(claims))
    /\ \A i \in DOMAIN claims : ~claims[i].positional =>
          /\ Touches(scope, focus, UNION ToSet(claims[i].sentences))
          /\ \A text \in ToSet(claims[i].sentences) :
                Meaningful(text) \ Years # {} => Touches(scope, focus, text)

(***************************************************************************)
(* The steps.                                                              *)
(***************************************************************************)
NoRequest == [text |-> {}, tokens |-> 0, web |-> FALSE, explicit |-> FALSE, question |-> FALSE,
              chat |-> FALSE, long |-> FALSE]
NoDraft == [category |-> "none", requires |-> FALSE, focus |-> {}, plan |-> {}, fits |-> FALSE,
            offers |-> NoOffers]

\* The fields of a draft.
ASSUME DraftAssumption ==
    \A draft \in Drafts : DOMAIN draft = DOMAIN NoDraft /\ IsFiniteSet(draft.focus)

PlannerInit ==
    planner = [at |-> "new", request |-> NoRequest, context |-> [words |-> {}, tokens |-> 0],
               repair |-> FALSE, attempts |-> 0, own |-> TRUE, draft |-> NoDraft,
               decision |-> NoDecision, claims |-> <<>>]

AskPlan(request, context, repair, own) ==
    /\ planner.at = "new"
    /\ planner' = [planner EXCEPT !.at = IF Forbids(request.text) THEN "refused" ELSE "asked",
                                  !.request = request, !.context = context, !.repair = repair,
                                  !.own = own]

Adopt(decision, draft) ==
    planner' = [planner EXCEPT !.at = IF decision = NoDecision THEN "refused" ELSE "planned",
                               !.decision = decision, !.draft = draft]

\* The provider asks again when the transport fails.
TransportFails ==
    /\ planner.at = "asked" /\ planner.own
    /\ planner' = [planner EXCEPT !.attempts = @ + 1,
                                  !.at = IF planner.attempts >= MaxRetries THEN "refused" ELSE @]

\* It does not when the content is no draft; a request that names a page can be repaired.
ContentFails ==
    /\ planner.at = "asked" /\ planner.own
    /\ LET r == planner.request
           bounded == Bounded(r)
       IN Adopt(IF planner.repair /\ r.web /\ Approved(r, planner.context, bounded)
                THEN bounded ELSE NoDecision, NoDraft)

DraftAnswered(draft) ==
    /\ planner.at = "asked" /\ planner.own
    /\ Adopt(Planned(planner.request, planner.context, planner.repair, draft), draft)

\* Another planner than this one may be given to the runner, which validates alone.
Inject(draft) ==
    /\ planner.at = "asked" /\ ~planner.own /\ WellFormed(draft)
    /\ LET d == Decision(draft.category, draft.focus, draft.plan, draft.offers)
       IN Adopt(IF Approved(planner.request, planner.context, d) THEN d ELSE NoDecision, draft)

\* A run without search says what its plan says, and its offers.
Reply ==
    /\ planner.at = "planned" /\ planner.decision.category # "research"
    /\ planner' = [planner EXCEPT
          !.at = IF OffersStayScoped(Scope(planner.request, planner.context), planner.decision.offers)
                 THEN "answered" ELSE "refused"]

AnswerPlan(answer) ==
    /\ planner.at = "planned" /\ planner.decision.category = "research"
    /\ LET scope == Scope(planner.request, planner.context)
           ok    == /\ AnswerStaysScoped(scope, planner.decision.focus, answer.claims)
                    /\ OffersStayScoped(scope, answer.offers)
       IN planner' = [planner EXCEPT !.at = IF ok THEN "answered" ELSE "refused",
                                     !.claims = IF ok THEN answer.claims ELSE @]

PlannerNext ==
    \/ \E r \in PlanRequests, c \in Contexts, repair, own \in BOOLEAN : AskPlan(r, c, repair, own)
    \/ TransportFails \/ ContentFails \/ Reply
    \/ planner.at = "asked" /\ \E draft \in Drafts : DraftAnswered(draft) \/ Inject(draft)
    \/ planner.at = "planned" /\ \E answer \in ScopedAnswers : AnswerPlan(answer)

PlannerSpec == PlannerInit /\ [][PlannerNext]_planner

(***************************************************************************)
(* Whatever the model drafts and however its draft is replaced: what a run *)
(* searches for, offers and is about are words of the request and its      *)
(* conversation, with years at most added; nothing it adopts or says asks  *)
(* for what is forbidden; where drafts are repaired, a request that names  *)
(* a page or asks for research is searched for, and a question is not      *)
(* answered with itself; and of a cited answer every sentence that is      *)
(* about something touches the request, the conversation or the years of   *)
(* the plan, and none gives instructions that were not asked about.        *)
(***************************************************************************)
PlansStayScoped ==
    LET r == planner.request
        d == planner.decision
        scope == Scope(r, planner.context)
    IN /\ planner.at \in {"planned", "answered"} =>
             /\ ~Forbids(r.text) /\ Screened(d)
             /\ d.category = "research" => /\ d.plan # {}
                                           /\ \A t \in {d.focus} \cup d.plan :
                                                  t \ (Years \cup Generic) \subseteq scope
             /\ d.category # "research" => d.plan = {}
             /\ d.offers.given => d.offers.offer \ (Years \cup Generic) \subseteq scope
             /\ planner.own /\ planner.repair => /\ NamesResearch(r) => d.category = "research"
                                                 /\ r.question /\ ~r.chat => ~AddsNothing(r, d)
       /\ planner.at = "answered" =>
             \A i \in DOMAIN planner.claims :
                LET all == UNION ToSet(planner.claims[i].sentences) IN
                /\ ~Forbids(all)
                /\ all \cap Controls # {} /\ all \cap Controlled # {} => all \cap Controls \subseteq scope
                /\ ~planner.claims[i].positional =>
                      \A text \in ToSet(planner.claims[i].sentences) :
                         Meaningful(text) \ Years # {} =>
                            Shared(scope \cup (d.focus \cap Years), text, TRUE) # {}

(***************************************************************************)
(* Small talk is answered from the agent's own words by definition         *)
(* (_validate_generated_policy says so): a reply to it that has a draft    *)
(* without fault and asks for nothing forbidden does not fail the run.     *)
(***************************************************************************)
SmallTalkIsAnswered ==
    planner.at = "refused" /\ planner.own =>
        ~ /\ Conversational(planner.request, 0) /\ ~NamesResearch(planner.request)
          /\ planner.draft.category = "reply" /\ ~planner.draft.offers.given
          /\ planner.draft.fits /\ ~planner.draft.requires /\ planner.draft.plan = {}
          /\ ~Forbids(planner.request.text) /\ ~Forbids(planner.draft.focus)
=============================================================================

----------------------------- MODULE FactMemory -----------------------------
(***************************************************************************)
(* SQLiteSemanticFactRepository: the facts that reviewers approve for      *)
(* later runs of a tenant.                                                 *)
(*                                                                         *)
(* A row keeps the fact twice, as columns to select by and as the payload  *)
(* that is read; a row whose columns and payload differ cannot be read.    *)
(* A review is one transaction.  Reopening reads the fact in one statement *)
(* and writes it back in another, so it may write a fact that is gone.     *)
(*                                                                         *)
(* Abstractions: one tenant; proposed_at, which only bounds a review from  *)
(* below; the evidence, the reviewer and the texts; the limit of a list.   *)
(***************************************************************************)
EXTENDS Integers, FiniteSets

CONSTANTS
    FactIds, ConflictKeys, Claims, Sources, FactSessions,
    LastInstant,    \* last instant a caller may name
    Editors,    \* callers of reopen
    NoFact

ASSUME FactAssumption == LastInstant \in Nat

Instants == 0..LastInstant
FactStates == {"proposed", "approved", "rejected"}

\* A fact; reviewed is the instant of its approval, 0 when it has none.
Facts == [conflict_key : ConflictKeys, source : Sources, session : FactSessions,
          claim : Claims, expires : Instants, state : FactStates, reviewed : Instants]

Columns == [conflict_key : ConflictKeys, source : Sources, session : FactSessions,
            expires : Instants, state : FactStates]

VARIABLES
    facts,     \* table semantic_facts: FactIds -> row
    reopening, \* Editors -> what reopen has read
    reviews    \* history of each conflict key: its last approval, and whether in order

factVars == <<facts, reopening, reviews>>

Rows == [columns : Columns, payload : Facts]

FactTypeOK ==
    /\ facts \in [FactIds -> Rows \cup {NoFact}]
    /\ reopening \in [Editors -> [id : FactIds, fact : Facts] \cup {NoFact}]
    /\ reviews \in [ConflictKeys -> [last : Instants, ordered : BOOLEAN]]

FactInit ==
    /\ facts = [f \in FactIds |-> NoFact]
    /\ reopening = [e \in Editors |-> NoFact]
    /\ reviews = [k \in ConflictKeys |-> [last |-> 0, ordered |-> TRUE]]
-----------------------------------------------------------------------------
KeptFacts == {f \in FactIds : facts[f] # NoFact}

\* _row_values
ColumnsOf(fact) == [c \in DOMAIN fact \ {"claim", "reviewed"} |-> fact[c]]
RowOf(fact) == [columns |-> ColumnsOf(fact), payload |-> fact]

\* _decode_row
Decodes(f) == facts[f].columns = ColumnsOf(facts[f].payload)

\* A fact is in force from its approval until it expires.
InForce(fact, t) == fact.state = "approved" /\ fact.reviewed <= t /\ t < fact.expires

\* A review that looks for rivals that outlive the candidate.
RivalsOutliving(f, t) ==
    {g \in KeptFacts \ {f} :
        /\ facts[g].columns.conflict_key = facts[f].columns.conflict_key
        /\ facts[g].columns.state = "approved"
        /\ facts[g].columns.expires > facts[f].columns.expires}

\* The SELECT of review, before LIMIT 1: approved facts of the key that outlive the review.
Rivals(f, t) ==
    {g \in KeptFacts \ {f} :
        /\ facts[g].columns.conflict_key = facts[f].columns.conflict_key
        /\ facts[g].columns.state = "approved"
        /\ facts[g].columns.expires > t}

\* LIMIT 1 may return any of the rivals, and approval passes it if the claims agree.
Approvable(f, t) ==
    \/ Rivals(f, t) = {}
    \/ \E g \in Rivals(f, t) : Decodes(g) /\ facts[g].payload.claim = facts[f].payload.claim
-----------------------------------------------------------------------------
ProposeFact ==
    \E f \in FactIds \ KeptFacts, k \in ConflictKeys, u \in Sources, s \in FactSessions,
       c \in Claims, e \in Instants \ {0} :
        /\ facts' = [facts EXCEPT ![f] = RowOf([conflict_key |-> k, source |-> u, session |-> s,
                        claim |-> c, expires |-> e, state |-> "proposed", reviewed |-> 0])]
        /\ UNCHANGED <<reopening, reviews>>

Reviewable(f, t) ==
    /\ Decodes(f)
    /\ facts[f].payload.state = "proposed"
    /\ t < facts[f].payload.expires

ApproveFact(f, t) ==
    LET k == facts[f].payload.conflict_key IN
    /\ Reviewable(f, t)
    /\ Approvable(f, t)
    /\ facts' = [facts EXCEPT
                    ![f] = RowOf([facts[f].payload EXCEPT !.state = "approved", !.reviewed = t])]
    /\ reviews' = [reviews EXCEPT ![k] =
                      [last |-> IF t > @.last THEN t ELSE @.last,
                       ordered |-> @.ordered /\ t >= @.last]]
    /\ UNCHANGED reopening

RejectFact(f, t) ==
    /\ Reviewable(f, t)
    /\ facts' = [facts EXCEPT ![f] = RowOf([facts[f].payload EXCEPT !.state = "rejected"])]
    /\ UNCHANGED <<reopening, reviews>>

BeginReopen(e, f) ==
    /\ reopening[e] = NoFact
    /\ Decodes(f) /\ facts[f].payload.state # "proposed"
    /\ reopening' = [reopening EXCEPT ![e] = [id |-> f, fact |-> facts[f].payload]]
    /\ UNCHANGED <<facts, reviews>>

\* UPDATE ... SET state, payload WHERE the state is the one that was read: the other
\* columns stay those of the row, whichever fact it holds by now.
EndReopen(e) ==
    LET f == reopening[e].id
        fact == [reopening[e].fact EXCEPT !.state = "proposed", !.reviewed = 0]
    IN
    /\ reopening[e] # NoFact
    /\ facts' = IF f \in KeptFacts /\ facts[f].columns.state = reopening[e].fact.state
                THEN [facts EXCEPT ![f] = [columns |-> [@.columns EXCEPT !.state = "proposed"],
                                           payload |-> fact]]
                ELSE facts
    /\ reopening' = [reopening EXCEPT ![e] = NoFact]
    /\ UNCHANGED reviews

\* _delete: by fact, source, session or tenant, told by the columns.
DeleteFacts ==
    \E doomed \in ({{f} : f \in KeptFacts} \cup {KeptFacts}
                    \cup {{f \in KeptFacts : facts[f].columns.source = u} : u \in Sources}
                    \cup {{f \in KeptFacts : facts[f].columns.session = s} : s \in FactSessions}) :
        /\ doomed # {}
        /\ facts' = [f \in FactIds |-> IF f \in doomed THEN NoFact ELSE facts[f]]
        /\ UNCHANGED <<reopening, reviews>>

FactNext ==
    \/ ProposeFact
    \/ \E f \in KeptFacts, t \in Instants : ApproveFact(f, t) \/ RejectFact(f, t)
    \/ \E f \in KeptFacts, e \in Editors : BeginReopen(e, f)
    \/ \E e \in Editors : EndReopen(e)
    \/ DeleteFacts

FactSpec == FactInit /\ [][FactNext]_factVars

\* list_active: none when a row of the tenant cannot be read
Readable == \A f \in KeptFacts : Decodes(f)
ActiveFacts(t) ==
    {f \in KeptFacts : facts[f].payload.state = "approved" /\ facts[f].payload.expires > t}
-----------------------------------------------------------------------------
\* As long as the approvals of a conflict key were made in the order of their instants, no
\* two facts of that key with different claims are ever in force at the same instant,
\* whatever was reopened, deleted, proposed again under an old id or left to expire, and
\* although approval compares its candidate with one rival only (SELECT ... LIMIT 1 and
\* _reject_conflict, semantic.py).
NoContradiction ==
    \A f, g \in KeptFacts : LET a == facts[f].payload
                                b == facts[g].payload
                            IN
        (a.conflict_key = b.conflict_key /\ reviews[a.conflict_key].ordered /\ a.claim # b.claim)
            => \A t \in Instants : ~(InForce(a, t) /\ InForce(b, t))

=============================================================================

----------------------------- MODULE SessionPages -----------------------------
(***************************************************************************)
(* SessionService: sessions are created and deleted while a client reads   *)
(* their list page by page.  A page starts behind the last row of the one  *)
(* before, in the order of creation instants and then of names, whether    *)
(* that row is still there or not.                                         *)
(*                                                                         *)
(* A handler reads the clock before it stores its session, so a session    *)
(* may be stored with an instant that others have passed.                  *)
(*                                                                         *)
(* Abstractions: one tenant and one listing; labels; a cursor is the pair  *)
(* that it encodes.                                                        *)
(***************************************************************************)
EXTENDS Integers, Sequences, FiniteSets, FiniteSetsExt

CONSTANTS
    SessionNames,   \* numbers, in the order of the names
    Creators,       \* handlers that create or delete
    PageSizes,      \* what a client may ask for; 1..100 in the code
    CreateAttempts, \* names that a creation tries; 4 in the code
    LastCreation    \* bound of the creation instants

ASSUME SessionAssumption ==
    /\ SessionNames \subseteq Nat /\ PageSizes \subseteq Nat \ {0}
    /\ CreateAttempts \in Nat \ {0} /\ LastCreation \in Nat

VARIABLES
    sessionRows, \* rows <<created_at, session_id>>
    handler,    \* each handler: what it does, and the instant or the name it goes by
    listing,    \* the client: what it holds as its cursor, and the rows it was given
    throughout  \* history: rows since before the listing began

sessionVars == <<sessionRows, handler, listing, throughout>>

FromTheStart == <<>>
Resting == [does |-> "nothing", at |-> 0, left |-> 0]

SessionInit ==
    /\ sessionRows = {}
    /\ handler = [h \in Creators |-> Resting]
    /\ listing = [open |-> FALSE, cursor |-> FromTheStart, given |-> <<>>]
    /\ throughout = {}
-----------------------------------------------------------------------------
Named(id) == {s \in sessionRows : s[2] = id}

\* created_at, session_id
Precedes(r, s) ==
    \/ r[1] < s[1]
    \/ r[1] = s[1] /\ r[2] < s[2]

InOrder(rows) ==
    [n \in 1..Cardinality(rows) |->
        CHOOSE r \in rows : Cardinality({s \in rows : Precedes(s, r)}) = n - 1]

\* Mutant of After: rows of one instant are not told apart.
AfterByInstant(cursor, s) == cursor = FromTheStart \/ cursor[1] < s[1]

After(cursor, s) == cursor = FromTheStart \/ Precedes(cursor, s)

\* SQLiteSessionRepository.list, and the one of Firestore.
Rows(cursor, limit) ==
    LET rows == InOrder({s \in sessionRows : After(cursor, s)})
    IN SubSeq(rows, 1, Min({limit, Len(rows)}))
-----------------------------------------------------------------------------
\* create: the clock is read once, for all attempts.
BeginCreation(h) ==
    /\ handler[h] = Resting
    /\ \E t \in 0..LastCreation :
          handler' = [handler EXCEPT ![h] = [does |-> "create", at |-> t, left |-> CreateAttempts]]
    /\ UNCHANGED <<sessionRows, listing, throughout>>

\* put: a name that is taken, whatever row has it, costs an attempt.
PutSession(h, id) ==
    /\ handler[h].does = "create"
    /\ IF Named(id) = {}
       THEN /\ sessionRows' = sessionRows \cup {<<handler[h].at, id>>}
            /\ handler' = [handler EXCEPT ![h] = Resting]
       ELSE /\ handler' = IF handler[h].left > 1 THEN [handler EXCEPT ![h].left = @ - 1]
                          ELSE [handler EXCEPT ![h] = Resting]
            /\ UNCHANGED sessionRows
    /\ UNCHANGED <<listing, throughout>>

\* delete: the session is looked for first, and may be gone when it is deleted.
BeginDeletion(h, id) ==
    /\ handler[h] = Resting
    /\ Named(id) # {}
    /\ handler' = [handler EXCEPT ![h] = [does |-> "delete", at |-> id, left |-> 0]]
    /\ UNCHANGED <<sessionRows, listing, throughout>>

EndDeletion(h) ==
    /\ handler[h].does = "delete"
    /\ sessionRows' = sessionRows \ Named(handler[h].at)
    /\ throughout' = throughout \ Named(handler[h].at)
    /\ handler' = [handler EXCEPT ![h] = Resting]
    /\ UNCHANGED listing

\* list: one row more than the page shows whether there is another page.
ReadPage(limit) ==
    LET rows == Rows(listing.cursor, limit + 1)
        items == SubSeq(rows, 1, Min({limit, Len(rows)}))
        more == Len(rows) > limit
    IN /\ listing.open \/ listing.given = <<>>
       /\ listing' = [open |-> more,
                      cursor |-> IF more THEN items[Len(items)] ELSE listing.cursor,
                      given |-> listing.given \o items]
       /\ throughout' = IF listing.open THEN throughout ELSE sessionRows
       /\ UNCHANGED <<sessionRows, handler>>

SessionNext ==
    \/ \E h \in Creators :
        \/ BeginCreation(h) \/ EndDeletion(h)
        \/ \E id \in SessionNames : PutSession(h, id) \/ BeginDeletion(h, id)
    \/ \E limit \in PageSizes : ReadPage(limit)

SessionSpec == SessionInit /\ [][SessionNext]_sessionVars
-----------------------------------------------------------------------------
\* However sessions come and go while a client reads the list, and whatever page sizes it
\* asks for: it is given them in order, none twice, and at the end it was given every session
\* that had been there since it began (SessionService.list, SQLiteSessionRepository.list).
ListingIsComplete ==
    /\ \A i, j \in DOMAIN listing.given : i < j => Precedes(listing.given[i], listing.given[j])
    /\ ~listing.open => \/ listing.given = <<>>
                        \/ throughout \subseteq {listing.given[i] : i \in DOMAIN listing.given}
=============================================================================

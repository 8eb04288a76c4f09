---------------------------- MODULE MemoryReader ----------------------------
(***************************************************************************)
(* RepositoryReviewedMemoryReader: what a run reads from the two memories. *)
(*                                                                         *)
(* Facts and procedures are read one after the other, from stores that     *)
(* change in between.  A context with procedures is read twice and is      *)
(* handed to the run only if nothing differs the second time, the count of *)
(* changes of pointers included; a context without procedures is handed    *)
(* over as it is.                                                          *)
(*                                                                         *)
(* Abstractions: one reader, which has one thread; procedures reviewed     *)
(* after the instant of the reading, which are refused like facts are.     *)
(***************************************************************************)
EXTENDS FactMemory, ProcedureMemory

VARIABLES
    reader,   \* the reading under way and what it has read
    together  \* history: facts and procedures as they stood when the facts were reread

readerVars == <<reader, together>>

Steps == {"idle", "listed", "read", "relisted", "returned"}

ListedFacts == SUBSET (FactIds \X Facts)
Selections == SUBSET (Keys \X Versions)

ReaderTypeOK ==
    /\ reader.step \in Steps /\ reader.at \in Instants
    /\ reader.facts \in ListedFacts /\ reader.again \in ListedFacts
    /\ reader.procedures \in Selections /\ reader.revision \in Nat
    /\ together.facts \in ListedFacts /\ together.procedures \in Selections

Idle == [step |-> "idle", at |-> 0, facts |-> {}, again |-> {}, procedures |-> {},
         revision |-> 0]
Nothing == [facts |-> {}, procedures |-> {}]

ReaderInit == reader = Idle /\ together = Nothing
-----------------------------------------------------------------------------
\* list_active of both repositories; the facts come with their identities.
ListOfFacts(t) == {<<f, facts[f].payload>> : f \in ActiveFacts(t)}
ActiveProcedures == Snapshot.procedures

\* _validate_records
ValidRecords(listed, t) ==
    /\ \A i \in listed : i[2].state = "approved" /\ i[2].reviewed <= t /\ t < i[2].expires
    /\ \A i, j \in listed : i[2].conflict_key = j[2].conflict_key => i = j

\* The comparison of _revalidate_active, and one of the values alone.
SameValues(r) == r.facts = r.again /\ r.procedures = ActiveProcedures
SameContext(r) ==
    /\ r.facts = r.again /\ r.procedures = ActiveProcedures
    /\ r.revision = Snapshot.revision

GiveUp == reader' = Idle /\ together' = Nothing

\* read_active: facts first, then procedures and the count of their changes.
ListFacts(t) ==
    /\ reader.step = "idle"
    /\ Readable
    /\ reader' = [Idle EXCEPT !.step = "listed", !.at = t, !.facts = ListOfFacts(t)]
    /\ UNCHANGED together

ReadProcedures ==
    /\ reader.step = "listed"
    /\ IF Snapshot.readable /\ ValidRecords(reader.facts, reader.at)
       THEN /\ reader' = [reader EXCEPT
                            !.step = IF ActiveProcedures = {} THEN "returned" ELSE "read",
                            !.procedures = ActiveProcedures, !.revision = Snapshot.revision]
            /\ UNCHANGED together
       ELSE GiveUp

\* revalidate_active: the same two readings again, and the comparison.
RelistFacts ==
    /\ reader.step = "read"
    /\ IF Readable
       THEN /\ reader' = [reader EXCEPT !.step = "relisted", !.again = ListOfFacts(reader.at)]
            /\ together' = [facts |-> ListOfFacts(reader.at), procedures |-> ActiveProcedures]
       ELSE GiveUp

RereadProcedures ==
    /\ reader.step = "relisted"
    /\ IF Snapshot.readable /\ SameContext(reader)
       THEN reader' = [reader EXCEPT !.step = "returned"] /\ UNCHANGED together
       ELSE GiveUp

Forget == reader.step = "returned" /\ GiveUp

ReaderNext ==
    \/ \E t \in Instants : ListFacts(t)
    \/ ReadProcedures
    \/ RelistFacts
    \/ RereadProcedures
    \/ Forget

memoryVars == <<factVars, procedureVars, readerVars>>

MemoryInit == FactInit /\ ProcedureInit /\ ReaderInit

MemoryNext ==
    \/ FactNext /\ UNCHANGED <<procedureVars, readerVars>>
    \/ SqlProcedureNext /\ UNCHANGED <<factVars, readerVars>>
    \/ ReaderNext /\ UNCHANGED <<factVars, procedureVars>>

MemorySpec == MemoryInit /\ [][MemoryNext]_memoryVars

-----------------------------------------------------------------------------
\* The facts and the active procedures that a run is given together were in the two
\* stores together, at the instant the facts were read for the second time, whatever was
\* reviewed, activated, activated back or deleted between the four readings
\* (_revalidate_active, context.py).
ContextIsASnapshot ==
    (reader.step = "returned" /\ reader.procedures # {}) =>
        /\ reader.facts = together.facts
        /\ reader.procedures = together.procedures
=============================================================================

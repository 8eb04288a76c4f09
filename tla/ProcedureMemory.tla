--------------------------- MODULE ProcedureMemory --------------------------
(***************************************************************************)
(* InMemoryProcedureRepository: numbered versions of a procedure, their    *)
(* review, and the pointer to the active one.                              *)
(*                                                                         *)
(* propose, review and activate hold the lock twice: first to read, then   *)
(* to check that what they read is unchanged and to write.  Between the    *)
(* two, other callers do anything, deletion included.                      *)
(* SQLiteProcedureRepository does the same inside one transaction: the     *)
(* behaviours in which nothing comes between the two halves.               *)
(*                                                                         *)
(* Abstractions: one tenant; what a version says and when it was reviewed  *)
(* are one content; expectations of the caller that fail change nothing.   *)
(***************************************************************************)
EXTENDS Integers, FiniteSets

CONSTANTS
    ProcedureIds, Contents, ProcedureSessions,
    Callers,         \* threads inside the repository
    MaxVersion,      \* the last version number that is valid
    MaxGeneration,   \* bound of the model on proposals
    MaxActivations,  \* bound of the model on changes of pointers
    NoVersion, NoCall

ASSUME ProcedureAssumption ==
    /\ MaxVersion \in Nat /\ MaxGeneration \in Nat /\ MaxActivations \in Nat
    /\ NoVersion \notin Nat

Numbers == 1..MaxVersion
Generations == 1..MaxGeneration
Versions == [content : Contents, session : ProcedureSessions,
             state : {"proposed", "approved", "rejected"}]

\* What a caller has read under the lock before it takes it again.
Calls == [op : {"propose"}, p : ProcedureIds, latest : 0..MaxVersion, row : Versions]
    \cup [op : {"review", "activate"}, p : ProcedureIds, v : Numbers, row : Versions,
          generation : Generations, active : Numbers \cup {NoVersion}]

VARIABLES
    versions,    \* _versions: stored rows by procedure and number
    generations, \* _generations
    generation,  \* _next_generation
    latest,      \* _latest: head of each procedure, 0 when it has none
    active,      \* _active
    revision,    \* _activation_revision
    calls,       \* Callers -> the call they are in
    issued,      \* history: numbers given out since the tenant was deleted
    approvals    \* history: the proposal that the reviewer of a version had read

procedureVars ==
    <<versions, generations, generation, latest, active, revision, calls, issued, approvals>>

Keys == ProcedureIds \X Numbers

ProcedureTypeOK ==
    /\ versions \in [Keys -> Versions \cup {NoVersion}]
    /\ generations \in [Keys -> 0..MaxGeneration]
    /\ generation \in 0..MaxGeneration
    /\ latest \in [ProcedureIds -> 0..MaxVersion]
    /\ active \in [ProcedureIds -> Numbers \cup {NoVersion}]
    /\ revision \in 0..(MaxActivations + Cardinality(ProcedureIds))
    /\ calls \in [Callers -> Calls \cup {NoCall}]
    /\ issued \in [ProcedureIds -> 0..MaxGeneration]
    /\ approvals \in [Keys -> 0..MaxGeneration]

ProcedureInit ==
    /\ versions = [k \in Keys |-> NoVersion]
    /\ generations = [k \in Keys |-> 0]
    /\ generation = 0
    /\ latest = [p \in ProcedureIds |-> 0]
    /\ active = [p \in ProcedureIds |-> NoVersion]
    /\ revision = 0
    /\ calls = [c \in Callers |-> NoCall]
    /\ issued = [p \in ProcedureIds |-> 0]
    /\ approvals = [k \in Keys |-> 0]
-----------------------------------------------------------------------------
StoredKeys == {k \in Keys : versions[k] # NoVersion}
ActiveKeys == {k \in Keys : active[k[1]] = k[2]}

\* The second check of review and activate, and a form of it without the generation.
UnchangedRow(call) == versions[<<call.p, call.v>>] = call.row
UnchangedSince(call) ==
    /\ versions[<<call.p, call.v>>] = call.row
    /\ generations[<<call.p, call.v>>] = call.generation

\* The second check of activate on the pointer.
PointerUnchanged(call) == active[call.p] = call.active

Begin(c, call) ==
    /\ calls[c] = NoCall
    /\ calls' = [calls EXCEPT ![c] = call]
    /\ UNCHANGED <<versions, generations, generation, latest, active, revision, issued, approvals>>

Return(c) == calls' = [calls EXCEPT ![c] = NoCall]

\* The first half of each operation; a caller whose expectation fails leaves here.
BeginPropose(c, p) ==
    /\ latest[p] < MaxVersion
    /\ \E x \in Contents, s \in ProcedureSessions :
        Begin(c, [op |-> "propose", p |-> p, latest |-> latest[p],
                  row |-> [content |-> x, session |-> s, state |-> "proposed"]])

Read(op, k) == [op |-> op, p |-> k[1], v |-> k[2], row |-> versions[k],
                generation |-> generations[k], active |-> active[k[1]]]

BeginReview(c, k) ==
    /\ k \in StoredKeys /\ versions[k].state = "proposed"
    /\ Begin(c, Read("review", k))

BeginActivate(c, k) ==
    /\ k \in StoredKeys /\ versions[k].state = "approved"
    /\ Begin(c, Read("activate", k))

\* A proposal takes the number after the head it has read.
EndPropose(c) ==
    LET call == calls[c]
        k == <<call.p, call.latest + 1>>
    IN
    /\ call # NoCall /\ call.op = "propose"
    /\ Return(c)
    /\ IF latest[call.p] # call.latest
       THEN UNCHANGED <<versions, generations, generation, latest, issued, approvals>>
       ELSE /\ generation < MaxGeneration
            /\ generation' = generation + 1
            /\ versions' = [versions EXCEPT ![k] = call.row]
            /\ generations' = [generations EXCEPT ![k] = generation + 1]
            /\ latest' = [latest EXCEPT ![call.p] = k[2]]
            /\ issued' = [issued EXCEPT ![call.p] = @ + 1]
            /\ approvals' = [approvals EXCEPT ![k] = 0]
    /\ UNCHANGED <<active, revision>>

EndReview(c, decision) ==
    LET call == calls[c]
        k == <<call.p, call.v>>
    IN
    /\ call # NoCall /\ call.op = "review"
    /\ Return(c)
    /\ IF UnchangedSince(call)
       THEN /\ versions' = [versions EXCEPT ![k] = [call.row EXCEPT !.state = decision]]
            /\ approvals' = [approvals EXCEPT ![k] = call.generation]
       ELSE UNCHANGED <<versions, approvals>>
    /\ UNCHANGED <<generations, generation, latest, active, revision, issued>>

EndActivate(c) ==
    LET call == calls[c] IN
    /\ call # NoCall /\ call.op = "activate"
    /\ Return(c)
    /\ IF PointerUnchanged(call) /\ UnchangedSince(call)
       THEN /\ revision < MaxActivations
            /\ active' = [active EXCEPT ![call.p] = call.v]
            /\ revision' = revision + 1
       ELSE UNCHANGED <<active, revision>>
    /\ UNCHANGED <<versions, generations, generation, latest, issued, approvals>>
-----------------------------------------------------------------------------
\* Rows are deleted with the pointers to them, and each pointer counts.
RemoveVersions(doomed) ==
    LET pointers == ActiveKeys \cap doomed IN
    /\ versions' = [k \in Keys |-> IF k \in doomed THEN NoVersion ELSE versions[k]]
    /\ generations' = [k \in Keys |-> IF k \in doomed THEN 0 ELSE generations[k]]
    /\ approvals' = [k \in Keys |-> IF k \in doomed THEN 0 ELSE approvals[k]]
    /\ active' = [p \in ProcedureIds |->
                     IF \E k \in pointers : k[1] = p THEN NoVersion ELSE active[p]]
    /\ revision' = revision + Cardinality(pointers)
    /\ UNCHANGED <<generation, calls>>

\* The heads stay, so that no number comes back.
DeleteVersions(doomed) ==
    /\ doomed # {}
    /\ RemoveVersions(doomed)
    /\ UNCHANGED <<latest, issued>>

DeleteProcedure(p) == DeleteVersions({k \in StoredKeys : k[1] = p})

DeleteProcedureSession(s) == DeleteVersions({k \in StoredKeys : versions[k].session = s})

DeleteProcedureTenant ==
    /\ \E p \in ProcedureIds : latest[p] # 0
    /\ RemoveVersions(StoredKeys)
    /\ latest' = [p \in ProcedureIds |-> 0]
    /\ issued' = [p \in ProcedureIds |-> 0]

ProcedureNext ==
    \/ \E c \in Callers : \/ \E p \in ProcedureIds : BeginPropose(c, p)
                          \/ \E k \in StoredKeys : BeginReview(c, k) \/ BeginActivate(c, k)
                          \/ EndPropose(c)
                          \/ \E decision \in {"approved", "rejected"} : EndReview(c, decision)
                          \/ EndActivate(c)
    \/ \E p \in ProcedureIds : DeleteProcedure(p)
    \/ \E s \in ProcedureSessions : DeleteProcedureSession(s)
    \/ DeleteProcedureTenant

ProcedureSpec == ProcedureInit /\ [][ProcedureNext]_procedureVars
-----------------------------------------------------------------------------
(***************************************************************************)
(* SQLiteProcedureRepository: each operation is one transaction.  It reads *)
(* first all rows, heads and pointers it could meet and fails on one that  *)
(* cannot be right.                                                        *)
(*                                                                         *)
(* A deletion counts as one change of pointers however many it removes;    *)
(* in memory each pointer counts.                                          *)
(***************************************************************************)

\* _latest_version and _validate_all_metadata: no row is above the head of its procedure.
HeadsAreSound == \A k \in StoredKeys : k[2] <= latest[k[1]]

\* _validated_active_pointers
PointersAreSound == \A k \in ActiveKeys : k \in StoredKeys /\ versions[k].state = "approved"

SqlPropose(p) ==
    /\ HeadsAreSound
    /\ latest[p] < MaxVersion
    /\ generation < MaxGeneration
    /\ \E x \in Contents, s \in ProcedureSessions :
        versions' = [versions EXCEPT ![<<p, latest[p] + 1>>] =
                        [content |-> x, session |-> s, state |-> "proposed"]]
    /\ latest' = [latest EXCEPT ![p] = @ + 1]
    /\ generation' = generation + 1
    /\ generations' = [generations EXCEPT ![<<p, latest[p] + 1>>] = generation + 1]
    /\ issued' = [issued EXCEPT ![p] = @ + 1]
    /\ UNCHANGED <<active, revision, calls, approvals>>

SqlReview(k, decision) ==
    /\ HeadsAreSound
    /\ k \in StoredKeys /\ versions[k].state = "proposed"
    /\ versions' = [versions EXCEPT ![k].state = decision]
    /\ approvals' = [approvals EXCEPT ![k] = generations[k]]
    /\ UNCHANGED <<generations, generation, latest, active, revision, calls, issued>>

SqlActivate(k) ==
    /\ HeadsAreSound
    /\ k \in StoredKeys /\ versions[k].state = "approved"
    /\ revision < MaxActivations
    /\ active' = [active EXCEPT ![k[1]] = k[2]]
    /\ revision' = revision + 1
    /\ UNCHANGED <<versions, generations, generation, latest, calls, issued, approvals>>

SqlRemove(doomed) ==
    /\ HeadsAreSound /\ PointersAreSound
    /\ versions' = [k \in Keys |-> IF k \in doomed THEN NoVersion ELSE versions[k]]
    /\ generations' = [k \in Keys |-> IF k \in doomed THEN 0 ELSE generations[k]]
    /\ approvals' = [k \in Keys |-> IF k \in doomed THEN 0 ELSE approvals[k]]
    /\ active' = [p \in ProcedureIds |->
                     IF \E k \in ActiveKeys \cap doomed : k[1] = p THEN NoVersion ELSE active[p]]
    /\ revision' = IF ActiveKeys \cap doomed = {} THEN revision ELSE revision + 1
    /\ UNCHANGED <<generation, calls>>

SqlDeleteSession(s) ==
    LET doomed == {k \in StoredKeys : versions[k].session = s} IN
    doomed # {} /\ SqlRemove(doomed) /\ UNCHANGED <<latest, issued>>

SqlDeleteProcedure(p) ==
    LET doomed == {k \in StoredKeys : k[1] = p} IN
    doomed # {} /\ SqlRemove(doomed) /\ UNCHANGED <<latest, issued>>

\* delete_heads
SqlDeleteTenant ==
    /\ \E p \in ProcedureIds : latest[p] # 0
    /\ SqlRemove(StoredKeys)
    /\ latest' = [p \in ProcedureIds |-> 0]
    /\ issued' = [p \in ProcedureIds |-> 0]

SqlProcedureNext ==
    \/ \E p \in ProcedureIds : SqlPropose(p) \/ SqlDeleteProcedure(p)
    \/ \E k \in StoredKeys : \/ SqlActivate(k)
                             \/ \E decision \in {"approved", "rejected"} : SqlReview(k, decision)
    \/ \E s \in ProcedureSessions : SqlDeleteSession(s)
    \/ SqlDeleteTenant

\* _list_active_snapshot: the pointers, their versions and the count of changes, in one
\* transaction; nothing when a row, a head or a pointer is unsound.
Snapshot == [readable |-> HeadsAreSound /\ PointersAreSound,
             procedures |-> {<<k, versions[k]>> : k \in ActiveKeys}, revision |-> revision]
-----------------------------------------------------------------------------
\* The active version of a procedure is stored and approved, a version was approved or
\* rejected by a reviewer who had read that very proposal and not an earlier one under the
\* same number, and no number is given out twice before the tenant is deleted, in whatever
\* order callers come between the two halves of each other's operations.  The checks of
\* propose, review, activate and of the deletions (procedural.py) together achieve it.
ProceduresAreSound ==
    /\ \A p \in ProcedureIds : active[p] # NoVersion =>
          <<p, active[p]>> \in StoredKeys /\ versions[<<p, active[p]>>].state = "approved"
    /\ \A k \in StoredKeys : versions[k].state # "proposed" => approvals[k] = generations[k]
    /\ \A p \in ProcedureIds : issued[p] = latest[p]
=============================================================================

----------------------------- MODULE Migrations -----------------------------
(***************************************************************************)
(* migrate: how a SQLite file comes to the schema of a release, and what   *)
(* becomes of the memory that the command line put into it before the API  *)
(* owned it, or puts into it between two releases.                         *)
(*                                                                         *)
(* A migration is one transaction of several steps, so everybody else sees *)
(* the file as it was until the transaction commits; the repositories of   *)
(* the command line create their tables one by one, outside of any         *)
(* transaction.  Releases differ in how many migrations they know.         *)
(*                                                                         *)
(* Abstractions: one procedure per tenant; checksums are right; the        *)
(* columns of rows are those that foreign keys and version numbers need.   *)
(***************************************************************************)
EXTENDS Integers, Sequences, FiniteSetsExt

CONSTANTS
    Tenants, TenantSessions, NoSession,
    Releases,         \* what releases there are, by their last migration
    LastNumber        \* bound of the version numbers; 10000 in the code

ASSUME MigrationAssumption == LastNumber \in Nat \ {0} /\ NoSession \notin TenantSessions

\* The tables that each migration makes or makes anew.
Migrations ==
    <<{"core", "api_key_hashes", "run_reflections"}, {"api_key_hashes"}, {"work_items"}, {"quota"},
      {"work_items"}, {"semantic_facts"}, {"procedure_versions", "active_procedures"},
      {"procedure_version_heads"}>>

ASSUME ReleaseAssumption == Releases \subseteq 1..Len(Migrations)

Tables == UNION {Migrations[m] : m \in DOMAIN Migrations}

\* A table is absent, as the command line makes it, somebody else's, or as a migration left it.
Absent == 0
Standalone == -1
Foreign == -2

\* What a file of n migrations holds of a table.
ShapeAfter(table, n) == Max({Absent} \cup {m \in 1..n : table \in Migrations[m]})

\* Files: rows of reflections and facts are <<tenant, session>>.
Files ==
    [ledger : 0..Len(Migrations), shape : [Tables -> {Standalone, Foreign} \cup 0..Len(Migrations)],
     tenants : SUBSET Tenants, sessions : SUBSET (Tenants \X TenantSessions),
     reflections : SUBSET (Tenants \X TenantSessions), facts : SUBSET (Tenants \X TenantSessions),
     versions : [Tenants -> [1..LastNumber -> TenantSessions \cup {NoSession}]],
     active : [Tenants -> 0..LastNumber], heads : [Tenants -> 0..LastNumber]]

VARIABLES
    file,       \* what is committed
    migrating,  \* the transaction of a migration: its release, the file as it sees it, and
                \* how many migrations there were when it began; release 0 when there is none
    opening,    \* how far the procedure repository of the command line is opened
    issued      \* history: the last version number given out since a tenant was erased

migrationVars == <<file, migrating, opening, issued>>

Opened == 4

Memory == {"run_reflections", "semantic_facts", "procedure_versions", "active_procedures",
           "procedure_version_heads"}

\* A new file, or one in which the command line has just opened its memory.
MigrationInit ==
    /\ opening \in {0, Opened}
    /\ file = [ledger |-> 0,
               shape |-> [t \in Tables |->
                             IF opening = Opened /\ t \in Memory THEN Standalone ELSE Absent],
               tenants |-> {}, sessions |-> {}, reflections |-> {}, facts |-> {},
               versions |-> [t \in Tenants |-> [n \in 1..LastNumber |-> NoSession]],
               active |-> [t \in Tenants |-> 0], heads |-> [t \in Tenants |-> 0]]
    /\ migrating = [release |-> 0, file |-> file, from |-> 0]
    /\ issued = [t \in Tenants |-> 0]
-----------------------------------------------------------------------------
\* What may be asked of a file.

Owned(f, table) == f.shape[table] > 0
Usable(f, table) == f.shape[table] \notin {Absent, Foreign}

\* MAX(version)
Newest(f, t) == Max({0} \cup {n \in 1..LastNumber : f.versions[t][n] # NoSession})

VersionRows(f) ==
    {r \in Tenants \X TenantSessions : \E n \in 1..LastNumber : f.versions[r[1]][n] = r[2]}

Adoptable(f, tables) == \A t \in tables : f.shape[t] \in {Absent, Standalone}

\* _validate_legacy_procedure_schema: both tables or neither.
PairAdoptable(f) ==
    /\ Adoptable(f, {"procedure_versions", "active_procedures"})
    /\ f.shape["procedure_versions"] = f.shape["active_procedures"]

\* _validate_legacy_memory_schema
MemoryAdoptable(f) ==
    Adoptable(f, {"run_reflections", "semantic_facts", "procedure_version_heads"}) /\ PairAdoptable(f)

\* Foreign keys of a file, as the tables that it owns declare them.
KeysHold(f) ==
    /\ Owned(f, "run_reflections") => \A r \in f.reflections : r[1] \in f.tenants
    /\ Owned(f, "semantic_facts") => f.facts \subseteq f.sessions
    /\ Owned(f, "procedure_versions") => VersionRows(f) \subseteq f.sessions
    /\ Owned(f, "active_procedures") =>
        \A t \in Tenants : f.active[t] # 0 => f.versions[t][f.active[t]] # NoSession
    /\ Owned(f, "procedure_version_heads") => \A t \in Tenants : f.heads[t] # 0 => t \in f.tenants

\* _validate_physical_schema, for a release.
Current(f, release) ==
    /\ f.ledger = release
    /\ \A t \in Tables : ShapeAfter(t, release) # Absent => f.shape[t] = ShapeAfter(t, release)
    /\ KeysHold(f)
    /\ Owned(f, "procedure_version_heads") => \A t \in Tenants : Newest(f, t) <= f.heads[t]
-----------------------------------------------------------------------------
\* Mutant of Heads: orphans are pruned whatever schema the file comes from.
HeadsWithoutOrphans(f, from) ==
    [t \in Tenants |-> IF t \notin f.tenants THEN Newest(f, t) ELSE Max({f.heads[t], Newest(f, t)})]

\* The eighth migration keeps the numbers that were given out, those of erased versions
\* too; from the seventh on, heads of tenants that are gone are dropped.
Heads(f, from) ==
    [t \in Tenants |->
        IF from >= 7 /\ t \notin f.tenants THEN Newest(f, t) ELSE Max({f.heads[t], Newest(f, t)})]

\* Rows that bring their tenants, and from the sixth migration on their sessions, with them.
Brought(f, m) ==
    CASE m = 1 -> f.reflections
      [] m = 6 -> f.facts
      [] m = 7 -> VersionRows(f)
      [] OTHER -> {}

\* One migration, run in a transaction that began at a file with so many.
Migrated(f, m, from) ==
    LET heads == IF m = 8 THEN Heads(f, from) ELSE f.heads
        rows == Brought(f, m)
    IN [f EXCEPT
            !.ledger = m,
            !.shape = [t \in Tables |-> IF t \in Migrations[m] THEN m ELSE @[t]],
            !.heads = heads,
            !.tenants = @ \cup {r[1] : r \in rows}
                          \cup {t \in Tenants : m = 8 /\ heads[t] # 0},
            !.sessions = IF m = 1 THEN @ ELSE @ \cup rows]

Free == migrating.release = 0

\* migrate, up to the first migration: a ledger that the release does not know, or memory
\* that the command line did not make, is left alone.  The heads came with the eighth
\* migration: no earlier release runs once the command line has made their table.
BeginMigration(release) ==
    /\ Free
    /\ release < 8 => file.shape["procedure_version_heads"] = Absent
    /\ file.ledger <= release
    /\ file.ledger = 0 => MemoryAdoptable(file)
    /\ migrating' = [release |-> release, file |-> file, from |-> file.ledger]
    /\ UNCHANGED <<file, opening, issued>>

\* The next migration.  The sixth copies what columns it knows of a table of facts that
\* it did not check.
RunMigration ==
    LET m == migrating.file.ledger + 1 IN
    /\ m <= migrating.release
    /\ m = 7 => PairAdoptable(migrating.file)
    /\ m = 8 => Adoptable(migrating.file, {"procedure_version_heads"})
    /\ migrating' = [migrating EXCEPT !.file = Migrated(@, m, migrating.from)]
    /\ UNCHANGED <<file, opening, issued>>

CommitMigration ==
    /\ ~Free
    /\ Current(migrating.file, migrating.release)
    /\ file' = migrating.file
    /\ migrating' = [release |-> 0, file |-> file', from |-> 0]
    /\ UNCHANGED <<opening, issued>>

\* A refused migration, a failing statement, or the end of the process.
RollBack ==
    /\ ~Free
    /\ migrating' = [release |-> 0, file |-> file, from |-> 0]
    /\ UNCHANGED <<file, opening, issued>>
-----------------------------------------------------------------------------
\* Other writers wait while a migration holds the file.
Write(f) ==
    /\ Free
    /\ file' = f
    /\ migrating' = [migrating EXCEPT !.file = f]

\* CREATE TABLE IF NOT EXISTS
Made(table) == IF file.shape[table] = Absent THEN [file EXCEPT !.shape[table] = Standalone] ELSE file

\* SQLiteReflectionRepository and SQLiteSemanticFactRepository, as they open.
OpenMemory ==
    /\ \E table \in {"run_reflections", "semantic_facts"} : Write(Made(table))
    /\ UNCHANGED <<opening, issued>>

\* put and propose; the owned tables refuse rows without a tenant or a session.
Remember ==
    /\ \E r \in Tenants \X TenantSessions :
        \/ Usable(file, "run_reflections") /\ Write([file EXCEPT !.reflections = @ \cup {r}])
        \/ Usable(file, "semantic_facts") /\ Write([file EXCEPT !.facts = @ \cup {r}])
    /\ KeysHold(file')
    /\ UNCHANGED <<opening, issued>>

\* SQLiteProcedureRepository, as it opens: three tables, then the heads of the versions.
OpenProcedures ==
    LET table == <<"procedure_versions", "active_procedures", "procedure_version_heads">> IN
    /\ opening < Opened
    /\ IF opening < Len(table)
       THEN Write(Made(table[opening + 1]))
       ELSE /\ \A t \in {"procedure_versions", "active_procedures", "procedure_version_heads"} :
                  Usable(file, t)
            /\ Write([file EXCEPT !.heads = [t \in Tenants |-> Max({@[t], Newest(file, t)})]])
            /\ KeysHold(file')
    /\ opening' = opening + 1
    /\ UNCHANGED issued

\* close, or the end of the process.
CloseProcedures == opening # 0 /\ opening' = 0 /\ UNCHANGED <<file, migrating, issued>>

\* propose
ProposeVersion(t, s) ==
    LET n == file.heads[t] + 1 IN
    /\ opening = Opened
    /\ Newest(file, t) < n /\ n <= LastNumber
    /\ Write([file EXCEPT !.versions[t][n] = s, !.heads[t] = n])
    /\ KeysHold(file')
    /\ issued' = [issued EXCEPT ![t] = Max({@, n})]
    /\ UNCHANGED opening

ActivateVersion(t, n) ==
    /\ opening = Opened
    /\ file.versions[t][n] # NoSession
    /\ Write([file EXCEPT !.active[t] = n])
    /\ UNCHANGED <<opening, issued>>

\* A file without the versions of some sessions, and without the pointers to them.
WithoutVersions(f, rows) ==
    [f EXCEPT !.versions = [t \in Tenants |->
                  [n \in 1..LastNumber |-> IF <<t, @[t][n]>> \in rows THEN NoSession ELSE @[t][n]]],
              !.active = [t \in Tenants |->
                  IF @[t] # 0 /\ <<t, f.versions[t][@[t]]>> \in rows THEN 0 ELSE @[t]]]

\* delete_session and delete_procedure keep the heads, delete_tenant does not.
ForgetProcedures(t) ==
    /\ opening = Opened
    /\ \/ /\ \E s \in TenantSessions : Write(WithoutVersions(file, {<<t, s>>}))
          /\ UNCHANGED issued
       \/ /\ Write(WithoutVersions(file, {t} \X TenantSessions))
          /\ UNCHANGED issued
       \/ /\ Write([WithoutVersions(file, {t} \X TenantSessions) EXCEPT !.heads[t] = 0])
          /\ issued' = [issued EXCEPT ![t] = 0]
    /\ UNCHANGED opening

\* SQLiteTenantRepository.put and the sessions of the API.
AddTenant(t) ==
    /\ file.ledger > 0
    /\ Write([file EXCEPT !.tenants = @ \cup {t}])
    /\ UNCHANGED <<opening, issued>>

AddSession(t, s) ==
    /\ t \in file.tenants
    /\ Write([file EXCEPT !.sessions = @ \cup {<<t, s>>}])
    /\ UNCHANGED <<opening, issued>>

\* What the tables of a file lose with some sessions: those the API owns, by their keys.
WithoutSessions(f, rows) ==
    LET g == [f EXCEPT !.sessions = @ \ rows,
                       !.facts = IF Owned(f, "semantic_facts") THEN @ \ rows ELSE @]
    IN IF Owned(f, "procedure_versions") THEN WithoutVersions(g, rows) ELSE g

\* SQLiteSessionRepository.delete
EndApiSession(t, s) ==
    /\ <<t, s>> \in file.sessions
    /\ Write(WithoutSessions([file EXCEPT !.reflections = @ \ {<<t, s>>}], {<<t, s>>}))
    /\ UNCHANGED <<opening, issued>>

\* SQLiteSessionRepository.delete_memory
ForgetSession(t, s) ==
    /\ file.ledger >= 7
    /\ Write(WithoutVersions([file EXCEPT !.reflections = @ \ {<<t, s>>}, !.facts = @ \ {<<t, s>>}],
                             {<<t, s>>}))
    /\ UNCHANGED <<opening, issued>>

\* SQLiteTenantRepository.delete
DeleteTenant(t) ==
    LET rows == {t} \X TenantSessions
        f == WithoutSessions([file EXCEPT !.reflections = @ \ rows, !.tenants = @ \ {t}], rows)
    IN /\ t \in file.tenants
       /\ Write(IF Owned(file, "procedure_version_heads") THEN [f EXCEPT !.heads[t] = 0] ELSE f)
       /\ issued' = [issued EXCEPT ![t] = 0]
       /\ UNCHANGED opening

\* Another program makes a table under a name that the release does not own yet.
MakeForeign ==
    /\ \E t \in {"run_reflections", "semantic_facts", "procedure_version_heads"} :
        /\ file.shape[t] = Absent
        /\ Write([file EXCEPT !.shape[t] = Foreign])
    /\ UNCHANGED <<opening, issued>>

MigrationNext ==
    \/ \E r \in Releases : BeginMigration(r)
    \/ RunMigration \/ CommitMigration \/ RollBack
    \/ OpenMemory \/ Remember \/ OpenProcedures \/ CloseProcedures \/ MakeForeign
    \/ \E t \in Tenants :
        \/ \E n \in 1..LastNumber : ActivateVersion(t, n)
        \/ ForgetProcedures(t) \/ AddTenant(t) \/ DeleteTenant(t)
        \/ \E s \in TenantSessions :
            ProposeVersion(t, s) \/ AddSession(t, s) \/ EndApiSession(t, s) \/ ForgetSession(t, s)

MigrationSpec == MigrationInit /\ [][MigrationNext]_migrationVars
-----------------------------------------------------------------------------
\* Whatever releases, command lines and other programs did to a file, in whichever order
\* and wherever they stopped: the file is wholly at the schema its ledger names, tables it
\* does not own yet apart; its rows have the owners that its foreign keys ask for, although
\* they may have come before their owners; and no version number of a procedure is ever
\* given out again, though its versions were erased before the API knew of the procedure
\* (migrate and migrations/001 to 008).
FileStaysSound ==
    /\ file \in Files
    /\ \A t \in Tables : ShapeAfter(t, file.ledger) # Absent =>
                            file.shape[t] = ShapeAfter(t, file.ledger)
    /\ KeysHold(file)
    /\ \A t \in Tenants : issued[t] <= file.heads[t]
=============================================================================

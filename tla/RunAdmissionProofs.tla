------------------------ MODULE RunAdmissionProofs -------------------------
(***************************************************************************)
(* Theorems of RunAdmission, for any number of keys, runs, sessions and    *)
(* clients and any quotas.                                                 *)
(*                                                                         *)
(* The inductive invariant adds to the type what the code never states: a  *)
(* run id belongs to one key and one session, wherever it is written down  *)
(* (BelongsOnce), and only one submission made the admission of a run      *)
(* (OneOwner).  Both come from run ids being drawn fresh.                  *)
(***************************************************************************)
EXTENDS RunAdmission, FiniteSetTheorems, TLAPS

\* Somebody remembers the run as the run of this key and session.
Uses(r, k, s) ==
    \/ admissions[k] # NoAdmission /\ admissions[k].run = r /\ admissions[k].session = s
    \/ records[k] # NoRecord /\ records[k].run = r /\ records[k].session = s
    \/ \E c \in Clients : /\ requests[c] # Idle
                          /\ requests[c].run = r
                          /\ requests[c].key = k
                          /\ requests[c].session = s

BelongsOnce ==
    \A r \in RunIds, k, l \in Keys, s, u \in Sessions :
        Uses(r, k, s) /\ Uses(r, l, u) => k = l /\ s = u

RecordsHaveRows == \A k \in Keys : records[k] # NoRecord => rows[records[k].run] # "absent"

OneOwner ==
    \A c, e \in Clients :
        /\ requests[c] # Idle /\ requests[c].created
        /\ requests[e] # Idle /\ requests[e].created
        /\ requests[c].run = requests[e].run
        => c = e

AdmissionInv ==
    TypeOK /\ BelongsOnce /\ RecordsHaveRows /\ OneOwner /\ OwnersAreCharged

-----------------------------------------------------------------------------

LEMMA ReadingsAreTimes == ASSUME TypeOK PROVE Readings \subseteq Time
BY DEF Readings

LEMMA FreshIsUnused ==
    ASSUME TypeOK, RecordsHaveRows, NEW r \in RunIds, Fresh(r), NEW k \in Keys,
           NEW s \in Sessions
    PROVE  ~Uses(r, k, s)
BY DEF Fresh, Uses, RecordsHaveRows, TypeOK

LEMMA InitHolds == Init => AdmissionInv
<1> SUFFICES ASSUME Init PROVE AdmissionInv
    OBVIOUS
<1>1. TypeOK
    BY AdmissionAssumption DEF Init, TypeOK, Time
<1>2. \A k \in Keys : records[k] # NoRecord <=> k \in Legacy
    BY DEF Init
<1>3. BelongsOnce
    BY <1>2 DEF Init, BelongsOnce, Uses
<1>4. RecordsHaveRows
    BY <1>1, <1>2, AdmissionAssumption DEF Init, RecordsHaveRows, TypeOK, Records
<1>5. OneOwner /\ OwnersAreCharged
    BY DEF Init, OneOwner, OwnersAreCharged
<1> QED BY <1>1, <1>3, <1>4, <1>5 DEF AdmissionInv

LEMMA TypeStep == ASSUME TypeOK, Next PROVE TypeOK'
<1>1. ASSUME NEW c \in Clients, NEW k \in Keys, NEW s \in Sessions, AdmitAgain(c, k, s)
      PROVE  TypeOK'
    BY <1>1 DEF AdmitAgain, Proceed, TypeOK, Admissions, Submissions
<1>2. ASSUME NEW c \in Clients, NEW k \in Keys, NEW s \in Sessions, NEW t \in Readings,
             AdmitDurable(c, k, s, t)
      PROVE  TypeOK'
    BY <1>2, ReadingsAreTimes
       DEF AdmitDurable, Proceed, Admission, TypeOK, Admissions, Records, Submissions
<1>3. ASSUME NEW c \in Clients, NEW k \in Keys, NEW s \in Sessions, NEW t \in Readings,
             NEW r \in RunIds, AdmitNew(c, k, s, r, t)
      PROVE  TypeOK'
    BY <1>3, ReadingsAreTimes
       DEF AdmitNew, Proceed, Admission, TypeOK, Admissions, Submissions
<1>4. ASSUME NEW c \in Clients, Create(c) PROVE TypeOK'
    BY <1>4 DEF Create, Done, Fail, TypeOK, Records, Submissions
<1>5. ASSUME NEW c \in Clients, CreateAgain(c) \/ Crash(c) PROVE TypeOK'
    BY <1>5 DEF CreateAgain, Crash, Done, TypeOK
<1>6. ASSUME NEW c \in Clients, CreateFails(c) PROVE TypeOK'
    BY <1>6 DEF CreateFails, Fail, TypeOK, Submissions
<1>7. ASSUME NEW c \in Clients, Release(c) PROVE TypeOK'
    BY <1>7 DEF Release, Done, TypeOK
<1>8. ASSUME NEW r \in RunIds, LeaveQueue(r) PROVE TypeOK'
    BY <1>8 DEF LeaveQueue, TypeOK
<1>9. ASSUME NEW s \in Sessions, EndSession(s) PROVE TypeOK'
    BY <1>9 DEF EndSession, TypeOK
<1>10. CASE Tick
    BY <1>10, AdmissionAssumption DEF Tick, TypeOK, Time
<1> QED BY <1>1, <1>2, <1>3, <1>4, <1>5, <1>6, <1>7, <1>8, <1>9, <1>10 DEF Next, Submit

\* Only an admission of a fresh run makes anybody remember something new.
LEMMA UsesAreKept ==
    ASSUME TypeOK, Next,
           \A c \in Clients, k \in Keys, s \in Sessions, t \in Readings, r \in RunIds :
                ~AdmitNew(c, k, s, r, t),
           NEW r \in RunIds, NEW k \in Keys, NEW s \in Sessions, Uses(r, k, s)'
    PROVE  Uses(r, k, s)
<1>1. ASSUME NEW c \in Clients, NEW l \in Keys, NEW u \in Sessions, AdmitAgain(c, l, u)
      PROVE  Uses(r, k, s)
    BY <1>1 DEF AdmitAgain, Proceed, TypeOK, Uses
<1>2. ASSUME NEW c \in Clients, NEW l \in Keys, NEW u \in Sessions, NEW t \in Readings,
             AdmitDurable(c, l, u, t)
      PROVE  Uses(r, k, s)
    BY <1>2 DEF AdmitDurable, Proceed, Admission, TypeOK, Uses
<1>3. ASSUME NEW c \in Clients, Create(c) PROVE Uses(r, k, s)
    <2>1. requests[c] # Idle /\ requests[c] \in Submissions /\ admissions' = admissions
        BY <1>3 DEF Create, TypeOK
    <2>2. CASE records'[k] # NoRecord /\ records'[k].run = r /\ records'[k].session = s
        <3>1. CASE k = requests[c].key
            BY <1>3, <2>1, <2>2, <3>1 DEF Create, TypeOK, Uses
        <3>2. CASE k # requests[c].key
            BY <1>3, <2>1, <2>2, <3>2 DEF Create, TypeOK, Uses
        <3> QED BY <3>1, <3>2
    <2>3. CASE \E e \in Clients : /\ requests'[e] # Idle
                                 /\ requests'[e].run = r
                                 /\ requests'[e].key = k
                                 /\ requests'[e].session = s
        <3>1. \/ requests' = [requests EXCEPT ![c] = Idle]
              \/ requests' = [requests EXCEPT ![c].step = "releasing"]
            BY <1>3 DEF Create, Done, Fail
        <3>2. \A e \in Clients : requests'[e] # Idle =>
                /\ requests[e] # Idle
                /\ requests'[e].run = requests[e].run
                /\ requests'[e].key = requests[e].key
                /\ requests'[e].session = requests[e].session
            BY <2>1, <3>1 DEF TypeOK, Submissions
        <3> QED BY <2>3, <3>2 DEF Uses
    <2> QED BY <2>1, <2>2, <2>3 DEF Uses
<1>4. ASSUME NEW c \in Clients, CreateAgain(c) \/ Crash(c) PROVE Uses(r, k, s)
    BY <1>4 DEF CreateAgain, Crash, Done, TypeOK, Uses
<1>5. ASSUME NEW c \in Clients, CreateFails(c) PROVE Uses(r, k, s)
    BY <1>5 DEF CreateFails, Fail, TypeOK, Uses
<1>6. ASSUME NEW c \in Clients, Release(c) PROVE Uses(r, k, s)
    BY <1>6 DEF Release, Done, TypeOK, Uses
<1>7. ASSUME NEW q \in RunIds, LeaveQueue(q) PROVE Uses(r, k, s)
    BY <1>7 DEF LeaveQueue, Uses
<1>8. ASSUME NEW u \in Sessions, EndSession(u) PROVE Uses(r, k, s)
    BY <1>8 DEF EndSession, TypeOK, Uses
<1>9. CASE Tick
    BY <1>9 DEF Tick, Uses
<1> QED BY <1>1, <1>2, <1>3, <1>4, <1>5, <1>6, <1>7, <1>8, <1>9 DEF Next, Submit

LEMMA AdmitNewUses ==
    ASSUME TypeOK, NEW c \in Clients, NEW l \in Keys, NEW u \in Sessions,
           NEW q \in RunIds, NEW t \in Readings, AdmitNew(c, l, u, q, t),
           NEW r \in RunIds, NEW k \in Keys, NEW s \in Sessions, Uses(r, k, s)'
    PROVE  Uses(r, k, s) \/ (r = q /\ k = l /\ s = u)
BY DEF AdmitNew, Proceed, Admission, TypeOK, Uses

LEMMA BelongsStep ==
    ASSUME TypeOK, BelongsOnce, RecordsHaveRows, Next PROVE BelongsOnce'
<1> SUFFICES ASSUME NEW r \in RunIds, NEW k \in Keys, NEW l \in Keys,
                    NEW s \in Sessions, NEW u \in Sessions,
                    Uses(r, k, s)', Uses(r, l, u)'
             PROVE  k = l /\ s = u
    BY DEF BelongsOnce
<1>1. ASSUME NEW c \in Clients, NEW kk \in Keys, NEW ss \in Sessions,
             NEW q \in RunIds, NEW t \in Readings, AdmitNew(c, kk, ss, q, t)
      PROVE  k = l /\ s = u
    <2>1. Fresh(q)
        BY <1>1 DEF AdmitNew
    <2>2. ~Uses(q, k, s) /\ ~Uses(q, l, u)
        BY <2>1, FreshIsUnused
    <2>3. /\ Uses(r, k, s) \/ (r = q /\ k = kk /\ s = ss)
          /\ Uses(r, l, u) \/ (r = q /\ l = kk /\ u = ss)
        BY <1>1, AdmitNewUses
    <2> QED BY <2>2, <2>3 DEF BelongsOnce
<1>2. CASE \A c \in Clients, kk \in Keys, ss \in Sessions, t \in Readings, q \in RunIds :
                ~AdmitNew(c, kk, ss, q, t)
    <2>1. Uses(r, k, s) /\ Uses(r, l, u)
        BY <1>2, UsesAreKept
    <2> QED BY <2>1 DEF BelongsOnce
<1> QED BY <1>1, <1>2

LEMMA RowsStep == ASSUME TypeOK, BelongsOnce, RecordsHaveRows, Next PROVE RecordsHaveRows'
<1>1. ASSUME NEW c \in Clients, Create(c) PROVE RecordsHaveRows'
    BY <1>1 DEF Create, TypeOK, RecordsHaveRows, Submissions, Records
<1>2. ASSUME NEW r \in RunIds, LeaveQueue(r) PROVE RecordsHaveRows'
    BY <1>2 DEF LeaveQueue, TypeOK, RecordsHaveRows, Records
<1>3. ASSUME NEW s \in Sessions, EndSession(s) PROVE RecordsHaveRows'
    <2> SUFFICES ASSUME NEW k \in Keys, records'[k] # NoRecord
                 PROVE  rows'[records'[k].run] # "absent"
        BY DEF RecordsHaveRows
    <2> DEFINE gone == {l \in Keys : records[l] # NoRecord /\ records[l].session = s}
    <2>1. k \notin gone /\ records'[k] = records[k] /\ records[k] # NoRecord
        BY <1>3 DEF EndSession
    <2>2. records[k].run \in RunIds /\ records[k].session \in Sessions
        BY <2>1 DEF TypeOK, Records
    <2>3. Uses(records[k].run, k, records[k].session)
        BY <2>1 DEF Uses
    <2>4. ASSUME NEW l \in gone, records[l].run = records[k].run PROVE FALSE
        <3>1. Uses(records[k].run, l, records[l].session) /\ records[l].session \in Sessions
            BY <2>4 DEF Uses, TypeOK, Records
        <3> QED BY <2>1, <2>2, <2>3, <2>4, <3>1 DEF BelongsOnce
    <2>5. rows'[records[k].run] = rows[records[k].run]
        BY <1>3, <2>2, <2>4 DEF EndSession
    <2> QED BY <2>1, <2>5 DEF RecordsHaveRows
<1>4. ASSUME NEW c \in Clients,
             \/ CreateAgain(c) \/ CreateFails(c) \/ Release(c) \/ Crash(c)
             \/ \E k \in Keys, s \in Sessions :
                    \/ AdmitAgain(c, k, s)
                    \/ \E t \in Readings :
                        \/ AdmitDurable(c, k, s, t)
                        \/ \E r \in RunIds : AdmitNew(c, k, s, r, t)
      PROVE  RecordsHaveRows'
    BY <1>4 DEF CreateAgain, CreateFails, Release, Crash, AdmitAgain, AdmitDurable, AdmitNew,
                RecordsHaveRows
<1>5. CASE Tick
    BY <1>5 DEF Tick, RecordsHaveRows
<1> QED BY <1>1, <1>2, <1>3, <1>4, <1>5 DEF Next, Submit

\* The submissions under way after a step, seen from one that made an admission.
LEMMA OwnersStep ==
    ASSUME TypeOK, RecordsHaveRows, OneOwner, OwnersAreCharged, Next
    PROVE  OneOwner' /\ OwnersAreCharged'
<1>1. ASSUME NEW c \in Clients, NEW k \in Keys, NEW s \in Sessions, AdmitAgain(c, k, s)
      PROVE  OneOwner' /\ OwnersAreCharged'
    BY <1>1 DEF AdmitAgain, Proceed, TypeOK, OneOwner, OwnersAreCharged
<1>2. ASSUME NEW c \in Clients, NEW k \in Keys, NEW s \in Sessions, NEW t \in Readings,
             AdmitDurable(c, k, s, t)
      PROVE  OneOwner' /\ OwnersAreCharged'
    BY <1>2 DEF AdmitDurable, Proceed, TypeOK, Submissions, OneOwner, OwnersAreCharged
<1>3. ASSUME NEW c \in Clients, NEW k \in Keys, NEW s \in Sessions, NEW t \in Readings,
             NEW r \in RunIds, AdmitNew(c, k, s, r, t)
      PROVE  OneOwner' /\ OwnersAreCharged'
    <2>1. OneOwner'
        BY <1>3 DEF AdmitNew, Proceed, Fresh, TypeOK, OneOwner
    <2>2. OwnersAreCharged'
        <3> SUFFICES ASSUME NEW e \in Clients, requests'[e] # Idle, requests'[e].created,
                            requests'[e].step = "creating"
                     PROVE  /\ admissions'[requests'[e].key] # NoAdmission
                            /\ admissions'[requests'[e].key].run = requests'[e].run
                            /\ admissions'[requests'[e].key].session = requests'[e].session
                            /\ admissions'[requests'[e].key].charged
            BY DEF OwnersAreCharged
        <3> DEFINE a == Admission(r, s, t, TRUE)
        <3>1. a \in Admissions /\ a # NoAdmission /\ a.run = r /\ a.session = s /\ a.charged
            <4>1. t \in Time
                BY ReadingsAreTimes
            <4>2. a \in Admissions
                BY <4>1 DEF Admission, Admissions
            <4>3. a # NoAdmission
                BY <4>2, AbsenceAssumption
            <4> QED BY <4>2, <4>3 DEF Admission
        <3>2. admissions' = [admissions EXCEPT ![k] = a]
            BY <1>3 DEF AdmitNew
        <3>3. CASE e = c
            <4>1. requests'[e].key = k /\ requests'[e].run = r /\ requests'[e].session = s
                BY <1>3, <3>3 DEF AdmitNew, Proceed, TypeOK
            <4> HIDE DEF a
            <4> QED BY <3>1, <3>2, <4>1 DEF TypeOK
        <3>4. CASE e # c
            <4>1. requests'[e] = requests[e] /\ requests[e] # Idle
                BY <1>3, <3>4 DEF AdmitNew, Proceed, TypeOK
            <4>2. /\ admissions[requests[e].key] # NoAdmission
                  /\ admissions[requests[e].key].run = requests[e].run
                  /\ admissions[requests[e].key].session = requests[e].session
                  /\ admissions[requests[e].key].charged
                BY <4>1 DEF OwnersAreCharged
            <4>3. requests[e].key # k
                BY <1>3, <4>2 DEF AdmitNew
            <4>4. admissions'[requests[e].key] = admissions[requests[e].key]
                BY <1>3, <4>3, <4>1 DEF AdmitNew, TypeOK, Submissions
            <4> QED BY <4>1, <4>2, <4>4
        <3> QED BY <3>3, <3>4
    <2> QED BY <2>1, <2>2
<1>4. ASSUME NEW c \in Clients,
             Create(c) \/ CreateAgain(c) \/ CreateFails(c) \/ Crash(c)
      PROVE  OneOwner' /\ OwnersAreCharged'
    <2>1. admissions' = admissions
        BY <1>4 DEF Create, CreateAgain, CreateFails, Crash
    <2>2. requests[c] # Idle
        BY <1>4 DEF Create, CreateAgain, CreateFails, Crash
    <2>3. \/ requests' = [requests EXCEPT ![c] = Idle]
          \/ requests' = [requests EXCEPT ![c].step = "releasing"]
        BY <1>4 DEF Create, CreateAgain, CreateFails, Crash, Done, Fail
    <2> QED BY <2>1, <2>2, <2>3 DEF TypeOK, Submissions, OneOwner, OwnersAreCharged
<1>5. ASSUME NEW c \in Clients, Release(c) PROVE OneOwner' /\ OwnersAreCharged'
    <2>1. OneOwner'
        BY <1>5 DEF Release, Done, TypeOK, OneOwner
    <2>2. OwnersAreCharged'
        BY <1>5 DEF Release, Done, TypeOK, Submissions, OneOwner, OwnersAreCharged
    <2> QED BY <2>1, <2>2
<1>6. ASSUME UNCHANGED <<admissions, requests>> PROVE OneOwner' /\ OwnersAreCharged'
    BY <1>6 DEF OneOwner, OwnersAreCharged
<1> QED BY <1>1, <1>2, <1>3, <1>4, <1>5, <1>6
        DEF Next, Submit, LeaveQueue, EndSession, Tick

LEMMA InvariantStep == ASSUME AdmissionInv, [Next]_vars PROVE AdmissionInv'
<1>1. CASE Next
    BY <1>1, TypeStep, BelongsStep, RowsStep, OwnersStep DEF AdmissionInv
<1>2. CASE UNCHANGED vars
    BY <1>2 DEF vars, AdmissionInv, TypeOK, BelongsOnce, Uses, RecordsHaveRows, OneOwner,
                OwnersAreCharged
<1> QED BY <1>1, <1>2

-----------------------------------------------------------------------------
\* The strengthened invariant holds in every state.
THEOREM AdmissionInvariance == Spec => []AdmissionInv
BY InitHolds, InvariantStep, PTL DEF Spec

\* Every table and every submission under way keeps its type.
THEOREM AdmissionTypes == Spec => []TypeOK
<1>1. AdmissionInv => TypeOK
    BY DEF AdmissionInv
<1> QED BY <1>1, AdmissionInvariance, PTL

\* release_run never takes the admission of a submission that may still create its run.
THEOREM OwnersStayCharged == Spec => []OwnersAreCharged
<1>1. AdmissionInv => OwnersAreCharged
    BY DEF AdmissionInv
<1> QED BY <1>1, AdmissionInvariance, PTL

\* The charge of a key that has a run is neither refunded nor altered.
THEOREM ChargesStay == Spec => ChargesRemain
<1>1. ASSUME TypeOK, [Next]_vars, NEW k \in Keys,
             admissions[k] # NoAdmission, records[k] # NoRecord
      PROVE  admissions'[k] = admissions[k]
    <2>1. ASSUME NEW c \in Clients, NEW l \in Keys, NEW s \in Sessions, NEW t \in Readings,
                 \/ AdmitDurable(c, l, s, t)
                 \/ \E r \in RunIds : AdmitNew(c, l, s, r, t)
          PROVE  admissions'[k] = admissions[k]
        <3>1. admissions[l] = NoAdmission /\ \E a : admissions' = [admissions EXCEPT ![l] = a]
            BY <2>1 DEF AdmitDurable, AdmitNew
        <3> QED BY <1>1, <3>1 DEF TypeOK
    <2>2. ASSUME NEW c \in Clients, Release(c) PROVE admissions'[k] = admissions[k]
        BY <1>1, <2>2 DEF Release, TypeOK
    <2>3. ASSUME UNCHANGED admissions PROVE admissions'[k] = admissions[k]
        BY <2>3
    <2> QED BY <1>1, <2>1, <2>2, <2>3
            DEF Next, Submit, vars, AdmitAgain, Create, CreateAgain, CreateFails, Crash,
                LeaveQueue, EndSession, Tick
<1>2. TypeOK /\ [Next]_vars =>
        [\A k \in Keys : admissions[k] # NoAdmission /\ records[k] # NoRecord
            => admissions'[k] = admissions[k]]_vars
    BY <1>1
<1> QED BY <1>2, AdmissionTypes, PTL DEF Spec, ChargesRemain

-----------------------------------------------------------------------------
\* The day's budget.

LEMMA UnitsGrow ==
    ASSUME NEW u \in Nat, NEW a \in Nat, NEW b \in Nat, a <= b PROVE u * a <= u * b
<1>1. PICK d \in Nat : b = a + d
    <2>1. b - a \in Nat /\ b = a + (b - a)
        OBVIOUS
    <2> QED BY <2>1
<1>2. u * b = u * a + u * d /\ u * a \in Nat /\ u * d \in Nat
    BY <1>1
<1> QED BY <1>2

LEMMA UnitsOfOneMore ==
    ASSUME NEW u \in Nat, NEW a \in Nat PROVE u * (a + 1) = u * a + u
OBVIOUS

LEMMA OneMoreElement ==
    ASSUME NEW S, NEW x, IsFiniteSet(S)
    PROVE  IsFiniteSet(S \cup {x}) /\ Cardinality(S \cup {x}) <= Cardinality(S) + 1
<1>1. Cardinality(S) \in Nat
    BY FS_CardinalityType
<1>2. IsFiniteSet(S \cup {x}) /\ (Cardinality(S \cup {x}) = IF x \in S THEN Cardinality(S) ELSE Cardinality(S) + 1)
    BY FS_AddElement, Zenon
<1> QED BY <1>1, <1>2

LEMMA UnionAtMost ==
    ASSUME NEW S, NEW T, IsFiniteSet(S), IsFiniteSet(T)
    PROVE  IsFiniteSet(S \cup T) /\ Cardinality(S \cup T) <= Cardinality(S) + Cardinality(T)
<1>1. Cardinality(S) \in Nat /\ Cardinality(T) \in Nat /\ Cardinality(S \cap T) \in Nat
    BY FS_CardinalityType, FS_Intersection
<1>2. /\ IsFiniteSet(S \cup T)
      /\ Cardinality(S \cup T) = Cardinality(S) + Cardinality(T) - Cardinality(S \cap T)
    BY FS_Union
<1> QED BY <1>1, <1>2

LEMMA ChargedIsFinite == \A day : IsFiniteSet(ChargedOn(day)) /\ Cardinality(ChargedOn(day)) \in Nat
BY FS_Subset, FS_CardinalityType, AdmissionAssumption DEF ChargedOn

LEMMA FewerCharged ==
    ASSUME NEW day, DailyBudget, day \in Days, ChargedOn(day)' \subseteq ChargedOn(day)
    PROVE  Used(day)' <= DailyUnits
<1> DEFINE A == ChargedOn(day)
           B == ChargedOn(day)'
<1>1. IsFiniteSet(A) /\ Cardinality(A) \in Nat
    BY ChargedIsFinite
<1>2. IsFiniteSet(B) /\ Cardinality(B) \in Nat /\ Cardinality(B) <= Cardinality(A)
    <2> HIDE DEF A, B
    <2>1. B \in SUBSET A
        BY DEF A, B
    <2> QED BY <1>1, <2>1, FS_Subset, FS_CardinalityType
<1>3. UnitsPerRun * Cardinality(B) <= UnitsPerRun * Cardinality(A)
    <2> HIDE DEF A, B
    <2> QED BY <1>1, <1>2, UnitsGrow, AdmissionAssumption
<1>4. UnitsPerRun * Cardinality(A) <= DailyUnits
    BY DEF DailyBudget, Used
<1>5. Used(day)' = UnitsPerRun * Cardinality(B)
    BY DEF Used
<1> HIDE DEF A, B
<1>6. UnitsPerRun * Cardinality(A) \in Nat /\ UnitsPerRun * Cardinality(B) \in Nat
    BY <1>1, <1>2, AdmissionAssumption
<1> QED BY <1>3, <1>4, <1>5, <1>6, AdmissionAssumption

\* Everything but admit_run of a new key leaves the charges of a day or takes some back.
LEMMA ChargesOfOtherSteps ==
    ASSUME TypeOK, [Next]_vars,
           \A c \in Clients, k \in Keys, s \in Sessions, t \in Readings, r \in RunIds :
                ~AdmitNew(c, k, s, r, t),
           NEW day
    PROVE  ChargedOn(day)' \subseteq ChargedOn(day)
<1>1. ASSUME NEW c \in Clients, NEW k \in Keys, NEW s \in Sessions, NEW t \in Readings,
             AdmitDurable(c, k, s, t)
      PROVE  ChargedOn(day)' \subseteq ChargedOn(day)
    <2>1. ~Admission(records[k].run, s, t, FALSE).charged
        BY DEF Admission
    <2> QED BY <1>1, <2>1 DEF AdmitDurable, TypeOK, ChargedOn
<1>2. ASSUME NEW c \in Clients, Release(c) PROVE ChargedOn(day)' \subseteq ChargedOn(day)
    BY <1>2 DEF Release, TypeOK, ChargedOn
<1>3. ASSUME UNCHANGED admissions PROVE ChargedOn(day)' \subseteq ChargedOn(day)
    BY <1>3 DEF ChargedOn
<1> QED BY <1>1, <1>2, <1>3
        DEF Next, Submit, vars, AdmitAgain, Create, CreateAgain, CreateFails, Crash,
            LeaveQueue, EndSession, Tick

LEMMA ChargesOfAdmitNew ==
    ASSUME TypeOK, NEW c \in Clients, NEW k \in Keys, NEW s \in Sessions,
           NEW r \in RunIds, NEW t \in Readings, AdmitNew(c, k, s, r, t), NEW day
    PROVE  ChargedOn(day)' \subseteq ChargedOn(day) \cup (IF day = DayOf(t) THEN {k} ELSE {})
<1>1. Admission(r, s, t, TRUE).at = t
    BY DEF Admission
<1> QED BY <1>1 DEF AdmitNew, TypeOK, ChargedOn

LEMMA BudgetStep == ASSUME TypeOK, DailyBudget, [Next]_vars PROVE DailyBudget'
<1> SUFFICES ASSUME NEW day \in Days PROVE Used(day)' <= DailyUnits
    BY DEF DailyBudget, Days
<1>1. ASSUME NEW c \in Clients, NEW k \in Keys, NEW s \in Sessions, NEW r \in RunIds,
             NEW t \in Readings, AdmitNew(c, k, s, r, t)
      PROVE  Used(day)' <= DailyUnits
    <2>1. CASE day # DayOf(t)
        <3>1. ChargedOn(day)' \subseteq ChargedOn(day)
            BY <1>1, <2>1, ChargesOfAdmitNew
        <3> QED BY <3>1, FewerCharged
    <2>2. CASE day = DayOf(t)
        <3> DEFINE A == ChargedOn(day)
                   B == ChargedOn(day)'
        <3>1. B \subseteq A \cup {k}
            BY <1>1, <2>2, ChargesOfAdmitNew
        <3>2. IsFiniteSet(A) /\ Cardinality(A) \in Nat
            BY ChargedIsFinite
        <3>3. UnitsPerRun * Cardinality(A) + UnitsPerRun <= DailyUnits
            BY <1>1, <2>2 DEF AdmitNew, Affordable, Used
        <3>4. Used(day)' = UnitsPerRun * Cardinality(B)
            BY DEF Used
        <3> HIDE DEF A, B
        <3>5. IsFiniteSet(A \cup {k}) /\ Cardinality(A \cup {k}) <= Cardinality(A) + 1
            BY <3>2, OneMoreElement
        <3>6. IsFiniteSet(B) /\ Cardinality(B) <= Cardinality(A \cup {k})
            <4>1. B \in SUBSET (A \cup {k})
                BY <3>1
            <4> QED BY <4>1, <3>5, FS_Subset
        <3>7. Cardinality(B) \in Nat /\ Cardinality(B) <= Cardinality(A) + 1
            BY <3>2, <3>5, <3>6, FS_CardinalityType
        <3>8. UnitsPerRun * Cardinality(B) <= UnitsPerRun * (Cardinality(A) + 1)
            BY <3>2, <3>7, UnitsGrow, AdmissionAssumption
        <3>9. UnitsPerRun * (Cardinality(A) + 1) = UnitsPerRun * Cardinality(A) + UnitsPerRun
            BY <3>2, UnitsOfOneMore, AdmissionAssumption
        <3>10. UnitsPerRun * Cardinality(A) \in Nat /\ UnitsPerRun * Cardinality(B) \in Nat
            BY <3>2, <3>7, AdmissionAssumption
        <3> QED BY <3>3, <3>4, <3>8, <3>9, <3>10, AdmissionAssumption
    <2> QED BY <2>1, <2>2
<1>2. CASE \A c \in Clients, k \in Keys, s \in Sessions, t \in Readings, r \in RunIds :
                ~AdmitNew(c, k, s, r, t)
    <2>1. ChargedOn(day)' \subseteq ChargedOn(day)
        BY <1>2, ChargesOfOtherSteps
    <2> QED BY <2>1, FewerCharged
<1> QED BY <1>1, <1>2

\* The work charged to a day never exceeds the day's budget, whatever interleaves.
THEOREM BudgetHolds == Spec => []DailyBudget
<1>1. Init => DailyBudget
    <2> SUFFICES ASSUME Init, NEW day \in Days PROVE Used(day) <= DailyUnits
        BY DEF DailyBudget
    <2>1. ChargedOn(day) = {}
        BY DEF Init, ChargedOn
    <2> QED BY <2>1, FS_EmptySet, AdmissionAssumption DEF Used
<1> QED BY <1>1, BudgetStep, AdmissionTypes, PTL DEF Spec

-----------------------------------------------------------------------------
\* The burst: a key waits with a run in the queue, or with one that is pending.

WaitingInQueue == {k \in Waiting : rows[admissions[k].run] = "queued"}

LEMMA WaitingFitsRoom ==
    ASSUME AdmissionInv, NEW t \in Readings, Room(t)
    PROVE  IsFiniteSet(Waiting) /\ Cardinality(Waiting) < MaxQueued
<1> DEFINE Q == WaitingInQueue
           P == Pending(t)
           f == [k \in Q |-> admissions[k].run]
<1>1. IsFiniteSet(Queued) /\ IsFiniteSet(P) /\ IsFiniteSet(Waiting)
    <2>1. /\ Queued \in SUBSET RunIds /\ P \in SUBSET Keys /\ Waiting \in SUBSET Keys
          /\ IsFiniteSet(RunIds) /\ IsFiniteSet(Keys)
        BY AdmissionAssumption DEF Queued, Pending, Waiting
    <2> HIDE DEF P
    <2> QED BY <2>1, FS_Subset
<1>2. f \in Injection(Q, Queued)
    <2>1. f \in [Q -> Queued]
        BY DEF AdmissionInv, TypeOK, Admissions, WaitingInQueue, Waiting, Queued
    <2>2. ASSUME NEW k \in Q, NEW l \in Q, f[k] = f[l] PROVE k = l
        <3>1. /\ Uses(f[k], k, admissions[k].session) /\ admissions[k].session \in Sessions
              /\ Uses(f[k], l, admissions[l].session) /\ admissions[l].session \in Sessions
              /\ f[k] \in RunIds /\ k \in Keys /\ l \in Keys
            BY <2>2 DEF Uses, AdmissionInv, TypeOK, Admissions, WaitingInQueue, Waiting
        <3> QED BY <3>1 DEF AdmissionInv, BelongsOnce
    <2> QED BY <2>1, <2>2 DEF Injection, IsInjective
<1>3. IsFiniteSet(Q) /\ Cardinality(Q) <= Cardinality(Queued)
    <2> HIDE DEF Q, f
    <2> QED BY <1>1, <1>2, FS_Injection
<1>4. Waiting \subseteq Q \cup P
    <2>1. t <= now /\ t \in Int /\ now \in Int /\ \A k \in Waiting : admissions[k].at \in Int
        BY DEF Readings, AdmissionInv, TypeOK, Admissions, Waiting, Time
    <2> QED BY <2>1, AdmissionAssumption DEF Waiting, WaitingInQueue, Pending
<1>5. Cardinality(Queued) + Cardinality(P) < MaxQueued
    BY DEF Room
<1> HIDE DEF Q, P, f
<1>6. IsFiniteSet(Q \cup P) /\ Cardinality(Q \cup P) <= Cardinality(Q) + Cardinality(P)
    BY <1>1, <1>3, UnionAtMost
<1>7. Cardinality(Waiting) <= Cardinality(Q \cup P)
    BY <1>4, <1>6, FS_Subset
<1> QED BY <1>1, <1>3, <1>5, <1>6, <1>7, FS_CardinalityType, AdmissionAssumption

\* No other step makes a key wait that did not wait before.
LEMMA WaitingOfOtherSteps ==
    ASSUME AdmissionInv, [Next]_vars,
           \A c \in Clients, k \in Keys, s \in Sessions, t \in Readings, r \in RunIds :
                ~AdmitNew(c, k, s, r, t)
    PROVE  Waiting' \subseteq Waiting
<1> USE DEF AdmissionInv
<1>1. ASSUME NEW c \in Clients, NEW k \in Keys, NEW s \in Sessions, NEW t \in Readings,
             AdmitDurable(c, k, s, t)
      PROVE  Waiting' \subseteq Waiting
    <2>1. ~Admission(records[k].run, s, t, FALSE).charged
        BY DEF Admission
    <2> QED BY <1>1, <2>1 DEF AdmitDurable, TypeOK, Waiting
<1>2. ASSUME NEW c \in Clients, Create(c) PROVE Waiting' \subseteq Waiting
    <2> DEFINE d == requests[c]
    <2> SUFFICES ASSUME NEW k \in Waiting' PROVE k \in Waiting
        OBVIOUS
    <2>1. /\ d # Idle /\ d \in Submissions /\ d.session \in sessions /\ d.run \in RunIds
          /\ rows[d.run] = "absent"
          /\ rows' = [rows EXCEPT ![d.run] = "queued"]
          /\ UNCHANGED <<admissions, sessions, now>>
        BY <1>2 DEF Create, TypeOK, Submissions
    <2>2. k \in Keys /\ admissions[k] \in Admissions /\ admissions[k] # NoAdmission
        BY <2>1 DEF Waiting, TypeOK
    <2>3. CASE admissions[k].run = d.run
        <3>1. Uses(d.run, k, admissions[k].session) /\ admissions[k].session \in Sessions
            BY <2>2, <2>3 DEF Uses, Admissions
        <3>2. Uses(d.run, d.key, d.session) /\ d.session \in Sessions /\ d.key \in Keys
            BY <2>1 DEF Uses, Submissions
        <3>3. admissions[k].session = d.session
            BY <2>1, <2>2, <3>1, <3>2 DEF BelongsOnce
        <3> QED BY <2>1, <2>2, <2>3, <3>3 DEF Waiting
    <2>4. CASE admissions[k].run # d.run
        <3>1. rows'[admissions[k].run] = rows[admissions[k].run]
            BY <2>1, <2>2, <2>4 DEF TypeOK, Admissions
        <3> QED BY <2>1, <2>2, <3>1 DEF Waiting
    <2> QED BY <2>3, <2>4
<1>3. ASSUME NEW c \in Clients, Release(c) PROVE Waiting' \subseteq Waiting
    BY <1>3 DEF Release, TypeOK, Waiting
<1>4. ASSUME NEW r \in RunIds, LeaveQueue(r) PROVE Waiting' \subseteq Waiting
    BY <1>4 DEF LeaveQueue, TypeOK, Waiting, Admissions
<1>5. ASSUME NEW s \in Sessions, EndSession(s) PROVE Waiting' \subseteq Waiting
    <2> SUFFICES ASSUME NEW k \in Waiting' PROVE k \in Waiting
        OBVIOUS
    <2> DEFINE r == admissions[k].run
               gone == {l \in Keys : records[l] # NoRecord /\ records[l].session = s}
    <2>1. /\ sessions' = sessions \ {s}
          /\ rows' = [q \in RunIds |-> IF \E l \in gone : records[l].run = q
                                       THEN "absent" ELSE rows[q]]
          /\ UNCHANGED <<admissions, now>>
        BY <1>5 DEF EndSession
    <2>2. k \in Keys /\ admissions[k] \in Admissions /\ admissions[k] # NoAdmission
        BY <2>1 DEF Waiting, TypeOK
    <2>3. CASE \E l \in gone : records[l].run = r
        <3>1. PICK l \in gone : records[l].run = r
            BY <2>3
        <3>2. Uses(r, l, s) /\ l \in Keys
            BY <3>1 DEF Uses
        <3>3. Uses(r, k, admissions[k].session) /\ admissions[k].session \in Sessions
              /\ r \in RunIds
            BY <2>2 DEF Uses, Admissions
        <3>4. admissions[k].session = s
            BY <2>2, <3>2, <3>3 DEF BelongsOnce
        <3>5. rows'[r] = "absent"
            BY <2>1, <2>3, <3>3
        <3> QED BY <2>1, <3>4, <3>5 DEF Waiting
    <2>4. CASE ~\E l \in gone : records[l].run = r
        <3>1. rows'[r] = rows[r]
            BY <2>1, <2>2, <2>4 DEF Admissions
        <3> QED BY <2>1, <2>2, <3>1 DEF Waiting
    <2> QED BY <2>3, <2>4
<1>6. CASE Tick
    <2>1. now' = now + 1 /\ now \in Int /\ UNCHANGED <<admissions, rows, sessions>>
        BY <1>6 DEF Tick, TypeOK, Time
    <2>2. \A k \in Keys : admissions[k] # NoAdmission => admissions[k].at \in Int
        BY DEF TypeOK, Admissions, Time
    <2> QED BY <2>1, <2>2, AdmissionAssumption DEF Waiting
<1>7. ASSUME UNCHANGED <<admissions, rows, sessions, now>> PROVE Waiting' \subseteq Waiting
    BY <1>7 DEF Waiting
<1> QED BY <1>1, <1>2, <1>3, <1>4, <1>5, <1>6, <1>7
        DEF Next, Submit, vars, AdmitAgain, CreateAgain, CreateFails, Crash

LEMMA BurstStep == ASSUME AdmissionInv, BurstFitsQueue, [Next]_vars PROVE BurstFitsQueue'
<1> DEFINE A == Waiting
           B == Waiting'
<1>1. IsFiniteSet(A) /\ Cardinality(A) \in Nat /\ Cardinality(A) <= MaxQueued
    <2>1. A \in SUBSET Keys /\ IsFiniteSet(Keys)
        BY AdmissionAssumption DEF Waiting
    <2>2. IsFiniteSet(A)
        <3> HIDE DEF A
        <3> QED BY <2>1, FS_Subset
    <2> QED BY <2>2, FS_CardinalityType DEF BurstFitsQueue
<1>2. ASSUME NEW c \in Clients, NEW k \in Keys, NEW s \in Sessions, NEW r \in RunIds,
             NEW t \in Readings, AdmitNew(c, k, s, r, t)
      PROVE  Cardinality(B) <= MaxQueued
    <2>1. B \in SUBSET (A \cup {k})
        BY <1>2 DEF AdmitNew, AdmissionInv, TypeOK, Waiting
    <2>2. Cardinality(A) < MaxQueued
        BY <1>2, WaitingFitsRoom DEF AdmitNew
    <2> HIDE DEF A, B
    <2>3. IsFiniteSet(A \cup {k}) /\ Cardinality(A \cup {k}) <= Cardinality(A) + 1
        BY <1>1, OneMoreElement
    <2>4. IsFiniteSet(B) /\ Cardinality(B) <= Cardinality(A \cup {k})
        BY <2>1, <2>3, FS_Subset
    <2>5. Cardinality(B) \in Nat /\ Cardinality(A \cup {k}) \in Nat
        BY <2>3, <2>4, FS_CardinalityType
    <2> QED BY <1>1, <2>2, <2>3, <2>4, <2>5, AdmissionAssumption
<1>3. CASE \A c \in Clients, k \in Keys, s \in Sessions, t \in Readings, r \in RunIds :
                ~AdmitNew(c, k, s, r, t)
    <2>1. B \in SUBSET A
        BY <1>3, WaitingOfOtherSteps
    <2> HIDE DEF A, B
    <2>2. IsFiniteSet(B) /\ Cardinality(B) <= Cardinality(A)
        BY <1>1, <2>1, FS_Subset
    <2>3. Cardinality(B) \in Nat
        BY <2>2, FS_CardinalityType
    <2>4. Cardinality(B) <= MaxQueued
        BY <1>1, <2>2, <2>3, AdmissionAssumption
    <2> QED BY <2>4 DEF B, BurstFitsQueue
<1> QED BY <1>2, <1>3 DEF BurstFitsQueue

\* Within one pending window no burst of submissions overfills the queue.
THEOREM BurstsFit == Spec => []BurstFitsQueue
<1>1. Init => BurstFitsQueue
    <2>1. Init => Waiting = {}
        BY DEF Init, Waiting
    <2> QED BY <2>1, FS_EmptySet, AdmissionAssumption DEF BurstFitsQueue
<1> QED BY <1>1, BurstStep, AdmissionInvariance, PTL DEF Spec
=============================================================================

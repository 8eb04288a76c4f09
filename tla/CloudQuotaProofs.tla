-------------------------- MODULE CloudQuotaProofs --------------------------
(***************************************************************************)
(* Theorems of ApiKeys, CloudQuota and KeyPublication, for any number of   *)
(* keys, replicas, runs and permits, any limits and any clocks.            *)
(*                                                                         *)
(* Each part has an inductive invariant of its own: of the keys, of the    *)
(* permits, of the streams, of the buckets, of the ledger, and of the      *)
(* publication of a secret.  They lean on the types and on the keys only.  *)
(***************************************************************************)
EXTENDS CloudQuota, KeyPublication, FiniteSetTheorems, TLAPS

\* What an administrator has read of a key stays true of it.
ReadingsLast ==
    \A a \in Admins : rotations[a] # NoKey =>
        /\ Stored(rotations[a].old)
        /\ rotations[a].expires = keys[rotations[a].old].expires

OneHeir ==
    \A s, t \in KeyIds :
        Stored(s) /\ Stored(t) /\ keys[s].from # NoKey /\ keys[s].from = keys[t].from => s = t

HeirsFollow ==
    \A s \in KeyIds : Stored(s) /\ keys[s].from # NoKey =>
        /\ Stored(keys[s].from)
        /\ keys[keys[s].from].revoked # Never
        /\ keys[s].created = keys[keys[s].from].revoked
        /\ keys[s].expires = keys[keys[s].from].expires

KeysInv == KeysTypeOK /\ ReadingsLast /\ OneHeir /\ HeirsFollow

BucketsTypeOK == buckets \in [KeyIds -> Buckets \cup {NoGrant}]

\* A bucket was refilled since its first request; what it granted and still holds came in.
BucketsInv ==
    /\ BucketsTypeOK
    /\ \A k \in KeyIds : buckets[k] # NoGrant => buckets[k].since <= buckets[k].refill
    /\ RequestsAreRationed

LedgerTypeOK ==
    /\ admissions \in [IdempotencyKeys -> Admissions \cup {NoGrant}]
    /\ ledger \in [day : Days, units : 0..Budget, pending : SUBSET (IdempotencyKeys \X Times)]
    /\ queued \subseteq created /\ created \subseteq IdempotencyKeys
    /\ submitting \subseteq IdempotencyKeys \X Whose
    /\ overtaken \in BOOLEAN

ChargedOn(day) ==
    {i \in IdempotencyKeys : admissions[i] # NoGrant
                             /\ admissions[i].day = day /\ admissions[i].units = 1}

\* Unless a reading came from the day before, nothing is charged to a day after the ledger's.
ChargesAreDated ==
    ~overtaken => \A day \in Days : ledger.day < day => ChargedOn(day) = {}

LedgerInv ==
    /\ LedgerTypeOK
    /\ \A day \in Days : IsFiniteSet(ChargedOn(day))
    /\ ChargesAreDated
    /\ LedgerIsTheSum

PermitsTypeOK ==
    /\ leases \in [Pools -> SUBSET Leases]
    /\ replicas \in [Replicas -> Holders]

\* Whoever asks for a permit or holds one names itself, and a permit is drawn once.
PermitsAreNamed ==
    \A p \in Replicas :
        /\ replicas[p].at <= clock
        /\ ~At(p, "idle") =>
            /\ replicas[p].owner \in OwnersOf(replicas[p].pool)
            /\ replicas[p].permit \in Permits
            /\ \A q \in Replicas :
                   ~At(q, "idle") /\ replicas[q].permit = replicas[p].permit => q = p

\* A permit that is asked for is in no lease yet.
AskedPermitsAreNew ==
    \A p \in Replicas : At(p, "acquiring") =>
        \A pool \in Pools : \A row \in leases[pool] : row.permit # replicas[p].permit

\* One document for a run, or for a permit of a stream.
DocumentsAreUnique ==
    \A pool \in Pools : \A row, other \in leases[pool] :
        SameDocument(pool, row, other) => row = other

\* As long as the guard is as it was read, no document has appeared since.
FreshReadingsAreComplete ==
    \A p \in Replicas : At(p, "acquiring") /\ replicas[p].fresh =>
        \A row \in leases[replicas[p].pool] : \E seen \in replicas[p].rows :
            SameDocument(replicas[p].pool, row, seen)

HoldersHaveTheirRows ==
    \A p \in Replicas : At(p, "holding") /\ replicas[p].until > clock =>
        \E row \in Held(replicas[p]) : row.expires = replicas[p].until

LeasesFit ==
    \A pool \in Pools :
        IsFiniteSet(leases[pool]) /\ Cardinality(leases[pool]) <= Limit[pool]

PermitsInv ==
    /\ PermitsTypeOK /\ PermitsAreNamed /\ AskedPermitsAreNew /\ DocumentsAreUnique
    /\ FreshReadingsAreComplete /\ HoldersHaveTheirRows /\ LeasesFit

\* A stream's lease ends with its key, and no term starts after the key was revoked.
StreamsInv ==
    \A row \in leases["sse"] :
        /\ row.owner \in KeyIds /\ row.expires <= clock + Term
        /\ Stored(row.owner)
        /\ row.expires < keys[row.owner].expires + Term
        /\ keys[row.owner].revoked # Never => row.expires <= ended[row.owner] + Term

\* While the secret is in our file and not published, a descriptor of the file is held until
\* it was emptied, or failed to be.
SecretIsInHand ==
    /\ call \in {"open", "create", "identify", "write"} => content = "empty"
    /\ call \in {"identify", "write", "confirm", "duplicate", "close"} => held # {}
    /\ call = "scrub" /\ content = "secret" => held # {}
    /\ call \in {"confirm", "duplicate", "close", "store"} => content = "secret"
    /\ call \in {"look", "reserve", "rename", "inspect", "failed"} /\ content = "secret" => spoiled
    /\ stored => call = "over" /\ content = "secret"

PublicationInv == SecretIsInHand /\ intact

-----------------------------------------------------------------------------
\* The keys.

LEMMA KeyTimes ==
    /\ Times \subseteq Int /\ Never \in Int /\ Never \notin Times
    /\ \A t \in Times \cup {Never} : t \in Int /\ 0 <= t /\ t <= Never
    /\ \A at \in Readings : at \in Times
BY KeysAssumption DEF Times, Never, Readings

LEMMA ReadingsAreRecent ==
    ASSUME KeysTypeOK, NEW at \in Readings
    PROVE  at \in Times /\ at \in Int /\ at <= clock /\ clock \in Int
BY KeysAssumption DEF Readings, Times, KeysTypeOK

LEMMA KeysInitHolds == KeysInit => KeysInv
<1> SUFFICES ASSUME KeysInit PROVE KeysInv
    OBVIOUS
<1>1. KeysTypeOK
    BY KeysAssumption DEF KeysInit, KeysTypeOK, Times, Never
<1>2. ReadingsLast /\ OneHeir /\ HeirsFollow
    BY DEF KeysInit, ReadingsLast, OneHeir, HeirsFollow, Stored
<1> QED BY <1>1, <1>2 DEF KeysInv

LEMMA CreateKeepsKeys ==
    ASSUME KeysInv, UNCHANGED clock, NEW k \in KeyIds, NEW at \in Readings,
           NEW expires \in Times \cup {Never}, CreateKey(k, expires, at)
    PROVE  KeysInv'
<1> DEFINE row == [created |-> at, expires |-> expires, revoked |-> Never, from |-> NoKey]
<1>1. row \in KeyRecords /\ row # NoKey
    BY KeyTimes, KeysSentinels DEF KeyRecords
<1>2. /\ keys' = [keys EXCEPT ![k] = row] /\ UNCHANGED <<rotations, ended>> /\ ~Stored(k)
    BY DEF CreateKey, FreshKey
<1>3. KeysTypeOK'
    BY <1>1, <1>2 DEF KeysInv, KeysTypeOK
<1>4. \A s \in KeyIds : Stored(s)' => (s = k /\ keys'[s] = row) \/ (s # k /\ Stored(s) /\ keys'[s] = keys[s])
    BY <1>2 DEF KeysInv, KeysTypeOK, Stored
<1>5. \A s \in KeyIds : Stored(s) => s # k /\ Stored(s)' /\ keys'[s] = keys[s]
    BY <1>2 DEF KeysInv, KeysTypeOK, Stored
<1>6. row.from = NoKey
    OBVIOUS
<1> HIDE DEF row
<1>7. \A a \in Admins : rotations[a] # NoKey => rotations[a].old \in KeyIds
    BY DEF KeysInv, KeysTypeOK, Rotations
<1>8. ReadingsLast'
    BY <1>2, <1>5, <1>7 DEF KeysInv, ReadingsLast
<1>9. OneHeir'
    BY <1>4, <1>6 DEF KeysInv, OneHeir
<1>10. \A s \in KeyIds : Stored(s) => keys[s].from \in KeyIds \cup {NoKey}
    BY DEF KeysInv, KeysTypeOK, KeyRecords, Stored
<1>11. HeirsFollow'
    BY <1>4, <1>5, <1>6, <1>10 DEF KeysInv, HeirsFollow
<1> QED BY <1>3, <1>8, <1>9, <1>11 DEF KeysInv

LEMMA BeginKeepsKeys ==
    ASSUME KeysInv, UNCHANGED clock, NEW a \in Admins, NEW old \in KeyIds, NEW new \in KeyIds,
           NEW at \in Readings, BeginRotation(a, old, new, at)
    PROVE  KeysInv'
<1> DEFINE rotation == [old |-> old, new |-> new, at |-> at, expires |-> keys[old].expires]
<1>1. /\ Stored(old) /\ rotations' = [rotations EXCEPT ![a] = rotation]
      /\ UNCHANGED <<keys, ended>>
    BY DEF BeginRotation, Active
<1>2. rotation \in Rotations
    <2>1. keys[old] \in KeyRecords
        BY <1>1 DEF KeysInv, KeysTypeOK, Stored
    <2> QED BY <2>1, KeyTimes DEF KeyRecords, Rotations
<1>3. KeysTypeOK'
    BY <1>1, <1>2 DEF KeysInv, KeysTypeOK
<1>4. rotation.old = old /\ rotation.expires = keys[old].expires
    OBVIOUS
<1> HIDE DEF rotation
<1>5. ReadingsLast'
    BY <1>1, <1>4 DEF KeysInv, KeysTypeOK, ReadingsLast, Stored
<1>6. OneHeir' /\ HeirsFollow'
    BY <1>1 DEF KeysInv, OneHeir, HeirsFollow, Stored
<1> QED BY <1>3, <1>5, <1>6 DEF KeysInv

LEMMA AbandonKeepsKeys ==
    ASSUME KeysInv, UNCHANGED <<clock, keys, ended>>, NEW a \in Admins,
           rotations' = [rotations EXCEPT ![a] = NoKey]
    PROVE  KeysInv'
<1>1. KeysTypeOK' /\ ReadingsLast'
    BY DEF KeysInv, KeysTypeOK, ReadingsLast, Stored
<1>2. OneHeir' /\ HeirsFollow'
    BY DEF KeysInv, OneHeir, HeirsFollow, Stored
<1> QED BY <1>1, <1>2 DEF KeysInv

\* A key that is not revoked has no heir.
LEMMA ValidHasNoHeir ==
    ASSUME KeysInv, NEW k \in KeyIds, Stored(k), keys[k].revoked = Never
    PROVE  \A s \in KeyIds : Stored(s) => keys[s].from # k
BY KeysAssumption DEF KeysInv, HeirsFollow

LEMMA RevokeKeepsKeys ==
    ASSUME KeysInv, UNCHANGED clock, NEW k \in KeyIds, NEW at \in Readings, RevokeKey(k, at)
    PROVE  KeysInv'
<1>1. /\ Stored(k) /\ keys[k].revoked = Never /\ UNCHANGED rotations
      /\ keys' = [keys EXCEPT ![k].revoked = at]
      /\ ended' = [ended EXCEPT ![k] = clock]
    BY DEF RevokeKey
<1>2. keys[k] \in KeyRecords
    BY <1>1 DEF KeysInv, KeysTypeOK, Stored
<1>3. /\ keys'[k] \in KeyRecords /\ keys'[k] # NoKey
      /\ keys'[k].created = keys[k].created /\ keys'[k].expires = keys[k].expires
      /\ keys'[k].from = keys[k].from /\ keys'[k].revoked = at
    <2>1. keys'[k] = [keys[k] EXCEPT !.revoked = at]
        BY <1>1 DEF KeysInv, KeysTypeOK
    <2>2. keys'[k] \in KeyRecords
        BY <2>1, <1>2, KeyTimes DEF KeyRecords
    <2> QED BY <2>1, <2>2, <1>2, KeysSentinels DEF KeyRecords
<1>4. \A s \in KeyIds : s # k => keys'[s] = keys[s]
    BY <1>1 DEF KeysInv, KeysTypeOK
<1>5. KeysTypeOK'
    BY <1>1, <1>3, <1>4 DEF KeysInv, KeysTypeOK
<1>6. \A s \in KeyIds : Stored(s)' <=> Stored(s)
    BY <1>1, <1>3, <1>4 DEF Stored
<1>7. \A s \in KeyIds : Stored(s) =>
          keys'[s].expires = keys[s].expires /\ keys'[s].from = keys[s].from
          /\ keys'[s].created = keys[s].created
    BY <1>3, <1>4
<1>8. ReadingsLast'
    <2>1. \A b \in Admins : rotations[b] # NoKey => rotations[b].old \in KeyIds
        BY DEF KeysInv, KeysTypeOK, Rotations
    <2> QED BY <1>1, <1>6, <1>7, <2>1 DEF KeysInv, ReadingsLast
<1>9. OneHeir'
    BY <1>6, <1>7 DEF KeysInv, OneHeir
<1>10. \A s \in KeyIds : Stored(s) => keys[s].from \in KeyIds \cup {NoKey} /\ keys[s].from # k
    BY <1>1, ValidHasNoHeir DEF KeysInv, KeysTypeOK, KeyRecords, Stored
<1>11. HeirsFollow'
    BY <1>4, <1>6, <1>7, <1>10 DEF KeysInv, HeirsFollow
<1> QED BY <1>5, <1>8, <1>9, <1>11 DEF KeysInv

\* The facts of a rotation that commits.
LEMMA RotationFacts ==
    ASSUME KeysInv, NEW a \in Admins, rotations[a] # NoKey, Rotatable(rotations[a])
    PROVE  LET rotation == rotations[a]
           IN /\ rotation.old \in KeyIds /\ rotation.new \in KeyIds /\ rotation.old # rotation.new
              /\ rotation.at \in Times /\ rotation.expires = keys[rotation.old].expires
              /\ Stored(rotation.old) /\ ~Stored(rotation.new)
              /\ keys[rotation.old] \in KeyRecords /\ keys[rotation.old].revoked = Never
BY DEF KeysInv, KeysTypeOK, ReadingsLast, Rotatable, Active, Stored, Rotations

LEMMA FinishKeepsKeys ==
    ASSUME KeysInv, UNCHANGED clock, NEW a \in Admins, FinishRotation(a)
    PROVE  KeysInv'
<1> DEFINE rotation == rotations[a]
           old == rotation.old
           new == rotation.new
           row == [created |-> rotation.at, expires |-> rotation.expires,
                   revoked |-> Never, from |-> old]
<1>1. CASE ~Rotatable(rotation)
    BY <1>1, AbandonKeepsKeys DEF FinishRotation
<1>2. CASE Rotatable(rotation)
    <2>1. /\ rotation # NoKey
          /\ keys' = [keys EXCEPT ![new] = row, ![old].revoked = rotation.at]
          /\ ended' = [ended EXCEPT ![old] = clock]
          /\ rotations' = [rotations EXCEPT ![a] = NoKey]
        BY <1>2 DEF FinishRotation
    <2>2. /\ old \in KeyIds /\ new \in KeyIds /\ old # new
          /\ rotation.at \in Times /\ rotation.expires = keys[old].expires
          /\ Stored(old) /\ ~Stored(new)
          /\ keys[old] \in KeyRecords /\ keys[old].revoked = Never
        BY <1>2, <2>1, RotationFacts
    <2>3. /\ row \in KeyRecords /\ row # NoKey /\ row.from = old /\ row.revoked = Never
          /\ row.created = rotation.at /\ row.expires = keys[old].expires
        BY <2>2, KeyTimes, KeysSentinels DEF KeyRecords
    <2> HIDE DEF row
    <2>4. keys'[new] = row /\ keys'[old] = [keys[old] EXCEPT !.revoked = rotation.at]
        BY <2>1, <2>2 DEF KeysInv, KeysTypeOK
    <2>5. \A s \in KeyIds : s # old /\ s # new => keys'[s] = keys[s]
        BY <2>1, <2>2 DEF KeysInv, KeysTypeOK
    <2> HIDE DEF rotation, old, new
    <2>6. /\ keys'[old] \in KeyRecords /\ keys'[old] # NoKey
          /\ keys'[old].created = keys[old].created /\ keys'[old].expires = keys[old].expires
          /\ keys'[old].from = keys[old].from /\ keys'[old].revoked = rotation.at
        <3>1. keys'[old] \in KeyRecords
            BY <2>2, <2>4 DEF KeyRecords
        <3> QED BY <2>2, <2>4, <3>1, KeysSentinels DEF KeyRecords
    <2>7. KeysTypeOK'
        BY <2>1, <2>2, <2>3, <2>4, <2>5, <2>6 DEF KeysInv, KeysTypeOK
    <2>8. \A s \in KeyIds : Stored(s)' <=> Stored(s) \/ s = new
        BY <2>2, <2>3, <2>4, <2>5, <2>6 DEF Stored
    <2>9. \A s \in KeyIds : Stored(s) =>
              keys'[s].expires = keys[s].expires /\ keys'[s].from = keys[s].from
              /\ keys'[s].created = keys[s].created
        BY <2>2, <2>5, <2>6
    <2>10. ReadingsLast'
        <3>1. \A b \in Admins : rotations[b] # NoKey => rotations[b].old \in KeyIds
            BY DEF KeysInv, KeysTypeOK, Rotations
        <3>2. \A b \in Admins : rotations'[b] # NoKey => rotations'[b] = rotations[b]
            BY <2>1 DEF KeysInv, KeysTypeOK
        <3> QED BY <2>8, <2>9, <3>1, <3>2 DEF KeysInv, ReadingsLast
    <2>11. \A s \in KeyIds : Stored(s) => keys[s].from \in KeyIds \cup {NoKey} /\ keys[s].from # old
        BY <2>2, ValidHasNoHeir DEF KeysInv, KeysTypeOK, KeyRecords, Stored
    <2>12. OneHeir'
        BY <2>2, <2>3, <2>4, <2>8, <2>9, <2>11 DEF KeysInv, OneHeir
    <2>13. \A s \in KeyIds : Stored(s) /\ keys[s].from # NoKey =>
               /\ keys[s].from # new /\ keys'[keys[s].from] = keys[keys[s].from]
               /\ Stored(keys[s].from)
        BY <2>2, <2>5, <2>11 DEF KeysInv, HeirsFollow
    <2>14. ASSUME NEW s \in KeyIds, Stored(s)', keys'[s].from # NoKey
           PROVE  /\ keys'[keys'[s].from] # NoKey /\ keys'[keys'[s].from].revoked # Never
                  /\ keys'[s].created = keys'[keys'[s].from].revoked
                  /\ keys'[s].expires = keys'[keys'[s].from].expires
        <3>1. CASE s = new
            <4>1. keys'[s].from = old
                BY <3>1, <2>3, <2>4
            <4> QED BY <3>1, <4>1, <2>2, <2>3, <2>4, <2>6, KeyTimes
        <3>2. CASE s # new
            <4>1. Stored(s) /\ keys[s].from # NoKey /\ keys'[s].from = keys[s].from
                BY <3>2, <2>8, <2>9, <2>14
            <4> QED BY <4>1, <2>8, <2>9, <2>11, <2>13 DEF KeysInv, HeirsFollow, Stored
        <3> QED BY <3>1, <3>2
    <2>15. HeirsFollow'
        BY <2>14 DEF HeirsFollow, Stored
    <2> QED BY <2>7, <2>10, <2>12, <2>15 DEF KeysInv
<1> QED BY <1>1, <1>2

LEMMA OthersKeepKeys ==
    ASSUME KeysInv, UNCHANGED keyVars, clock' \in Times
    PROVE  KeysInv'
<1>1. KeysTypeOK'
    BY DEF KeysInv, KeysTypeOK, keyVars
<1>2. ReadingsLast' /\ OneHeir' /\ HeirsFollow'
    BY DEF KeysInv, ReadingsLast, OneHeir, HeirsFollow, keyVars, Stored
<1> QED BY <1>1, <1>2 DEF KeysInv

LEMMA ManagingKeepsKeys ==
    ASSUME KeysInv, UNCHANGED clock, Managing
    PROVE  KeysInv'
<1>1. CASE \E a \in Admins : Rotating(a)
    <2>1. PICK a \in Admins : Rotating(a)
        BY <1>1
    <2> QED BY <2>1, FinishKeepsKeys, AbandonKeepsKeys, BeginKeepsKeys
            DEF Rotating, AbandonRotation
<1>2. CASE \E k \in KeyIds, at \in Readings :
              \/ RevokeKey(k, at)
              \/ \E expires \in Times \cup {Never} : CreateKey(k, expires, at)
    BY <1>2, RevokeKeepsKeys, CreateKeepsKeys
<1> QED BY <1>1, <1>2 DEF Managing

LEMMA StepKeepsKeys ==
    ASSUME KeysInv, [Next]_vars
    PROVE  KeysInv'
<1>1. clock \in Times
    BY DEF KeysInv, KeysTypeOK
<1>2. CASE Tick
    <2>1. clock' \in Times
        BY <1>1, <1>2, KeysAssumption DEF Tick, Times
    <2> QED BY <1>2, <2>1, OthersKeepKeys DEF Tick
<1>3. CASE KeyChanges
    BY <1>3, ManagingKeepsKeys DEF KeyChanges
<1>4. CASE Requests
    BY <1>1, <1>4, OthersKeepKeys DEF Requests
<1>5. CASE Runs
    BY <1>1, <1>5, OthersKeepKeys DEF Runs
<1>6. CASE \E p \in Replicas : PermitsOf(p)
    BY <1>1, <1>6, OthersKeepKeys DEF PermitsOf
<1>7. CASE UNCHANGED vars
    BY <1>1, <1>7, OthersKeepKeys DEF vars
<1> QED BY <1>2, <1>3, <1>4, <1>5, <1>6, <1>7 DEF Next

\* The inductive invariant of the keys: what a rotation has read lasts, a key has one heir,
\* and an heir starts where the key before it was revoked.
THEOREM KeysInvariance == Spec => []KeysInv
<1>1. Init => KeysInv
    BY KeysInitHolds DEF Init
<1> QED BY <1>1, StepKeepsKeys, PTL DEF Spec

LEMMA HeirsAreLinear == KeysInv => SuccessionIsLinear
<1> SUFFICES ASSUME KeysInv, NEW k \in KeyIds
             PROVE  /\ Cardinality(Successors(k)) <= 1
                    /\ \A s \in Successors(k) :
                        /\ Stored(k) /\ keys[k].revoked # Never
                        /\ keys[s].created = keys[k].revoked
                        /\ keys[s].expires = keys[k].expires
    BY DEF SuccessionIsLinear
<1>1. Successors(k) = {} \/ \E s \in KeyIds : Successors(k) = {s}
    BY KeysAssumption DEF Successors, KeysInv, OneHeir
<1>2. Cardinality(Successors(k)) <= 1
    BY <1>1, FS_EmptySet, FS_Singleton
<1>3. \A s \in Successors(k) :
          Stored(s) /\ s \in KeyIds /\ keys[s].from = k /\ keys[s].from # NoKey
    BY KeysAssumption DEF Successors
<1> QED BY <1>2, <1>3 DEF KeysInv, HeirsFollow

\* Rotations that run at the same time, or while the key is revoked, leave it one successor
\* at most, whatever the number of administrators and however late their clocks (rotate,
\* revoke).
THEOREM SuccessionStaysLinear == Spec => []SuccessionIsLinear
BY KeysInvariance, HeirsAreLinear, PTL

-----------------------------------------------------------------------------
\* The rate of requests.

LEMMA RatesAdd ==
    \A a, b, c \in Int : Rate * (a - c) = Rate * (a - b) + Rate * (b - c)
BY QuotaAssumption

LEMMA RatesCount ==
    \A d \in Nat : Rate * d \in Nat
BY QuotaAssumption

\* One request: the bucket before it, refilled, and charged if that leaves a token.
\* A granted request takes a token, a refused one none; both store the refill.
LEMMA BucketUpdate ==
    ASSUME NEW bucket \in Buckets, NEW t, NEW r, NEW g, NEW next,
           next = [bucket EXCEPT !.tokens = t, !.refill = r, !.granted = g]
    PROVE  next = [tokens |-> t, refill |-> r, granted |-> g, since |-> bucket.since]
BY DEF Buckets

LEMMA GrantedBucket ==
    ASSUME NEW bucket \in Buckets, NEW tokens, NEW at \in Times, tokens >= 1
    PROVE  Charged(bucket, tokens, at) =
               [tokens |-> tokens - 1, refill |-> at, granted |-> bucket.granted + 1,
                since |-> bucket.since]
BY BucketUpdate DEF Charged, Buckets

LEMMA RefusedBucket ==
    ASSUME NEW bucket \in Buckets, NEW tokens, NEW at \in Times, ~(tokens >= 1)
    PROVE  Charged(bucket, tokens, at) =
               [tokens |-> tokens, refill |-> at, granted |-> bucket.granted,
                since |-> bucket.since]
BY DEF Charged, Buckets

LEMMA RequestKeepsRation ==
    ASSUME NEW bucket \in Buckets, NEW at \in Times, bucket.refill <= at,
           bucket.since <= bucket.refill,
           bucket.granted + bucket.tokens <= Burst + Rate * (bucket.refill - bucket.since)
    PROVE  LET next == Charged(bucket, Refilled(bucket, at), at)
           IN /\ next \in Buckets /\ next.since <= next.refill
              /\ next.granted + next.tokens <= Burst + Rate * (next.refill - next.since)
<1> DEFINE tokens == Refilled(bucket, at)
           gain == Rate * (at - bucket.refill)
<1>1. /\ bucket.tokens \in 0..Burst /\ bucket.granted \in Nat /\ Burst \in Nat
      /\ bucket.refill \in Int /\ bucket.since \in Times /\ bucket.since \in Int
      /\ at \in Times /\ at \in Int
    BY KeyTimes, QuotaAssumption DEF Buckets
<1>2. gain \in Nat
    <2>1. at - bucket.refill \in Nat
        BY <1>1
    <2> QED BY <2>1, RatesCount
<1>3. Rate * (at - bucket.since) = gain + Rate * (bucket.refill - bucket.since)
    BY <1>1, RatesAdd
<1>4. Rate * (bucket.refill - bucket.since) \in Nat
    <2>1. bucket.refill - bucket.since \in Nat
        BY <1>1
    <2> QED BY <2>1, RatesCount
<1> HIDE DEF gain
<1>5. tokens \in 0..Burst /\ tokens <= bucket.tokens + gain
    BY <1>1, <1>2 DEF Refilled, AtMost, gain
<1> HIDE DEF tokens
<1> DEFINE next == Charged(bucket, tokens, at)
<1>6. CASE tokens >= 1
    <2>1. /\ next = [tokens |-> tokens - 1, refill |-> at, granted |-> bucket.granted + 1,
                     since |-> bucket.since]
          /\ tokens - 1 \in 0..Burst /\ bucket.granted + 1 \in Nat
        BY <1>1, <1>5, <1>6, GrantedBucket
    <2> HIDE DEF next
    <2>2. /\ next \in Buckets /\ next.since = bucket.since /\ next.refill = at
          /\ next.granted = bucket.granted + 1 /\ next.tokens = tokens - 1
        BY <1>1, <2>1 DEF Buckets
    <2>3. next.granted + next.tokens <= Burst + Rate * (next.refill - next.since)
        BY <2>2, <1>1, <1>2, <1>3, <1>4, <1>5
    <2> QED BY <2>2, <2>3, <1>1 DEF tokens, next
<1>7. CASE ~(tokens >= 1)
    <2>1. next = [tokens |-> tokens, refill |-> at, granted |-> bucket.granted,
                  since |-> bucket.since]
        BY <1>7, RefusedBucket
    <2> HIDE DEF next
    <2>2. /\ next \in Buckets /\ next.since = bucket.since /\ next.refill = at
          /\ next.granted = bucket.granted /\ next.tokens = tokens
        BY <1>1, <1>5, <2>1 DEF Buckets
    <2>3. next.granted + next.tokens <= Burst + Rate * (next.refill - next.since)
        BY <2>2, <1>1, <1>2, <1>3, <1>4, <1>5
    <2> QED BY <2>2, <2>3, <1>1 DEF tokens, next
<1> QED BY <1>6, <1>7

LEMMA AdmitKeepsBuckets ==
    ASSUME BucketsInv, NEW k \in KeyIds, NEW at \in Times, AdmitRequest(k, at)
    PROVE  BucketsInv'
<1> DEFINE first == [tokens |-> Burst, refill |-> at, granted |-> 0, since |-> at]
           bucket == IF buckets[k] = NoGrant THEN first ELSE buckets[k]
           next == Charged(bucket, Refilled(bucket, at), at)
<1>1. bucket.refill <= at /\ buckets' = [buckets EXCEPT ![k] = next]
    BY KeyTimes DEF AdmitRequest
<1>2. /\ bucket \in Buckets /\ bucket.since <= bucket.refill
      /\ bucket.granted + bucket.tokens <= Burst + Rate * (bucket.refill - bucket.since)
    <2>1. CASE buckets[k] = NoGrant
        <3>1. first \in Buckets
            BY QuotaAssumption DEF Buckets
        <3>2. Rate * (at - at) = 0 /\ at \in Int
            BY KeyTimes, QuotaAssumption
        <3> QED BY <2>1, <3>1, <3>2, QuotaAssumption
    <2>2. CASE buckets[k] # NoGrant
        BY <2>2 DEF BucketsInv, BucketsTypeOK, RequestsAreRationed
    <2> QED BY <2>1, <2>2
<1> HIDE DEF bucket
<1>3. /\ next \in Buckets /\ next.since <= next.refill
      /\ next.granted + next.tokens <= Burst + Rate * (next.refill - next.since)
    BY <1>1, <1>2, RequestKeepsRation
<1> HIDE DEF next
<1> QED BY <1>1, <1>3 DEF BucketsInv, BucketsTypeOK, RequestsAreRationed

LEMMA StepKeepsBuckets ==
    ASSUME BucketsInv, [Next]_vars
    PROVE  BucketsInv'
<1>1. CASE Requests
    BY <1>1, AdmitKeepsBuckets, KeyTimes DEF Requests
<1>2. ASSUME UNCHANGED buckets PROVE BucketsInv'
    BY <1>2 DEF BucketsInv, BucketsTypeOK, RequestsAreRationed
<1> QED BY <1>1, <1>2 DEF Next, Tick, KeyChanges, Runs, PermitsOf, vars

\* The inductive invariant of the buckets.
THEOREM BucketsInvariance == Spec => []BucketsInv
<1>1. Init => BucketsInv
    BY DEF Init, BucketsInv, BucketsTypeOK, RequestsAreRationed
<1> QED BY <1>1, StepKeepsBuckets, PTL DEF Spec

\* Over any stretch of time a key gets a burst and the rate of that time, for any rate and
\* burst and however late the readings are (admit_request).
THEOREM RateIsKept == Spec => []RequestsAreRationed
<1>1. BucketsInv => RequestsAreRationed
    BY DEF BucketsInv
<1> QED BY <1>1, BucketsInvariance, PTL

-----------------------------------------------------------------------------
\* The daily ledger.

LEMMA ReadingsHaveDays == 0 \in Days /\ \A at \in Times : DayOf(at) \in Days
<1> SUFFICES ASSUME NEW at \in Times PROVE 0 \in Days /\ DayOf(at) \in Days
    BY KeysAssumption DEF Times
<1>1. at \in Nat /\ at <= MaxTime /\ MaxTime \in Nat
    BY KeysAssumption DEF Times
<1>2. DayLength \in Nat /\ DayLength > 0
    <2>1. DayLength \in Nat \ {0}
        BY QuotaAssumption, Zenon
    <2> QED BY <2>1
<1>3. /\ at \div DayLength \in Int /\ MaxTime \div DayLength \in Int
      /\ 0 <= at \div DayLength /\ at \div DayLength <= MaxTime \div DayLength
    BY <1>1, <1>2
<1> QED BY <1>3 DEF DayOf, Days

LEMMA ChargesAreCounted ==
    \A day : /\ Charges(day) = Cardinality(ChargedOn(day))
             /\ Charges(day)' = Cardinality(ChargedOn(day)')
BY DEF Charges, ChargedOn

LEMMA AdmissionFacts ==
    ASSUME LedgerTypeOK, NEW i \in IdempotencyKeys, admissions[i] # NoGrant
    PROVE  /\ admissions[i].day \in Days /\ admissions[i].units \in {0, 1}
           /\ \A day : i \in ChargedOn(day)
                           <=> day = admissions[i].day /\ admissions[i].units = 1
BY DEF LedgerTypeOK, Admissions, ChargedOn

LEMMA DaysAreIntegers == Days \subseteq Int
BY DEF Days

\* A step that charges nobody and leaves the ledger alone.
LEMMA SameCharges ==
    ASSUME LedgerInv, LedgerTypeOK', UNCHANGED <<ledger, overtaken>>,
           \A day \in Days : ChargedOn(day)' = ChargedOn(day)
    PROVE  LedgerInv'
<1>1. ledger.day \in Days
    BY DEF LedgerInv, LedgerTypeOK
<1>2. \A day \in Days : Charges(day)' = Charges(day)
    BY ChargesAreCounted
<1> QED BY <1>1, <1>2 DEF LedgerInv, ChargesAreDated, LedgerIsTheSum

LEMMA KnownKeepsLedger ==
    ASSUME LedgerInv, NEW i \in IdempotencyKeys, NEW at \in Times, AdmitKnown(i, at)
    PROVE  LedgerInv'
<1>1. [day |-> DayOf(at), units |-> 0] \in Admissions
    BY ReadingsHaveDays DEF Admissions
<1>2. LedgerTypeOK'
    BY <1>1 DEF AdmitKnown, LedgerInv, LedgerTypeOK, Whose
<1>3. CASE admissions[i] # NoGrant
    <2>1. admissions' = admissions
        BY <1>3 DEF AdmitKnown, LedgerInv, LedgerTypeOK
    <2> QED BY <1>2, <2>1, SameCharges DEF AdmitKnown, ChargedOn
<1>4. CASE admissions[i] = NoGrant
    <2>1. /\ admissions'[i].units = 0
          /\ \A l \in IdempotencyKeys : l # i => admissions'[l] = admissions[l]
        BY <1>4 DEF AdmitKnown, LedgerInv, LedgerTypeOK
    <2>2. \A day \in Days : ChargedOn(day)' = ChargedOn(day)
        BY <1>4, <2>1 DEF ChargedOn
    <2> QED BY <1>2, <2>2, SameCharges DEF AdmitKnown
<1> QED BY <1>3, <1>4

LEMMA NewKeepsLedger ==
    ASSUME LedgerInv, NEW i \in IdempotencyKeys, NEW at \in Times, AdmitNew(i, at)
    PROVE  LedgerInv'
<1> DEFINE today == DayOf(at)
           grant == [day |-> today, units |-> 1]
<1>1. /\ admissions[i] = NoGrant /\ UsedOn(today) + 1 <= Budget
      /\ admissions' = [admissions EXCEPT ![i] = grant]
      /\ ledger' = [day |-> today, units |-> UsedOn(today) + 1,
                    pending |-> Pending(at) \cup {<<i, at>>}]
      /\ submitting' = submitting \cup {<<i, "owner">>}
      /\ overtaken' = (overtaken \/ today < ledger.day)
      /\ UNCHANGED <<created, queued>>
    BY DEF AdmitNew
<1>2. today \in Days /\ today \in Int /\ ledger.day \in Days /\ ledger.day \in Int
    BY ReadingsHaveDays, DaysAreIntegers DEF LedgerInv, LedgerTypeOK
<1>3. grant \in Admissions /\ grant # NoGrant /\ grant.day = today /\ grant.units = 1
    <2>1. grant \in Admissions
        BY <1>2 DEF Admissions
    <2>2. today \in Nat
        BY <1>2 DEF Days
    <2> QED BY <2>1, <2>2, QuotaAssumption
<1> HIDE DEF today, grant
<1>4. UsedOn(today) \in 0..Budget
    BY QuotaAssumption DEF UsedOn, LedgerInv, LedgerTypeOK
<1>5. /\ ledger'.day = today /\ ledger'.units = UsedOn(today) + 1
      /\ ledger' \in [day : Days, units : 0..Budget, pending : SUBSET (IdempotencyKeys \X Times)]
    <2>1. UsedOn(today) + 1 \in 0..Budget
        BY <1>1, <1>4, QuotaAssumption
    <2>2. Pending(at) \cup {<<i, at>>} \in SUBSET (IdempotencyKeys \X Times)
        BY DEF Pending, LedgerInv, LedgerTypeOK
    <2> QED BY <1>1, <1>2, <2>1, <2>2
<1>6. LedgerTypeOK'
    <2>1. admissions' \in [IdempotencyKeys -> Admissions \cup {NoGrant}]
        BY <1>1, <1>3 DEF LedgerInv, LedgerTypeOK
    <2>2. submitting' \subseteq IdempotencyKeys \X Whose
        BY <1>1 DEF LedgerInv, LedgerTypeOK, Whose
    <2>3. overtaken' \in BOOLEAN
        BY <1>1 DEF LedgerInv, LedgerTypeOK
    <2> QED BY <1>1, <1>5, <2>1, <2>2, <2>3 DEF LedgerInv, LedgerTypeOK
<1>7. /\ admissions'[i] = grant
      /\ \A l \in IdempotencyKeys : l # i => admissions'[l] = admissions[l]
    BY <1>1 DEF LedgerInv, LedgerTypeOK
<1>8. /\ ChargedOn(today)' = ChargedOn(today) \cup {i}
      /\ i \notin ChargedOn(today)
      /\ \A day \in Days : day # today => ChargedOn(day)' = ChargedOn(day)
    BY <1>1, <1>3, <1>7 DEF ChargedOn
<1>9. IsFiniteSet(ChargedOn(today))
    BY <1>2 DEF LedgerInv
<1>10. /\ IsFiniteSet(ChargedOn(today)')
       /\ Charges(today)' = Charges(today) + 1
       /\ Charges(today) \in Nat
    BY <1>8, <1>9, FS_AddElement, FS_CardinalityType, ChargesAreCounted
<1>11. \A day \in Days : IsFiniteSet(ChargedOn(day)')
    BY <1>8, <1>10 DEF LedgerInv
<1>12. ASSUME ~overtaken' PROVE ~overtaken /\ ledger.day <= today
    <2>1. ~overtaken /\ ~(today < ledger.day)
        BY <1>1, <1>12, Zenon
    <2> QED BY <1>2, <2>1
<1>13. ChargesAreDated'
    <2> SUFFICES ASSUME ~overtaken', NEW day \in Days, today < day
                 PROVE  ChargedOn(day)' = {}
        BY <1>5 DEF ChargesAreDated
    <2>1. ledger.day < day /\ day # today
        BY <1>2, <1>12, DaysAreIntegers
    <2> QED BY <1>8, <1>12, <2>1 DEF LedgerInv, ChargesAreDated
<1>14. LedgerIsTheSum'
    <2> SUFFICES ASSUME ~overtaken'
                 PROVE  /\ UsedOn(today) + 1 = Charges(today)'
                        /\ \A day \in Days : Charges(day)' <= Budget
        BY <1>5 DEF LedgerIsTheSum
    <2>1. /\ ledger.units = Charges(ledger.day)
          /\ \A day \in Days : Charges(day) <= Budget
        BY <1>12 DEF LedgerInv, LedgerIsTheSum
    <2>2. UsedOn(today) = Charges(today)
        <3>1. CASE ledger.day = today
            BY <2>1, <3>1 DEF UsedOn
        <3>2. CASE ledger.day # today
            <4>1. ChargedOn(today) = {}
                BY <1>2, <1>12, <3>2 DEF LedgerInv, ChargesAreDated
            <4> QED BY <3>2, <4>1, FS_EmptySet, ChargesAreCounted DEF UsedOn
        <3> QED BY <3>1, <3>2
    <2>3. \A day \in Days : day # today => Charges(day)' = Charges(day)
        BY <1>8, ChargesAreCounted
    <2> QED BY <1>1, <1>10, <2>1, <2>2, <2>3
<1> QED BY <1>6, <1>11, <1>13, <1>14 DEF LedgerInv

LEMMA RefundKeepsLedger ==
    ASSUME LedgerInv, NEW i \in IdempotencyKeys, admissions[i] # NoGrant, Refunded(i) >= 0,
           admissions' = [admissions EXCEPT ![i] = NoGrant],
           ledger' = [ledger EXCEPT !.units = Refunded(i),
                                    !.pending = {entry \in @ : entry[1] # i}],
           submitting' \subseteq submitting,
           UNCHANGED <<created, queued, overtaken>>
    PROVE  LedgerInv'
<1>1. /\ admissions[i].day \in Days /\ admissions[i].units \in {0, 1}
      /\ \A day : i \in ChargedOn(day)
                      <=> day = admissions[i].day /\ admissions[i].units = 1
    BY AdmissionFacts DEF LedgerInv
<1>2. ledger.day \in Days /\ ledger.units \in 0..Budget
    BY DEF LedgerInv, LedgerTypeOK
<1>3. Refunded(i) \in 0..Budget
    BY <1>1, <1>2, QuotaAssumption DEF Refunded
<1>4. ledger'.day = ledger.day /\ ledger'.units = Refunded(i)
    BY DEF LedgerInv, LedgerTypeOK
<1>5. LedgerTypeOK'
    <2>1. admissions' \in [IdempotencyKeys -> Admissions \cup {NoGrant}]
        BY DEF LedgerInv, LedgerTypeOK
    <2>2. ledger' \in [day : Days, units : 0..Budget, pending : SUBSET (IdempotencyKeys \X Times)]
        BY <1>3 DEF LedgerInv, LedgerTypeOK
    <2> QED BY <2>1, <2>2 DEF LedgerInv, LedgerTypeOK
<1>6. \A day : ChargedOn(day)' = ChargedOn(day) \ {i}
    BY DEF ChargedOn, LedgerInv, LedgerTypeOK
<1>7. \A day \in Days :
          /\ IsFiniteSet(ChargedOn(day)') /\ Charges(day) \in Nat
          /\ Charges(day)' = IF i \in ChargedOn(day) THEN Charges(day) - 1 ELSE Charges(day)
    BY <1>6, FS_RemoveElement, FS_CardinalityType, ChargesAreCounted DEF LedgerInv
<1>8. ChargesAreDated'
    BY <1>4, <1>6 DEF LedgerInv, ChargesAreDated
<1>9. LedgerIsTheSum'
    <2> SUFFICES ASSUME ~overtaken, NEW today \in Days, today = ledger.day
                 PROVE  /\ Refunded(i) = Charges(today)'
                        /\ \A day \in Days : Charges(day)' <= Budget
        BY <1>2, <1>4 DEF LedgerIsTheSum
    <2>1. /\ ledger.units = Charges(today)
          /\ \A day \in Days : Charges(day) <= Budget
        BY DEF LedgerInv, LedgerIsTheSum
    <2>2. \A day \in Days : Charges(day)' <= Budget
        BY <1>7, <2>1, QuotaAssumption
    <2>3. Charges(today) \in Nat
        BY <1>7
    <2>4. ASSUME i \in ChargedOn(today) PROVE Refunded(i) = Charges(today)'
        <3>1. Charges(today)' = Charges(today) - 1
            BY <1>7, <2>4
        <3> QED BY <1>1, <2>1, <2>4, <3>1 DEF Refunded
    <2>5. ASSUME i \notin ChargedOn(today) PROVE Refunded(i) = Charges(today)'
        <3>1. Charges(today)' = Charges(today)
            BY <1>7, <2>5
        <3>2. admissions[i].day # today \/ admissions[i].units = 0
            BY <1>1, <2>5
        <3> QED BY <2>1, <2>3, <3>1, <3>2 DEF Refunded
    <2> QED BY <2>2, <2>4, <2>5
<1> QED BY <1>5, <1>7, <1>8, <1>9 DEF LedgerInv

\* Submissions and queued runs come and go without a charge.
LEMMA UnchargedKeepsLedger ==
    ASSUME LedgerInv, LedgerTypeOK', UNCHANGED <<admissions, ledger, overtaken>>
    PROVE  LedgerInv'
BY SameCharges DEF ChargedOn

LEMMA AccountingKeepsLedger ==
    ASSUME LedgerInv, Accounting, \A at \in Readings : at \in Times
    PROVE  LedgerInv'
<1> PICK i \in IdempotencyKeys :
        \/ StoreRun(i) \/ LeaveQueue(i)
        \/ \E whose \in Whose : Finish(i, whose)
        \/ \E k \in KeyIds, at \in Readings : Admit(i, k, at)
    BY DEF Accounting
<1>1. CASE StoreRun(i)
    <2>1. LedgerTypeOK'
        BY <1>1 DEF StoreRun, LedgerInv, LedgerTypeOK
    <2> QED BY <1>1, <2>1, UnchargedKeepsLedger DEF StoreRun
<1>2. CASE LeaveQueue(i)
    <2>1. LedgerTypeOK'
        BY <1>2 DEF LeaveQueue, LedgerInv, LedgerTypeOK
    <2> QED BY <1>2, <2>1, UnchargedKeepsLedger DEF LeaveQueue
<1>3. ASSUME NEW whose \in Whose, Finish(i, whose) PROVE LedgerInv'
    <2>1. CASE UNCHANGED <<admissions, ledger>>
        <3>1. LedgerTypeOK'
            BY <1>3, <2>1 DEF Finish, LedgerInv, LedgerTypeOK
        <3> QED BY <1>3, <2>1, <3>1, UnchargedKeepsLedger DEF Finish
    <2>2. CASE ~ UNCHANGED <<admissions, ledger>>
        BY <1>3, <2>2, RefundKeepsLedger DEF Finish
    <2> QED BY <2>1, <2>2
<1>4. ASSUME NEW k \in KeyIds, NEW at \in Readings, Admit(i, k, at) PROVE LedgerInv'
    BY <1>4, KnownKeepsLedger, NewKeepsLedger DEF Admit
<1> QED BY <1>1, <1>2, <1>3, <1>4

LEMMA StepKeepsLedger ==
    ASSUME LedgerInv, [Next]_vars
    PROVE  LedgerInv'
<1>1. CASE Runs
    BY <1>1, AccountingKeepsLedger, KeyTimes DEF Runs
<1>2. ASSUME UNCHANGED ledgerVars PROVE LedgerInv'
    <2>1. LedgerTypeOK'
        BY <1>2 DEF ledgerVars, LedgerInv, LedgerTypeOK
    <2> QED BY <1>2, <2>1, UnchargedKeepsLedger DEF ledgerVars
<1> QED BY <1>1, <1>2 DEF Next, Tick, KeyChanges, Requests, PermitsOf, vars

LEMMA InitHasLedger == Init => LedgerInv
<1> SUFFICES ASSUME Init PROVE LedgerInv
    OBVIOUS
<1>1. ledger \in [day : Days, units : 0..Budget, pending : SUBSET (IdempotencyKeys \X Times)]
    <2>1. 0 \in 0..Budget
        BY QuotaAssumption
    <2> QED BY <2>1, ReadingsHaveDays DEF Init
<1>2. LedgerTypeOK
    BY <1>1 DEF Init, LedgerTypeOK
<1>3. \A day : ChargedOn(day) = {}
    BY DEF Init, ChargedOn
<1>4. \A day : IsFiniteSet(ChargedOn(day)) /\ Charges(day) = 0
    BY <1>3, FS_EmptySet, ChargesAreCounted
<1>5. ledger.day = 0 /\ ledger.units = 0
    BY DEF Init
<1>6. ChargesAreDated /\ LedgerIsTheSum
    BY <1>3, <1>4, <1>5, QuotaAssumption DEF ChargesAreDated, LedgerIsTheSum
<1> QED BY <1>2, <1>4, <1>6 DEF LedgerInv

\* The inductive invariant of the ledger: nothing is charged to a day after the ledger's.
THEOREM LedgerInvariance == Spec => []LedgerInv
BY InitHasLedger, StepKeepsLedger, PTL DEF Spec

\* Unless a reading from the day before came late, the ledger is the sum of its day's
\* charges and no day exceeds its budget, for any budget, any length of a day and any number
\* of submissions, through failures and releases after midnight (admit_run, release_run).
THEOREM LedgerStaysTheSum == Spec => []LedgerIsTheSum
<1>1. LedgerInv => LedgerIsTheSum
    BY DEF LedgerInv
<1> QED BY <1>1, LedgerInvariance, PTL

-----------------------------------------------------------------------------
\* The permits.

LEMMA PoolsAreTwo == "sse" \in Pools /\ \A pool \in Pools : Limit[pool] \in Nat
BY QuotaAssumption DEF Pools

LEMMA OwnersArePooled == \A pool \in Pools : OwnersOf(pool) \subseteq Owners
BY DEF OwnersOf, Owners

LEMMA IdleFacts ==
    /\ IdleHolder \in Holders /\ IdleHolder.step = "idle" /\ IdleHolder.at = 0
<1>1. 0 \in Times
    BY KeysAssumption DEF Times
<1> QED BY <1>1 DEF IdleHolder, Holders, Pools

LEMMA SameDocumentIsEquivalence ==
    /\ \A pool, row : SameDocument(pool, row, row)
    /\ \A pool, row, other : SameDocument(pool, row, other) => SameDocument(pool, other, row)
    /\ \A pool, row, other, third :
           SameDocument(pool, row, other) /\ SameDocument(pool, other, third)
               => SameDocument(pool, row, third)
BY DEF SameDocument

\* A step of one replica that touches no lease.
LEMMA QuietStep ==
    ASSUME PermitsInv, UNCHANGED <<clock, leases>>, clock \in Int,
           NEW p \in Replicas, NEW h \in Holders,
           replicas' = [replicas EXCEPT ![p] = h],
           h.at <= clock, h.step = "holding" => h.until <= clock,
           h.step # "idle" =>
               /\ h.owner \in OwnersOf(h.pool) /\ h.permit \in Permits
               /\ \A q \in Replicas : q # p /\ ~At(q, "idle") => replicas[q].permit # h.permit,
           h.step = "acquiring" =>
               /\ \A pool \in Pools : \A row \in leases[pool] : row.permit # h.permit
               /\ h.fresh => \A row \in leases[h.pool] : \E seen \in h.rows :
                                 SameDocument(h.pool, row, seen)
    PROVE  PermitsInv'
<1>1. replicas'[p] = h /\ \A q \in Replicas : q # p => replicas'[q] = replicas[q]
    BY DEF PermitsInv, PermitsTypeOK
<1>2. PermitsTypeOK'
    BY DEF PermitsInv, PermitsTypeOK
<1>3. PermitsAreNamed'
    BY <1>1 DEF PermitsInv, PermitsAreNamed, At
<1>4. AskedPermitsAreNew'
    BY <1>1 DEF PermitsInv, AskedPermitsAreNew, At
<1>5. DocumentsAreUnique' /\ LeasesFit'
    BY DEF PermitsInv, DocumentsAreUnique, LeasesFit
<1>6. FreshReadingsAreComplete'
    BY <1>1 DEF PermitsInv, FreshReadingsAreComplete, At
<1>7. HoldersHaveTheirRows'
    <2> SUFFICES ASSUME NEW q \in Replicas, replicas'[q].step = "holding",
                        replicas'[q].until > clock
                 PROVE  q # p
        BY <1>1 DEF PermitsInv, HoldersHaveTheirRows, At, Held
    <2>1. h.until \in Int
        BY DEF Holders
    <2> QED BY <1>1, <2>1
<1> QED BY <1>2, <1>3, <1>4, <1>5, <1>6, <1>7 DEF PermitsInv

\* A step that takes leases of a pool away: those that have run out, and the replica's own.
LEMMA ShrinkStep ==
    ASSUME PermitsInv, UNCHANGED clock, clock \in Nat,
           NEW p \in Replicas, ~At(p, "idle"), replicas' = [replicas EXCEPT ![p] = IdleHolder],
           NEW pool \in Pools, NEW rows \in SUBSET leases[pool],
           leases' = [leases EXCEPT ![pool] = rows],
           \A row \in leases[pool] :
               row.expires > clock /\ row.permit # replicas[p].permit => row \in rows
    PROVE  PermitsInv'
<1>1. replicas'[p] = IdleHolder /\ \A q \in Replicas : q # p => replicas'[q] = replicas[q]
    BY DEF PermitsInv, PermitsTypeOK
<1>2. leases'[pool] = rows /\ \A other \in Pools : other # pool => leases'[other] = leases[other]
    BY DEF PermitsInv, PermitsTypeOK
<1>3. PermitsTypeOK'
    BY IdleFacts DEF PermitsInv, PermitsTypeOK
<1>4. PermitsAreNamed'
    BY <1>1, IdleFacts DEF PermitsInv, PermitsAreNamed, At
<1>5. \A other \in Pools : leases'[other] \subseteq leases[other]
    BY <1>2
<1>6. AskedPermitsAreNew' /\ DocumentsAreUnique'
    BY <1>1, <1>5, IdleFacts DEF PermitsInv, AskedPermitsAreNew, DocumentsAreUnique, At
<1>7. \A q \in Replicas : replicas[q].pool \in Pools
    BY DEF PermitsInv, PermitsTypeOK, Holders
<1>8. FreshReadingsAreComplete'
    BY <1>1, <1>5, <1>7, IdleFacts DEF PermitsInv, FreshReadingsAreComplete, At
<1>9. HoldersHaveTheirRows'
    <2> SUFFICES ASSUME NEW q \in Replicas, q # p, At(q, "holding"), replicas[q].until > clock
                 PROVE  \E row \in leases'[replicas[q].pool] :
                            /\ row.owner = replicas[q].owner /\ row.permit = replicas[q].permit
                            /\ row.expires = replicas[q].until
        BY <1>1, IdleFacts DEF HoldersHaveTheirRows, At, Held
    <2>1. PICK row \in leases[replicas[q].pool] :
              /\ row.owner = replicas[q].owner /\ row.permit = replicas[q].permit
              /\ row.expires = replicas[q].until
        BY DEF PermitsInv, HoldersHaveTheirRows, Held
    <2>2. row.permit # replicas[p].permit
        BY <2>1 DEF PermitsInv, PermitsAreNamed, At
    <2>3. row \in leases'[replicas[q].pool]
        BY <1>2, <1>7, <2>1, <2>2
    <2> QED BY <2>1, <2>3
<1>10. LeasesFit'
    <2> SUFFICES ASSUME NEW other \in Pools
                 PROVE  /\ IsFiniteSet(leases'[other])
                        /\ Cardinality(leases'[other]) <= Limit[other]
        BY DEF LeasesFit
    <2>1. /\ IsFiniteSet(leases[other]) /\ Cardinality(leases[other]) <= Limit[other]
        BY DEF PermitsInv, LeasesFit
    <2>2. /\ IsFiniteSet(leases'[other])
          /\ Cardinality(leases'[other]) <= Cardinality(leases[other])
        BY <1>5, <2>1, FS_Subset
    <2> QED BY <2>1, <2>2, FS_CardinalityType, PoolsAreTwo
<1> QED BY <1>3, <1>4, <1>6, <1>8, <1>9, <1>10 DEF PermitsInv

HoldsNow(p, pool, row) ==
    /\ replicas'[p].step = "holding" /\ replicas'[p].at <= clock
    /\ replicas'[p].pool = pool /\ replicas'[p].until = row.expires
    /\ replicas'[p].owner = row.owner /\ replicas'[p].permit = row.permit

\* The other replicas stay as they are; a reading of the pool is stale, unless the document
\* that is written was there.
OthersWait(p, pool, row) ==
    \A q \in Replicas : q # p =>
        /\ replicas'[q].step = replicas[q].step /\ replicas'[q].pool = replicas[q].pool
        /\ replicas'[q].owner = replicas[q].owner /\ replicas'[q].permit = replicas[q].permit
        /\ replicas'[q].at = replicas[q].at /\ replicas'[q].rows = replicas[q].rows
        /\ replicas'[q].until = replicas[q].until
        /\ At(q, "acquiring") /\ replicas'[q].fresh =>
               /\ replicas[q].fresh
               /\ replicas[q].pool = pool =>
                      \E old \in leases[pool] : SameDocument(pool, row, old)

\* No lease of another that still runs is touched.
Spares(p, pool, reclaimed, row) ==
    \A other \in leases[pool] :
        other.expires > clock /\ other.permit # replicas[p].permit =>
            \A r \in reclaimed \cup {row} : ~SameDocument(pool, r, other)

\* A step that writes the lease of a replica that holds its permit afterwards, and takes away
\* others that have run out.
LEMMA WriteStep ==
    ASSUME PermitsInv, UNCHANGED clock, clock \in Nat,
           NEW p \in Replicas, ~At(p, "idle"), NEW pool \in Pools, replicas[p].pool = pool,
           NEW row \in Leases,
           row.owner = replicas[p].owner, row.permit = replicas[p].permit,
           NEW reclaimed, Write(pool, row, reclaimed),
           replicas' \in [Replicas -> Holders],
           HoldsNow(p, pool, row), OthersWait(p, pool, row), Spares(p, pool, reclaimed, row),
           IsFiniteSet(leases'[pool]), Cardinality(leases'[pool]) <= Limit[pool]
    PROVE  PermitsInv'
<1> USE DEF HoldsNow, OthersWait, Spares
<1>1. /\ leases' \in [Pools -> SUBSET Leases]
      /\ \A other \in Pools : other # pool => leases'[other] = leases[other]
      /\ \A other : other \in leases'[pool]
             <=> \/ other = row
                 \/ /\ other \in leases[pool]
                    /\ \A r \in reclaimed \cup {row} : ~SameDocument(pool, r, other)
    BY DEF Write, Without, PermitsInv, PermitsTypeOK
<1>2. row.permit \in Permits /\ row.owner \in OwnersOf(pool)
    BY DEF PermitsInv, PermitsAreNamed
<1>3. \A q \in Replicas : ~At(q, "idle") /\ q # p => replicas[q].permit # row.permit
    BY DEF PermitsInv, PermitsAreNamed
<1>4. PermitsTypeOK'
    BY <1>1 DEF PermitsTypeOK
<1>5. PermitsAreNamed'
    <2> SUFFICES ASSUME NEW q \in Replicas
                 PROVE  /\ replicas'[q].at <= clock
                        /\ replicas'[q].step # "idle" =>
                            /\ replicas'[q].owner \in OwnersOf(replicas'[q].pool)
                            /\ replicas'[q].permit \in Permits
                            /\ \A o \in Replicas :
                                   replicas'[o].step # "idle"
                                   /\ replicas'[o].permit = replicas'[q].permit => o = q
        BY DEF PermitsAreNamed, At
    <2>1. CASE q = p
        BY <1>2, <1>3, <2>1 DEF At
    <2>2. CASE q # p
        BY <1>3, <2>2 DEF PermitsInv, PermitsAreNamed, At
    <2> QED BY <2>1, <2>2
<1>6. AskedPermitsAreNew'
    <2> SUFFICES ASSUME NEW q \in Replicas, replicas'[q].step = "acquiring",
                        NEW other \in Pools, NEW r \in leases'[other]
                 PROVE  r.permit # replicas'[q].permit
        BY DEF AskedPermitsAreNew, At
    <2>1. q # p /\ At(q, "acquiring") /\ replicas'[q].permit = replicas[q].permit
        BY DEF At
    <2>2. CASE r = row /\ other = pool
        BY <1>3, <2>1, <2>2 DEF At
    <2>3. CASE r \in leases[other]
        BY <2>1, <2>3 DEF PermitsInv, AskedPermitsAreNew
    <2> QED BY <1>1, <2>2, <2>3
<1>7. DocumentsAreUnique'
    <2> SUFFICES ASSUME NEW other \in Pools, NEW r \in leases'[other], NEW u \in leases'[other],
                        SameDocument(other, r, u)
                 PROVE  r = u
        BY DEF DocumentsAreUnique
    <2>1. CASE other # pool
        BY <1>1, <2>1 DEF PermitsInv, DocumentsAreUnique
    <2>2. CASE other = pool
        <3>1. CASE r \in leases[pool] /\ u \in leases[pool]
            BY <2>2, <3>1 DEF PermitsInv, DocumentsAreUnique
        <3>2. CASE r = row \/ u = row
            BY <1>1, <2>2, <3>2, SameDocumentIsEquivalence
        <3> QED BY <1>1, <2>2, <3>1, <3>2
    <2> QED BY <2>1, <2>2
<1>8. \A q \in Replicas : replicas[q].pool \in Pools
    BY DEF PermitsInv, PermitsTypeOK, Holders
<1>9. FreshReadingsAreComplete'
    <2> SUFFICES ASSUME NEW q \in Replicas, replicas'[q].step = "acquiring", replicas'[q].fresh,
                        NEW r \in leases'[replicas'[q].pool]
                 PROVE  \E seen \in replicas'[q].rows : SameDocument(replicas'[q].pool, r, seen)
        BY DEF FreshReadingsAreComplete, At
    <2>1. /\ q # p /\ At(q, "acquiring") /\ replicas[q].fresh
          /\ replicas'[q].pool = replicas[q].pool /\ replicas'[q].rows = replicas[q].rows
          /\ replicas[q].pool = pool => \E old \in leases[pool] : SameDocument(pool, row, old)
        BY DEF At
    <2>2. \A old \in leases[replicas[q].pool] :
              \E seen \in replicas[q].rows : SameDocument(replicas[q].pool, old, seen)
        BY <2>1 DEF PermitsInv, FreshReadingsAreComplete
    <2>3. CASE r \in leases[replicas[q].pool]
        BY <2>1, <2>2, <2>3
    <2>4. CASE r \notin leases[replicas[q].pool]
        <3>1. replicas[q].pool = pool /\ r = row
            BY <1>1, <1>8, <2>1, <2>4
        <3>2. PICK old \in leases[pool] : SameDocument(pool, row, old)
            BY <2>1, <3>1
        <3>3. PICK seen \in replicas[q].rows : SameDocument(pool, old, seen)
            BY <2>2, <3>1
        <3> QED BY <2>1, <3>1, <3>2, <3>3, SameDocumentIsEquivalence
    <2> QED BY <2>3, <2>4
<1>10. HoldersHaveTheirRows'
    <2> SUFFICES ASSUME NEW q \in Replicas, replicas'[q].step = "holding",
                        replicas'[q].until > clock
                 PROVE  \E r \in leases'[replicas'[q].pool] :
                            /\ r.owner = replicas'[q].owner /\ r.permit = replicas'[q].permit
                            /\ r.expires = replicas'[q].until
        BY DEF HoldersHaveTheirRows, At, Held
    <2>1. CASE q = p
        BY <1>1, <2>1
    <2>2. CASE q # p
        <3>1. PICK r \in leases[replicas[q].pool] :
                  /\ r.owner = replicas[q].owner /\ r.permit = replicas[q].permit
                  /\ r.expires = replicas[q].until
            BY <2>2 DEF PermitsInv, HoldersHaveTheirRows, Held, At
        <3>2. r.permit # replicas[p].permit
            BY <1>3, <2>2, <3>1 DEF At
        <3>3. r \in leases'[replicas[q].pool]
            BY <1>1, <1>8, <2>2, <3>1, <3>2
        <3> QED BY <2>2, <3>1, <3>3
    <2> QED BY <2>1, <2>2
<1>11. LeasesFit'
    BY <1>1 DEF PermitsInv, LeasesFit
<1> QED BY <1>4, <1>5, <1>6, <1>7, <1>9, <1>10, <1>11 DEF PermitsInv

LEMMA AskingHolder ==
    ASSUME NEW pool, NEW owner, NEW n, NEW at, NEW rows, NEW h,
           h = [IdleHolder EXCEPT !.step = "acquiring", !.pool = pool, !.owner = owner,
                                  !.permit = n, !.at = at, !.rows = rows]
    PROVE  h = [step |-> "acquiring", pool |-> pool, owner |-> owner, permit |-> n, at |-> at,
                rows |-> rows, fresh |-> TRUE, until |-> 0]
BY DEF IdleHolder

LEMMA AcquireKeepsPermits ==
    ASSUME PermitsInv, KeysTypeOK, UNCHANGED clock,
           NEW p \in Replicas, NEW pool \in Pools, NEW owner \in OwnersOf(pool),
           NEW n \in Permits, NEW at \in Readings, Acquire(p, pool, owner, n, at)
    PROVE  PermitsInv'
<1> DEFINE h == [IdleHolder EXCEPT !.step = "acquiring", !.pool = pool, !.owner = owner,
                                   !.permit = n, !.at = at, !.rows = leases[pool]]
<1>1. /\ FreshPermit(n) /\ UNCHANGED leases
      /\ replicas' = [replicas EXCEPT ![p] = h]
    BY DEF Acquire
<1>2. h = [step |-> "acquiring", pool |-> pool, owner |-> owner, permit |-> n, at |-> at,
           rows |-> leases[pool], fresh |-> TRUE, until |-> 0]
    BY AskingHolder
<1> HIDE DEF h
<1>3. h \in Holders
    <2>1. owner \in Owners /\ leases[pool] \in SUBSET Leases /\ at \in Times
        BY OwnersArePooled, ReadingsAreRecent DEF PermitsInv, PermitsTypeOK
    <2> QED BY <1>2, <2>1 DEF Holders
<1>4. at <= clock /\ clock \in Int
    BY ReadingsAreRecent
<1>5. \A row \in leases[pool] : \E seen \in leases[pool] : SameDocument(pool, row, seen)
    BY SameDocumentIsEquivalence
<1> QED BY <1>1, <1>2, <1>3, <1>4, <1>5, QuietStep DEF FreshPermit

LEMMA LeaveKeepsPermits ==
    ASSUME PermitsInv, KeysTypeOK, UNCHANGED <<clock, leases>>, NEW p \in Replicas,
           replicas' = [replicas EXCEPT ![p] = IdleHolder]
    PROVE  PermitsInv'
<1>1. clock \in Int /\ 0 <= clock
    BY KeysAssumption DEF KeysTypeOK, Times
<1> QED BY <1>1, IdleFacts, QuietStep

LEMMA ReadAgainKeepsPermits ==
    ASSUME PermitsInv, KeysTypeOK, UNCHANGED clock, NEW p \in Replicas, ReadAgain(p)
    PROVE  PermitsInv'
<1> DEFINE h == replicas[p]
           new == [h EXCEPT !.rows = leases[h.pool], !.fresh = TRUE]
<1>1. /\ At(p, "acquiring") /\ UNCHANGED leases
      /\ replicas' = [replicas EXCEPT ![p] =
             IF MayHold(h.pool, h.owner, h.at) THEN new ELSE IdleHolder]
    BY DEF ReadAgain
<1>2. CASE ~MayHold(h.pool, h.owner, h.at)
    BY <1>1, <1>2, LeaveKeepsPermits
<1>3. CASE MayHold(h.pool, h.owner, h.at)
    <2>1. h \in Holders /\ h.pool \in Pools /\ leases[h.pool] \in SUBSET Leases
        BY DEF PermitsInv, PermitsTypeOK, Holders
    <2>2. /\ new \in Holders /\ new.step = "acquiring" /\ new.pool = h.pool
          /\ new.owner = h.owner /\ new.permit = h.permit /\ new.at = h.at
          /\ new.rows = leases[h.pool]
        BY <1>1, <2>1 DEF Holders, At
    <2> HIDE DEF new, h
    <2>3. /\ h.at <= clock /\ h.owner \in OwnersOf(h.pool) /\ h.permit \in Permits
          /\ \A q \in Replicas : q # p /\ ~At(q, "idle") => replicas[q].permit # h.permit
        BY <1>1 DEF PermitsInv, PermitsAreNamed, At, h
    <2>4. \A pool \in Pools : \A row \in leases[pool] : row.permit # h.permit
        BY <1>1 DEF PermitsInv, AskedPermitsAreNew, h
    <2>5. clock \in Int
        BY KeysAssumption DEF KeysTypeOK, Times
    <2> QED BY <1>1, <1>3, <2>2, <2>3, <2>4, <2>5, SameDocumentIsEquivalence, QuietStep
<1> QED BY <1>2, <1>3

LEMMA ReleaseKeepsPermits ==
    ASSUME PermitsInv, KeysTypeOK, UNCHANGED clock, NEW p \in Replicas, Release(p)
    PROVE  PermitsInv'
<1> DEFINE h == replicas[p]
           rows == leases[h.pool] \ Held(h)
<1>1. /\ ~At(p, "idle") /\ h.pool \in Pools /\ clock \in Nat
      /\ leases' = [leases EXCEPT ![h.pool] = rows]
      /\ replicas' = [replicas EXCEPT ![p] = IdleHolder]
    BY KeysAssumption DEF Release, At, PermitsInv, PermitsTypeOK, Holders, KeysTypeOK, Times
<1>2. \A row \in leases[h.pool] : row.permit # h.permit => row \in rows
    BY DEF Held
<1> HIDE DEF rows
<1>3. rows \in SUBSET leases[h.pool]
    BY DEF rows
<1> QED BY <1>1, <1>2, <1>3, ShrinkStep

\* Nothing that a commit relies on has changed: it saw every lease there is.
LEMMA UndisturbedSawAll ==
    ASSUME PermitsInv, NEW p \in Replicas, At(p, "acquiring"), Undisturbed(replicas[p])
    PROVE  replicas[p].rows = leases[replicas[p].pool]
<1>1. /\ replicas[p].pool \in Pools /\ replicas[p].fresh
      /\ replicas[p].rows \subseteq leases[replicas[p].pool]
    BY DEF PermitsInv, PermitsTypeOK, Holders, Undisturbed
<1>2. ASSUME NEW row \in leases[replicas[p].pool] PROVE row \in replicas[p].rows
    <2>1. PICK seen \in replicas[p].rows : SameDocument(replicas[p].pool, row, seen)
        BY <1>1 DEF PermitsInv, FreshReadingsAreComplete
    <2>2. row = seen
        BY <1>1, <2>1 DEF PermitsInv, DocumentsAreUnique
    <2> QED BY <2>2
<1> QED BY <1>1, <1>2

\* A batch holds leases that have run out, and one of them if there is one.
LEMMA BatchFacts ==
    ASSUME PermitsInv, NEW p \in Replicas, At(p, "acquiring"), Undisturbed(replicas[p]),
           NEW batch \in Reclaimable(replicas[p])
    PROVE  LET h == replicas[p]
           IN /\ \A row \in batch : row \in leases[h.pool] /\ row.expires <= h.at
              /\ IsFiniteSet(leases[h.pool]) /\ IsFiniteSet(h.rows)
              /\ batch = {} => Expired(h.rows, h.at) = {}
<1> DEFINE h == replicas[p]
           expired == Expired(h.rows, h.at)
<1>1. h.rows = leases[h.pool] /\ h.pool \in Pools
    BY UndisturbedSawAll DEF PermitsInv, PermitsTypeOK, Holders
<1>2. IsFiniteSet(leases[h.pool])
    BY <1>1 DEF PermitsInv, LeasesFit
<1>3. /\ batch \subseteq expired /\ expired \subseteq leases[h.pool]
      /\ Cardinality(batch) = IF Cardinality(expired) < ReclaimBatch
                              THEN Cardinality(expired) ELSE ReclaimBatch
    BY <1>1 DEF Reclaimable, Expired
<1>4. \A row \in batch : row \in leases[h.pool] /\ row.expires <= h.at
    BY <1>1, <1>3 DEF Expired
<1>5. ASSUME batch = {} PROVE expired = {}
    <2>1. IsFiniteSet(expired) /\ Cardinality(expired) \in Nat
        BY <1>2, <1>3, FS_Subset, FS_CardinalityType
    <2>2. ReclaimBatch \in Nat \ {0}
        BY QuotaAssumption, Zenon
    <2>3. Cardinality(expired) = 0
        BY <1>3, <1>5, <2>1, <2>2, FS_EmptySet
    <2> QED BY <2>1, <2>3, FS_EmptySet
<1> QED BY <1>1, <1>2, <1>4, <1>5

LEMMA RefuseKeepsPermits ==
    ASSUME PermitsInv, KeysTypeOK, UNCHANGED clock, NEW p \in Replicas, At(p, "acquiring"),
           Undisturbed(replicas[p]), NEW batch \in Reclaimable(replicas[p]),
           leases' = [leases EXCEPT ![replicas[p].pool] = Without(replicas[p].pool, batch)],
           replicas' = [replicas EXCEPT ![p] = IdleHolder]
    PROVE  PermitsInv'
<1> DEFINE h == replicas[p]
           rows == Without(h.pool, batch)
<1>1. /\ ~At(p, "idle") /\ h.pool \in Pools /\ clock \in Nat /\ h.at <= clock /\ h.at \in Int
      /\ \A row \in leases[h.pool] : row.expires \in Int
    BY KeysAssumption DEF At, PermitsInv, PermitsTypeOK, PermitsAreNamed, Holders, Leases,
       KeysTypeOK, Times
<1>2. \A row \in leases[h.pool] : row.expires > clock => row \in rows
    BY <1>1, BatchFacts DEF Without, PermitsInv, DocumentsAreUnique
<1> HIDE DEF rows
<1>3. rows \in SUBSET leases[h.pool]
    BY DEF rows, Without
<1> QED BY <1>1, <1>2, <1>3, ShrinkStep DEF rows

LEMMA OneMore ==
    ASSUME NEW S, IsFiniteSet(S), NEW W \in SUBSET S, NEW x
    PROVE  /\ IsFiniteSet(W \cup {x}) /\ Cardinality(S) \in Nat
           /\ Cardinality(W \cup {x}) \in Nat
           /\ Cardinality(W \cup {x}) <= Cardinality(S) + 1
<1>1. IsFiniteSet(W) /\ Cardinality(W) <= Cardinality(S)
    BY FS_Subset
<1>2. Cardinality(W) \in Nat /\ Cardinality(S) \in Nat
    BY <1>1, FS_CardinalityType
<1>3. /\ IsFiniteSet(W \cup {x})
      /\ Cardinality(W \cup {x}) = IF x \in W THEN Cardinality(W) ELSE Cardinality(W) + 1
    BY <1>1, FS_AddElement
<1> QED BY <1>1, <1>2, <1>3

LEMMA OneForAnother ==
    ASSUME NEW S, IsFiniteSet(S), NEW e \in S, NEW W \in SUBSET (S \ {e}), NEW x
    PROVE  /\ IsFiniteSet(W \cup {x}) /\ Cardinality(W \cup {x}) \in Nat
           /\ Cardinality(S) \in Nat /\ Cardinality(W \cup {x}) <= Cardinality(S)
<1>1. /\ IsFiniteSet(S \ {e}) /\ Cardinality(S \ {e}) = Cardinality(S) - 1
    BY FS_RemoveElement
<1>2. Cardinality(S) \in Nat
    BY FS_CardinalityType
<1>3. /\ IsFiniteSet(W \cup {x}) /\ Cardinality(W \cup {x}) \in Nat
      /\ Cardinality(W \cup {x}) <= Cardinality(S \ {e}) + 1
    BY <1>1, OneMore
<1> QED BY <1>1, <1>2, <1>3

LEMMA GrantFits ==
    ASSUME PermitsInv, NEW p \in Replicas, At(p, "acquiring"), Undisturbed(replicas[p]),
           Granted(replicas[p]), NEW batch \in Reclaimable(replicas[p]), NEW row
    PROVE  LET rows == Without(replicas[p].pool, batch \cup {row}) \cup {row}
           IN IsFiniteSet(rows) /\ Cardinality(rows) <= Limit[replicas[p].pool]
<1> DEFINE h == replicas[p]
           rest == Without(h.pool, batch \cup {row})
<1>1. /\ h.pool \in Pools /\ h.rows = leases[h.pool] /\ Limit[h.pool] \in Nat
      /\ IsFiniteSet(leases[h.pool]) /\ Cardinality(leases[h.pool]) <= Limit[h.pool]
    BY UndisturbedSawAll, PoolsAreTwo DEF PermitsInv, PermitsTypeOK, Holders, LeasesFit
<1>2. rest \in SUBSET leases[h.pool]
    BY DEF Without
<1>3. CASE batch = {}
    <2>1. Expired(h.rows, h.at) = {}
        BY <1>3, BatchFacts
    <2>2. Cardinality(leases[h.pool]) < Limit[h.pool]
        <3>1. h.rows \ Expired(h.rows, h.at) = leases[h.pool]
            BY <1>1, <2>1
        <3> QED BY <3>1 DEF Granted
    <2> HIDE DEF rest
    <2>3. /\ IsFiniteSet(rest \cup {row}) /\ Cardinality(rest \cup {row}) \in Nat
          /\ Cardinality(leases[h.pool]) \in Nat
          /\ Cardinality(rest \cup {row}) <= Cardinality(leases[h.pool]) + 1
        BY <1>1, <1>2, OneMore
    <2>4. Cardinality(rest \cup {row}) <= Limit[h.pool]
        BY <1>1, <2>2, <2>3
    <2> QED BY <2>3, <2>4 DEF rest
<1>4. ASSUME NEW e \in batch
      PROVE  IsFiniteSet(rest \cup {row}) /\ Cardinality(rest \cup {row}) <= Limit[h.pool]
    <2>1. e \in leases[h.pool]
        BY BatchFacts
    <2>2. rest \in SUBSET (leases[h.pool] \ {e})
        BY SameDocumentIsEquivalence DEF Without
    <2> HIDE DEF rest
    <2>3. /\ IsFiniteSet(rest \cup {row}) /\ Cardinality(rest \cup {row}) \in Nat
          /\ Cardinality(leases[h.pool]) \in Nat
          /\ Cardinality(rest \cup {row}) <= Cardinality(leases[h.pool])
        BY <1>1, <2>1, <2>2, OneForAnother
    <2> QED BY <1>1, <2>3
<1> QED BY <1>3, <1>4

LEMMA HoldingHolder ==
    ASSUME NEW pool, NEW owner, NEW n, NEW until, NEW h,
           h = [IdleHolder EXCEPT !.step = "holding", !.pool = pool, !.owner = owner,
                                  !.permit = n, !.until = until]
    PROVE  h = [step |-> "holding", pool |-> pool, owner |-> owner, permit |-> n, at |-> 0,
                rows |-> {}, fresh |-> TRUE, until |-> until]
BY DEF IdleHolder

LEMMA StaleHolder ==
    ASSUME NEW h \in Holders, NEW stale, stale = [h EXCEPT !.fresh = FALSE]
    PROVE  /\ stale \in Holders /\ stale.fresh = FALSE
           /\ stale.step = h.step /\ stale.pool = h.pool /\ stale.owner = h.owner
           /\ stale.permit = h.permit /\ stale.at = h.at /\ stale.rows = h.rows
           /\ stale.until = h.until
BY DEF Holders

\* What an acquiring replica asks for, and when.
LEMMA AskingFacts ==
    ASSUME PermitsInv, KeysTypeOK, NEW p \in Replicas, At(p, "acquiring")
    PROVE  LET h == replicas[p]
           IN /\ ~At(p, "idle") /\ h.pool \in Pools /\ clock \in Nat
              /\ h.at \in Times /\ h.at \in Nat /\ h.at <= clock
              /\ h.owner \in OwnersOf(h.pool) /\ h.owner \in Owners /\ h.permit \in Permits
              /\ h.at + Term \in Nat
              /\ \A row \in leases[h.pool] : row.expires \in Int
<1>1. Term \in Nat
    BY QuotaAssumption
<1> QED BY <1>1, KeysAssumption, OwnersArePooled
        DEF At, PermitsInv, PermitsTypeOK, PermitsAreNamed, Holders, Leases, KeysTypeOK, Times

LEMMA GrantKeepsPermits ==
    ASSUME PermitsInv, KeysTypeOK, UNCHANGED clock, NEW p \in Replicas, At(p, "acquiring"),
           Undisturbed(replicas[p]), Granted(replicas[p]), NEW batch \in Reclaimable(replicas[p]),
           NEW row, row = [owner |-> replicas[p].owner, permit |-> replicas[p].permit,
                           expires |-> replicas[p].at + Term],
           Write(replicas[p].pool, row, batch),
           replicas' = [q \in Replicas |->
               IF q = p THEN [IdleHolder EXCEPT !.step = "holding", !.pool = replicas[p].pool,
                                 !.owner = replicas[p].owner, !.permit = replicas[p].permit,
                                 !.until = replicas[p].at + Term]
               ELSE IF At(q, "acquiring") /\ replicas[q].pool = replicas[p].pool
                    THEN [replicas[q] EXCEPT !.fresh = FALSE] ELSE replicas[q]]
    PROVE  PermitsInv'
<1> DEFINE h == replicas[p]
           new == [IdleHolder EXCEPT !.step = "holding", !.pool = h.pool, !.owner = h.owner,
                                     !.permit = h.permit, !.until = h.at + Term]
<1>1. /\ ~At(p, "idle") /\ h.pool \in Pools /\ clock \in Nat
      /\ h.at \in Times /\ h.at \in Nat /\ h.at <= clock
      /\ h.owner \in Owners /\ h.permit \in Permits /\ h.at + Term \in Nat
      /\ \A other \in leases[h.pool] : other.expires \in Int
    BY AskingFacts
<1>2. row \in Leases /\ row.owner = h.owner /\ row.permit = h.permit /\ row.expires = h.at + Term
    BY <1>1 DEF Leases
<1>3. /\ new = [step |-> "holding", pool |-> h.pool, owner |-> h.owner, permit |-> h.permit,
                at |-> 0, rows |-> {}, fresh |-> TRUE, until |-> h.at + Term]
    BY ZenonT(60), HoldingHolder
<1>4. replicas'[p] = new /\ 0 \in Times
    BY KeysAssumption DEF Times
<1> HIDE DEF new
<1>5. /\ new \in Holders /\ new.step = "holding" /\ new.at = 0 /\ new.pool = h.pool
      /\ new.until = row.expires /\ new.owner = row.owner /\ new.permit = row.permit
    BY <1>1, <1>2, <1>3, <1>4 DEF Holders
<1>6. ASSUME NEW q \in Replicas, q # p
      PROVE  /\ replicas'[q] \in Holders
             /\ replicas'[q].step = replicas[q].step /\ replicas'[q].pool = replicas[q].pool
             /\ replicas'[q].owner = replicas[q].owner /\ replicas'[q].permit = replicas[q].permit
             /\ replicas'[q].at = replicas[q].at /\ replicas'[q].rows = replicas[q].rows
             /\ replicas'[q].until = replicas[q].until
             /\ At(q, "acquiring") /\ replicas'[q].fresh =>
                    replicas[q].fresh /\ replicas[q].pool # h.pool
    <2>1. replicas[q] \in Holders
        BY DEF PermitsInv, PermitsTypeOK
    <2>2. CASE At(q, "acquiring") /\ replicas[q].pool = h.pool
        <3>1. replicas'[q] = [replicas[q] EXCEPT !.fresh = FALSE]
            BY <1>6, <2>2
        <3> QED BY ZenonT(60), <2>1, <3>1, StaleHolder
    <2>3. CASE ~(At(q, "acquiring") /\ replicas[q].pool = h.pool)
        <3>1. replicas'[q] = replicas[q]
            BY <1>6, <2>3
        <3> QED BY <2>1, <2>3, <3>1
    <2> QED BY <2>2, <2>3
<1>7. replicas' \in [Replicas -> Holders]
    BY <1>4, <1>5, <1>6
<1>8. ASSUME NEW other \in leases[h.pool], other.expires > clock, other.permit # h.permit,
             NEW r \in batch \cup {row}
      PROVE  ~SameDocument(h.pool, r, other)
    <2>1. CASE r \in batch
        <3>1. r \in leases[h.pool] /\ r.expires <= h.at
            BY <2>1, BatchFacts
        <3>2. r # other
            BY <1>1, <1>8, <3>1
        <3> QED BY <1>1, <3>1, <3>2 DEF PermitsInv, DocumentsAreUnique
    <2>2. CASE r = row /\ h.pool = "execution"
        <3>1. other \in h.rows \ Expired(h.rows, h.at)
            BY <1>1, <1>8, UndisturbedSawAll DEF Expired
        <3> QED BY <1>2, <2>2, <3>1 DEF Granted, SameDocument
    <2>3. CASE r = row /\ h.pool # "execution"
        BY <1>2, <1>8, <2>3 DEF SameDocument
    <2> QED BY <2>1, <2>2, <2>3
<1>9. leases'[h.pool] = Without(h.pool, batch \cup {row}) \cup {row}
    BY <1>1 DEF Write, PermitsInv, PermitsTypeOK
<1>10. IsFiniteSet(leases'[h.pool]) /\ Cardinality(leases'[h.pool]) <= Limit[h.pool]
    BY <1>9, GrantFits
<1>11. Spares(p, h.pool, batch, row)
    BY <1>8 DEF Spares
<1>12. OthersWait(p, h.pool, row)
    BY <1>6 DEF OthersWait
<1>13. HoldsNow(p, h.pool, row)
    BY <1>1, <1>4, <1>5 DEF HoldsNow
<1> QED BY <1>1, <1>2, <1>7, <1>10, <1>11, <1>12, <1>13, WriteStep

LEMMA CommitKeepsPermits ==
    ASSUME PermitsInv, KeysTypeOK, UNCHANGED clock, NEW p \in Replicas, Commit(p)
    PROVE  PermitsInv'
<1> DEFINE h == replicas[p]
           row == [owner |-> h.owner, permit |-> h.permit, expires |-> h.at + Term]
<1>1. At(p, "acquiring") /\ Undisturbed(h)
    BY DEF Commit
<1>2. PICK batch \in Reclaimable(h) :
          \/ /\ Granted(h)
             /\ Write(h.pool, row, batch)
             /\ replicas' = [q \in Replicas |->
                    IF q = p THEN [IdleHolder EXCEPT !.step = "holding", !.pool = h.pool,
                                      !.owner = h.owner, !.permit = h.permit,
                                      !.until = h.at + Term]
                    ELSE IF At(q, "acquiring") /\ replicas[q].pool = h.pool
                         THEN [replicas[q] EXCEPT !.fresh = FALSE] ELSE replicas[q]]
          \/ /\ ~Granted(h)
             /\ leases' = [leases EXCEPT ![h.pool] = Without(h.pool, batch)]
             /\ replicas' = [replicas EXCEPT ![p] = IdleHolder]
    BY DEF Commit
<1>3. CASE ~Granted(h)
    BY <1>1, <1>2, <1>3, RefuseKeepsPermits
<1>4. CASE Granted(h)
    BY <1>1, <1>2, <1>4, GrantKeepsPermits
<1> QED BY <1>3, <1>4

LEMMA RenewKeepsPermits ==
    ASSUME PermitsInv, KeysTypeOK, UNCHANGED clock, NEW p \in Replicas, NEW at \in Readings,
           Renew(p, at)
    PROVE  PermitsInv'
<1> DEFINE h == replicas[p]
           row == [owner |-> h.owner, permit |-> h.permit, expires |-> at + Term]
<1>1. /\ h \in Holders /\ h.step = "holding" /\ ~At(p, "idle") /\ At(p, "holding")
      /\ h.pool \in Pools /\ h.at <= clock /\ clock \in Nat /\ clock \in Int
      /\ h.owner \in OwnersOf(h.pool) /\ h.owner \in Owners /\ h.permit \in Permits
      /\ \A q \in Replicas : q # p /\ ~At(q, "idle") => replicas[q].permit # h.permit
    BY KeysAssumption, OwnersArePooled
       DEF Renew, At, PermitsInv, PermitsTypeOK, PermitsAreNamed, Holders, KeysTypeOK, Times
<1>2. at + Term \in Nat /\ 0 \in Nat
    <2>1. Term \in Nat
        BY QuotaAssumption
    <2> QED BY <2>1, ReadingsAreRecent, KeysAssumption DEF Times
<1>3. \A until \in Nat :
          LET new == [h EXCEPT !.until = until]
          IN /\ new \in Holders /\ new.step = "holding" /\ new.at = h.at /\ new.pool = h.pool
             /\ new.owner = h.owner /\ new.permit = h.permit /\ new.until = until
    BY <1>1 DEF Holders
<1>4. CASE ~Renewable(h, at)
    <2> DEFINE new == [h EXCEPT !.until = 0]
    <2>1. UNCHANGED leases /\ replicas' = [replicas EXCEPT ![p] = new]
        BY <1>4 DEF Renew
    <2>2. /\ new \in Holders /\ new.step = "holding" /\ new.at = h.at /\ new.pool = h.pool
          /\ new.owner = h.owner /\ new.permit = h.permit /\ new.until = 0
        BY <1>2, <1>3
    <2> HIDE DEF new
    <2>3. /\ new.at <= clock /\ new.until <= clock /\ new.step # "acquiring"
          /\ new.owner \in OwnersOf(new.pool) /\ new.permit \in Permits
          /\ \A q \in Replicas : q # p /\ ~At(q, "idle") => replicas[q].permit # new.permit
        BY <1>1, <2>2
    <2> QED BY <1>1, <2>1, <2>2, <2>3, QuietStep
<1>5. CASE Renewable(h, at)
    <2>1. Write(h.pool, row, {}) /\ replicas' = [replicas EXCEPT ![p].until = at + Term]
        BY <1>5 DEF Renew
    <2>2. PICK old \in leases[h.pool] : old.owner = h.owner /\ old.permit = h.permit
        BY <1>5 DEF Renewable, Held
    <2>3. row \in Leases /\ row.owner = h.owner /\ row.permit = h.permit
          /\ row.expires = at + Term
        BY <1>1, <1>2 DEF Leases
    <2> HIDE DEF row
    <2>4. replicas'[p] = [h EXCEPT !.until = at + Term]
        BY <2>1 DEF PermitsInv, PermitsTypeOK
    <2>5. \A q \in Replicas : q # p => replicas'[q] = replicas[q]
        BY <2>1 DEF PermitsInv, PermitsTypeOK
    <2>6. /\ replicas'[p] \in Holders /\ HoldsNow(p, h.pool, row)
        BY <1>1, <1>2, <1>3, <2>3, <2>4 DEF HoldsNow
    <2>7. replicas' \in [Replicas -> Holders]
        BY <2>1, <2>4, <2>6 DEF PermitsInv, PermitsTypeOK
    <2>8. SameDocument(h.pool, row, old)
        BY <2>2, <2>3 DEF SameDocument
    <2>9. OthersWait(p, h.pool, row)
        BY <2>5, <2>8 DEF OthersWait
    <2>10. Spares(p, h.pool, {}, row)
        <3> SUFFICES ASSUME NEW other \in leases[h.pool], SameDocument(h.pool, row, other)
                     PROVE  other.permit = h.permit
            BY DEF Spares
        <3>1. old = other
            BY <1>1, <2>8, SameDocumentIsEquivalence DEF PermitsInv, DocumentsAreUnique
        <3> QED BY <2>2, <3>1
    <2>11. /\ IsFiniteSet(leases[h.pool]) /\ Cardinality(leases[h.pool]) <= Limit[h.pool]
           /\ Limit[h.pool] \in Nat
        BY <1>1, PoolsAreTwo DEF PermitsInv, LeasesFit
    <2> DEFINE rest == Without(h.pool, {row})
    <2>12. leases'[h.pool] = rest \cup {row}
        BY <1>1, <2>1 DEF Write, PermitsInv, PermitsTypeOK
    <2>13. rest \in SUBSET (leases[h.pool] \ {old})
        BY <2>8 DEF Without
    <2> HIDE DEF rest
    <2>14. /\ IsFiniteSet(rest \cup {row}) /\ Cardinality(rest \cup {row}) \in Nat
           /\ Cardinality(leases[h.pool]) \in Nat
           /\ Cardinality(rest \cup {row}) <= Cardinality(leases[h.pool])
        BY <2>2, <2>11, <2>13, OneForAnother
    <2>15. IsFiniteSet(leases'[h.pool]) /\ Cardinality(leases'[h.pool]) <= Limit[h.pool]
        BY <2>11, <2>12, <2>14
    <2> QED BY <1>1, <2>1, <2>3, <2>6, <2>7, <2>9, <2>10, <2>15, WriteStep
<1> QED BY <1>4, <1>5

\* Time passes, or something else happens.
LEMMA OthersKeepPermits ==
    ASSUME PermitsInv, UNCHANGED permitVars, clock \in Nat, clock' \in Nat, clock <= clock'
    PROVE  PermitsInv'
<1>1. PermitsTypeOK' /\ AskedPermitsAreNew' /\ DocumentsAreUnique' /\ FreshReadingsAreComplete'
    BY DEF permitVars, PermitsInv, PermitsTypeOK, AskedPermitsAreNew, DocumentsAreUnique,
           FreshReadingsAreComplete, At
<1>2. LeasesFit'
    BY DEF permitVars, PermitsInv, LeasesFit
<1>3. \A p \in Replicas : replicas[p].at \in Nat /\ replicas[p].until \in Nat
    BY KeysAssumption DEF PermitsInv, PermitsTypeOK, Holders, Times
<1>4. PermitsAreNamed'
    BY <1>3 DEF permitVars, PermitsInv, PermitsAreNamed, At
<1>5. HoldersHaveTheirRows'
    <2> SUFFICES ASSUME NEW p \in Replicas, At(p, "holding"), replicas[p].until > clock'
                 PROVE  \E row \in Held(replicas[p]) : row.expires = replicas[p].until
        BY DEF permitVars, HoldersHaveTheirRows, At, Held
    <2>1. replicas[p].until > clock
        BY <1>3
    <2> QED BY <2>1 DEF PermitsInv, HoldersHaveTheirRows
<1> QED BY <1>1, <1>2, <1>4, <1>5 DEF PermitsInv

LEMMA StepKeepsPermits ==
    ASSUME PermitsInv, KeysInv, [Next]_vars
    PROVE  PermitsInv'
<1>1. KeysTypeOK /\ clock \in Nat
    BY KeysAssumption DEF KeysInv, KeysTypeOK, Times
<1>2. ASSUME NEW p \in Replicas, PermitsOf(p) PROVE PermitsInv'
    <2>1. UNCHANGED clock /\ Permitting(p)
        BY <1>2 DEF PermitsOf
    <2>2. CASE ReadAgain(p) \/ Commit(p) \/ Release(p)
        BY <1>1, <2>1, <2>2, ReadAgainKeepsPermits, CommitKeepsPermits, ReleaseKeepsPermits
    <2>3. CASE Crash(p)
        BY <1>1, <2>1, <2>3, LeaveKeepsPermits DEF Crash
    <2>4. ASSUME NEW at \in Readings, Renew(p, at) PROVE PermitsInv'
        BY <1>1, <2>1, <2>4, RenewKeepsPermits
    <2>5. ASSUME NEW at \in Readings, NEW pool \in Pools, NEW n \in Permits,
                 NEW owner \in OwnersOf(pool), Acquire(p, pool, owner, n, at)
          PROVE  PermitsInv'
        BY <1>1, <2>1, <2>5, AcquireKeepsPermits
    <2> QED BY <2>1, <2>2, <2>3, <2>4, <2>5 DEF Permitting
<1>3. ASSUME UNCHANGED permitVars, clock' \in Nat, clock <= clock' PROVE PermitsInv'
    BY <1>1, <1>3, OthersKeepPermits
<1> QED BY <1>1, <1>2, <1>3 DEF Next, Tick, KeyChanges, Requests, Runs, vars

LEMMA InitHasPermits == Init => PermitsInv
<1> SUFFICES ASSUME Init PROVE PermitsInv
    OBVIOUS
<1>1. PermitsTypeOK
    BY IdleFacts DEF Init, PermitsTypeOK
<1>2. \A p \in Replicas : replicas[p].step = "idle" /\ replicas[p].at = 0
    BY IdleFacts DEF Init
<1>3. PermitsAreNamed
    BY <1>2 DEF Init, KeysInit, PermitsAreNamed, At
<1>4. /\ AskedPermitsAreNew /\ DocumentsAreUnique /\ FreshReadingsAreComplete
      /\ HoldersHaveTheirRows
    BY <1>2 DEF Init, AskedPermitsAreNew, DocumentsAreUnique, FreshReadingsAreComplete,
                HoldersHaveTheirRows, At
<1>5. LeasesFit
    BY FS_EmptySet, PoolsAreTwo DEF Init, LeasesFit
<1> QED BY <1>1, <1>3, <1>4, <1>5 DEF PermitsInv

\* The inductive invariant of the permits: as long as the guard document is as it was read,
\* no lease has appeared that the reading does not know.
THEOREM PermitsInvariance == Spec => []PermitsInv
BY InitHasPermits, StepKeepsPermits, KeysInvariance, PTL DEF Spec

\* No more leases than the limit, and whoever was told that its permit runs has it until
\* then, for any number of replicas, any limit, term and batch of reclaimed leases, and
\* however late the clocks (acquire_execution, acquire_sse, renew, release, _delete_leases).
THEOREM PermitsStayExclusive == Spec => []PermitsAreExclusive
<1>1. PermitsInv => PermitsAreExclusive
    <2> SUFFICES ASSUME PermitsInv PROVE PermitsAreExclusive
        OBVIOUS
    <2>1. \A p \in Replicas : replicas[p].pool \in Pools
        BY DEF PermitsInv, PermitsTypeOK, Holders
    <2> QED BY <2>1 DEF PermitsInv, LeasesFit, HoldersHaveTheirRows, DocumentsAreUnique,
                        PermitsAreExclusive, Held
<1> QED BY <1>1, PermitsInvariance, PTL

-----------------------------------------------------------------------------
\* The streams of a key.

\* A stored key keeps its expiry, and when it is revoked that is the instant at which it ends.
LEMMA KeysEvolve ==
    ASSUME KeysInv, Managing, UNCHANGED clock, NEW k \in KeyIds, Stored(k)
    PROVE  /\ Stored(k)' /\ keys'[k].expires = keys[k].expires
           /\ (keys'[k].revoked = keys[k].revoked /\ ended'[k] = ended[k]) \/ ended'[k] = clock
<1>1. keys[k] \in KeyRecords /\ keys[k] # NoKey /\ ended \in [KeyIds -> Times \cup {Never}]
    BY DEF KeysInv, KeysTypeOK, Stored
<1>2. ASSUME UNCHANGED <<keys, ended>>
      PROVE  /\ Stored(k)' /\ keys'[k].expires = keys[k].expires
             /\ keys'[k].revoked = keys[k].revoked /\ ended'[k] = ended[k]
    BY <1>2 DEF Stored
<1>3. ASSUME NEW at, keys'[k] = [keys[k] EXCEPT !.revoked = at], at \in Times
      PROVE  Stored(k)' /\ keys'[k].expires = keys[k].expires
    <2>1. keys'[k] \in KeyRecords /\ keys'[k].expires = keys[k].expires
        BY <1>1, <1>3 DEF KeyRecords
    <2> QED BY <2>1, KeysSentinels DEF Stored
<1>4. ASSUME NEW a \in Admins, FinishRotation(a), Rotatable(rotations[a])
      PROVE  /\ Stored(k)' /\ keys'[k].expires = keys[k].expires
             /\ (keys'[k].revoked = keys[k].revoked /\ ended'[k] = ended[k]) \/ ended'[k] = clock
    <2> DEFINE rotation == rotations[a]
               row == [created |-> rotation.at, expires |-> rotation.expires,
                       revoked |-> Never, from |-> rotation.old]
    <2>1. /\ rotation # NoKey
          /\ keys' = [keys EXCEPT ![rotation.new] = row, ![rotation.old].revoked = rotation.at]
          /\ ended' = [ended EXCEPT ![rotation.old] = clock]
        BY <1>4 DEF FinishRotation
    <2>2. /\ rotation.old \in KeyIds /\ rotation.new \in KeyIds /\ rotation.old # rotation.new
          /\ rotation.at \in Times /\ ~Stored(rotation.new)
        BY <1>4, <2>1, RotationFacts
    <2> HIDE DEF row
    <2>3. CASE k = rotation.old
        <3>1. keys'[k] = [keys[k] EXCEPT !.revoked = rotation.at] /\ ended'[k] = clock
            BY <1>1, <2>1, <2>2, <2>3 DEF KeysInv, KeysTypeOK
        <3> QED BY <1>3, <2>2, <3>1
    <2>4. CASE k # rotation.old
        <3>1. k # rotation.new
            BY <2>2
        <3>2. keys'[k] = keys[k] /\ ended'[k] = ended[k]
            BY <1>1, <2>1, <2>2, <2>4, <3>1 DEF KeysInv, KeysTypeOK
        <3> QED BY <1>1, <3>2 DEF Stored
    <2> QED BY <2>3, <2>4
<1>5. ASSUME NEW l \in KeyIds, NEW at \in Readings, RevokeKey(l, at)
      PROVE  /\ Stored(k)' /\ keys'[k].expires = keys[k].expires
             /\ (keys'[k].revoked = keys[k].revoked /\ ended'[k] = ended[k]) \/ ended'[k] = clock
    <2>1. keys' = [keys EXCEPT ![l].revoked = at] /\ ended' = [ended EXCEPT ![l] = clock]
        BY <1>5 DEF RevokeKey
    <2>2. CASE k = l
        <3>1. keys'[k] = [keys[k] EXCEPT !.revoked = at] /\ ended'[k] = clock
            BY <1>1, <2>1, <2>2 DEF KeysInv, KeysTypeOK
        <3> QED BY <1>3, <3>1, KeyTimes
    <2>3. CASE k # l
        <3>1. keys'[k] = keys[k] /\ ended'[k] = ended[k]
            BY <1>1, <2>1, <2>3 DEF KeysInv, KeysTypeOK
        <3> QED BY <1>1, <3>1 DEF Stored
    <2> QED BY <2>2, <2>3
<1>6. ASSUME NEW l \in KeyIds, NEW at, NEW expires, CreateKey(l, expires, at)
      PROVE  /\ Stored(k)' /\ keys'[k].expires = keys[k].expires
             /\ keys'[k].revoked = keys[k].revoked /\ ended'[k] = ended[k]
    <2>1. l # k /\ UNCHANGED ended /\ keys'[k] = keys[k]
        BY <1>6 DEF CreateKey, FreshKey, KeysInv, KeysTypeOK
    <2> QED BY <1>1, <2>1 DEF Stored
<1>7. CASE \E a \in Admins : Rotating(a)
    <2>1. PICK a \in Admins : Rotating(a)
        BY <1>7
    <2>2. CASE FinishRotation(a) /\ Rotatable(rotations[a])
        BY <1>4, <2>2
    <2>3. CASE ~(FinishRotation(a) /\ Rotatable(rotations[a]))
        <3>1. UNCHANGED <<keys, ended>>
            BY <2>1, <2>3 DEF Rotating, FinishRotation, AbandonRotation, BeginRotation
        <3> QED BY <1>2, <3>1
    <2> QED BY <2>2, <2>3
<1> QED BY <1>5, <1>6, <1>7 DEF Managing

LEMMA ManagingKeepsStreams ==
    ASSUME StreamsInv, KeysInv, Managing, UNCHANGED <<clock, leases>>
    PROVE  StreamsInv'
<1> SUFFICES ASSUME NEW row \in leases["sse"]
             PROVE  /\ row.owner \in KeyIds /\ row.expires <= clock + Term
                    /\ Stored(row.owner)'
                    /\ row.expires < keys'[row.owner].expires + Term
                    /\ keys'[row.owner].revoked # Never =>
                           row.expires <= ended'[row.owner] + Term
    BY DEF StreamsInv, Stored
<1>1. /\ row.owner \in KeyIds /\ row.expires <= clock + Term /\ Stored(row.owner)
      /\ row.expires < keys[row.owner].expires + Term
      /\ keys[row.owner].revoked # Never => row.expires <= ended[row.owner] + Term
    BY DEF StreamsInv
<1>2. /\ Stored(row.owner)' /\ keys'[row.owner].expires = keys[row.owner].expires
      /\ \/ keys'[row.owner].revoked = keys[row.owner].revoked
            /\ ended'[row.owner] = ended[row.owner]
         \/ ended'[row.owner] = clock
    BY <1>1, KeysEvolve
<1> QED BY <1>1, <1>2

\* A lease is written for a key that is active at the instant its term starts.
LEMMA WrittenForActive ==
    ASSUME StreamsInv, KeysTypeOK, UNCHANGED <<clock, keys, ended>>, NEW at \in Times, at <= clock,
           NEW owner, MayHold("sse", owner, at), owner \in KeyIds,
           \A row \in leases'["sse"] :
               row \in leases["sse"] \/ (row.owner = owner /\ row.expires = at + Term)
    PROVE  StreamsInv'
<1> SUFFICES ASSUME NEW row \in leases'["sse"]
             PROVE  /\ row.owner \in KeyIds /\ row.expires <= clock + Term
                    /\ Stored(row.owner)
                    /\ row.expires < keys[row.owner].expires + Term
                    /\ keys[row.owner].revoked # Never => row.expires <= ended[row.owner] + Term
    BY DEF StreamsInv, Stored
<1>1. CASE row \in leases["sse"]
    BY <1>1 DEF StreamsInv
<1>2. CASE row.owner = owner /\ row.expires = at + Term
    <2>1. /\ Stored(owner) /\ keys[owner].revoked = Never /\ keys[owner].expires > at
          /\ keys[owner] \in KeyRecords
        BY DEF MayHold, Active, KeysTypeOK, Stored
    <2>2. keys[owner].expires \in Int /\ at \in Int /\ clock \in Int
        BY <2>1, KeyTimes DEF KeyRecords, KeysTypeOK
    <2>3. Term \in Int
        BY QuotaAssumption
    <2> QED BY <1>2, <2>1, <2>2, <2>3
<1> QED BY <1>1, <1>2

LEMMA FewerStreams ==
    ASSUME StreamsInv, UNCHANGED <<clock, keys, ended>>, leases'["sse"] \subseteq leases["sse"]
    PROVE  StreamsInv'
BY DEF StreamsInv, Stored

\* What a write leaves in the pool of streams.
LEMMA WriteOfStreams ==
    ASSUME PermitsTypeOK, NEW pool \in Pools, NEW row, NEW reclaimed, Write(pool, row, reclaimed)
    PROVE  \A r \in leases'["sse"] : r \in leases["sse"] \/ (pool = "sse" /\ r = row)
BY DEF Write, Without, PermitsTypeOK, Pools

LEMMA CommitKeepsStreams ==
    ASSUME StreamsInv, PermitsInv, KeysTypeOK, UNCHANGED <<clock, keys, ended>>,
           NEW p \in Replicas, Commit(p)
    PROVE  StreamsInv'
<1> DEFINE h == replicas[p]
           row == [owner |-> h.owner, permit |-> h.permit, expires |-> h.at + Term]
<1>1. At(p, "acquiring") /\ Undisturbed(h) /\ MayHold(h.pool, h.owner, h.at)
    BY DEF Commit, Undisturbed
<1>2. h.pool \in Pools /\ h.at \in Times /\ h.at <= clock /\ h.owner \in OwnersOf(h.pool)
    BY <1>1, AskingFacts
<1>3. PICK batch \in Reclaimable(h) :
          \/ Granted(h) /\ Write(h.pool, row, batch)
          \/ leases' = [leases EXCEPT ![h.pool] = Without(h.pool, batch)]
    BY DEF Commit
<1>4. CASE leases' = [leases EXCEPT ![h.pool] = Without(h.pool, batch)]
    <2>1. leases'["sse"] \subseteq leases["sse"]
        BY <1>2, <1>4 DEF Without, PermitsInv, PermitsTypeOK, Pools
    <2> QED BY <2>1, FewerStreams
<1>5. CASE Write(h.pool, row, batch) /\ h.pool = "sse"
    <2>1. row.owner = h.owner /\ row.expires = h.at + Term
        OBVIOUS
    <2> HIDE DEF row
    <2>2. \A r \in leases'["sse"] :
              r \in leases["sse"] \/ (r.owner = h.owner /\ r.expires = h.at + Term)
        BY <1>2, <1>5, <2>1, WriteOfStreams DEF PermitsInv
    <2>3. h.owner \in KeyIds
        BY <1>2, <1>5 DEF OwnersOf
    <2> QED BY <1>1, <1>2, <1>5, <2>2, <2>3, WrittenForActive
<1>6. CASE Write(h.pool, row, batch) /\ h.pool # "sse"
    <2>1. leases'["sse"] \subseteq leases["sse"]
        BY <1>2, <1>6, WriteOfStreams DEF PermitsInv
    <2> QED BY <2>1, FewerStreams
<1> QED BY <1>3, <1>4, <1>5, <1>6

LEMMA RenewKeepsStreams ==
    ASSUME StreamsInv, PermitsInv, KeysTypeOK, UNCHANGED <<clock, keys, ended>>,
           NEW p \in Replicas, NEW at \in Readings, Renew(p, at)
    PROVE  StreamsInv'
<1> DEFINE h == replicas[p]
           row == [owner |-> h.owner, permit |-> h.permit, expires |-> at + Term]
<1>1. h.pool \in Pools /\ h.owner \in OwnersOf(h.pool) /\ at \in Times /\ at <= clock
    BY ReadingsAreRecent DEF Renew, At, PermitsInv, PermitsTypeOK, PermitsAreNamed, Holders
<1>2. CASE UNCHANGED leases
    BY <1>2, FewerStreams
<1>3. CASE Renewable(h, at) /\ Write(h.pool, row, {}) /\ h.pool = "sse"
    <2>1. row.owner = h.owner /\ row.expires = at + Term
        OBVIOUS
    <2> HIDE DEF row
    <2>2. \A r \in leases'["sse"] :
              r \in leases["sse"] \/ (r.owner = h.owner /\ r.expires = at + Term)
        BY <1>1, <1>3, <2>1, WriteOfStreams DEF PermitsInv
    <2>3. h.owner \in KeyIds /\ MayHold("sse", h.owner, at)
        BY <1>1, <1>3 DEF OwnersOf, Renewable
    <2> QED BY <1>1, <2>2, <2>3, WrittenForActive
<1>4. CASE Write(h.pool, row, {}) /\ h.pool # "sse"
    <2>1. leases'["sse"] \subseteq leases["sse"]
        BY <1>1, <1>4, WriteOfStreams DEF PermitsInv
    <2> QED BY <2>1, FewerStreams
<1> QED BY <1>2, <1>3, <1>4 DEF Renew

LEMMA StepKeepsStreams ==
    ASSUME StreamsInv, PermitsInv, KeysInv, [Next]_vars
    PROVE  StreamsInv'
<1>1. KeysTypeOK /\ clock \in Int /\ Term \in Int
    BY KeysAssumption, QuotaAssumption DEF KeysInv, KeysTypeOK, Times
<1>2. CASE Tick
    <2>1. clock' = clock + 1 /\ UNCHANGED <<keys, ended, leases>>
        BY <1>2 DEF Tick, keyVars, permitVars
    <2>2. \A row \in leases["sse"] : row.expires \in Int
        BY DEF PermitsInv, PermitsTypeOK, Leases, Pools
    <2> QED BY <1>1, <2>1, <2>2 DEF StreamsInv, Stored
<1>3. CASE KeyChanges
    BY <1>3, ManagingKeepsStreams DEF KeyChanges, permitVars
<1>4. ASSUME NEW p \in Replicas, PermitsOf(p) PROVE StreamsInv'
    <2>1. UNCHANGED <<clock, keys, ended>> /\ Permitting(p)
        BY <1>4 DEF PermitsOf, keyVars
    <2>2. CASE Commit(p)
        BY <1>1, <2>1, <2>2, CommitKeepsStreams
    <2>3. CASE \E at \in Readings : Renew(p, at)
        BY <1>1, <2>1, <2>3, RenewKeepsStreams
    <2>4. CASE Release(p)
        <3>1. leases'["sse"] \subseteq leases["sse"]
            BY <2>4 DEF Release, PermitsInv, PermitsTypeOK, Pools
        <3> QED BY <2>1, <3>1, FewerStreams
    <2>5. CASE UNCHANGED leases
        BY <2>1, <2>5, FewerStreams
    <2> QED BY <2>1, <2>2, <2>3, <2>4, <2>5 DEF Permitting, ReadAgain, Crash, Acquire
<1>5. CASE UNCHANGED <<clock, keys, ended, leases>>
    BY <1>5, FewerStreams
<1> QED BY <1>2, <1>3, <1>4, <1>5 DEF Next, Requests, Runs, vars, keyVars, permitVars

\* A lease of a stream is written for a key that is active when its term starts, and a key
\* never lives longer than it was stored with.
THEOREM StreamsInvariance == Spec => []StreamsInv
<1>1. Init => StreamsInv
    BY DEF Init, StreamsInv, Pools
<1> QED BY <1>1, StepKeepsStreams, PermitsInvariance, KeysInvariance, PTL DEF Spec

\* A revoked, rotated or expired key keeps no event stream for longer than one term after
\* the step that ended it, whatever instant was written down for it, for any number of
\* streams and any lateness of the clocks (renew_sse, acquire_sse against revoke and rotate).
THEOREM StreamsStayWithTheirKeys == Spec => []StreamsFollowTheirKeys
<1>1. StreamsInv => StreamsFollowTheirKeys
    BY DEF StreamsInv, StreamsFollowTheirKeys
<1> QED BY <1>1, StreamsInvariance, PTL

\* Keys, permits, buckets and the ledger keep their types, for any number of each.
THEOREM QuotaTypes == Spec => []QuotaTypeOK
<1>1. KeysInv /\ PermitsInv /\ BucketsInv /\ LedgerInv => QuotaTypeOK
    BY DEF KeysInv, PermitsInv, PermitsTypeOK, BucketsInv, BucketsTypeOK, LedgerInv,
           LedgerTypeOK, QuotaTypeOK
<1> QED BY <1>1, KeysInvariance, PermitsInvariance, BucketsInvariance, LedgerInvariance, PTL

-----------------------------------------------------------------------------
\* The publication of a secret.

LEMMA PublicationStarts == PublicationInit => PublicationInv
BY DEF PublicationInit, PublicationInv, SecretIsInHand

LEMMA PublicationStep ==
    ASSUME PublicationInv, [PublicationNext]_publicationVars
    PROVE  PublicationInv'
<1> USE DEF PublicationInv, SecretIsInHand
<1>1. CASE OpenDirectory
    BY <1>1 DEF OpenDirectory
<1>2. CASE CreateOutput
    BY <1>2 DEF CreateOutput
<1>3. CASE Identify
    BY <1>3 DEF Identify
<1>4. CASE WriteOutput
    BY <1>4 DEF WriteOutput
<1>5. CASE Confirm
    BY <1>5 DEF Confirm
<1>6. CASE Duplicate
    BY <1>6 DEF Duplicate
<1>7. CASE CloseOutput
    BY <1>7 DEF CloseOutput
<1>8. CASE StoreKey
    BY <1>8 DEF StoreKey
<1>9. CASE Scrub
    BY <1>9 DEF Scrub
<1>10. CASE Look
    BY <1>10 DEF Look
<1>11. CASE Reserve
    BY <1>11 DEF Reserve
<1>12. CASE Rename
    BY <1>12 DEF Rename
<1>13. CASE Inspect
    BY <1>13 DEF Inspect, Emptied
<1>14. CASE Meddle
    BY <1>14 DEF Meddle
<1>15. CASE UNCHANGED publicationVars
    BY <1>15 DEF publicationVars
<1> QED BY <1>1, <1>2, <1>3, <1>4, <1>5, <1>6, <1>7, <1>8, <1>9, <1>10, <1>11, <1>12, <1>13,
           <1>14, <1>15 DEF PublicationNext

\* The secret of a key that was not published is nowhere on the disk unless a call that
\* would have emptied it failed too, no key is stored whose secret was not written, and no
\* file of somebody else is emptied, however often others meddle and however many names are
\* tried (_write_plaintext_file, _quarantine_owned_output).
THEOREM OutputStaysSafe == PublicationSpec => []OutputIsSafe
<1>1. PublicationInv => OutputIsSafe
    BY DEF PublicationInv, SecretIsInHand, OutputIsSafe
<1> QED BY <1>1, PublicationStarts, PublicationStep, PTL DEF PublicationSpec

=============================================================================

------------------------------ MODULE ApiKeys ------------------------------
(***************************************************************************)
(* The life of API keys: ApiKeyManager over a key repository.  Both        *)
(* repositories (SQLite and Firestore) decide in one transaction, but the  *)
(* manager reads the old key, and decides on the new one, before it.       *)
(*                                                                         *)
(* Abstractions: one tenant; secrets, digests and scopes are left out, so  *)
(* every caller knows the key it names; key ids are drawn at random and    *)
(* are fresh.  Handlers read clocks of their own, at most Lateness behind. *)
(***************************************************************************)
EXTENDS Integers, FiniteSets

CONSTANTS
    KeyIds, NoKey,
    Admins,           \* administrators that rotate keys
    MaxTime,          \* bound of the model: the last instant
    Lateness          \* how far a clock reading may lie behind

ASSUME KeysAssumption ==
    /\ MaxTime \in Nat /\ Lateness \in Nat
    /\ NoKey \notin KeyIds

Times == 0..MaxTime
Never == MaxTime + 1          \* the expiry of a key without one

\* ApiKeyHashRecord.
KeyRecords == [created : Times, expires : Times \cup {Never},
               revoked : Times \cup {Never}, from : KeyIds \cup {NoKey}]

\* A rotation between its reading and its transaction.
Rotations == [old : KeyIds, new : KeyIds, at : Times, expires : Times \cup {Never}]

ASSUME KeysSentinels == NoKey \notin KeyRecords \cup Rotations

VARIABLES
    clock,
    keys,        \* KeyIds -> the stored record, or NoKey
    rotations,   \* Admins -> the rotation under way, or NoKey
    ended        \* history: KeyIds -> the instant at which the key was revoked

keyVars == <<keys, rotations, ended>>

Readings == {at \in Times : at <= clock /\ clock - Lateness <= at}

Stored(k) == keys[k] # NoKey

\* ApiKeyHashRecord.status_at is "active".
Active(k, at) ==
    /\ Stored(k)
    /\ keys[k].revoked = Never
    /\ keys[k].expires > at

FreshKey(k) == ~Stored(k) /\ \A a \in Admins : rotations[a] # NoKey => rotations[a].new # k

\* ApiKeyManager.create, with or without a time to live.
CreateKey(k, expires, at) ==
    /\ FreshKey(k)
    /\ expires > at
    /\ keys' = [keys EXCEPT ![k] = [created |-> at, expires |-> expires,
                                    revoked |-> Never, from |-> NoKey]]
    /\ UNCHANGED <<rotations, ended>>

\* rotate, up to the transaction: the record is read and must be active; the new key
\* keeps its expiry.
BeginRotation(a, old, new, at) ==
    /\ rotations[a] = NoKey
    /\ Active(old, at)
    /\ FreshKey(new)
    /\ keys[old].expires > at
    /\ rotations' = [rotations EXCEPT ![a] =
           [old |-> old, new |-> new, at |-> at, expires |-> keys[old].expires]]
    /\ UNCHANGED <<keys, ended>>

\* Mutant of Rotatable: what was read before the transaction is relied on.
RotatableAsRead(rotation) == Stored(rotation.old)

\* The old key must still be active, in the transaction.
Rotatable(rotation) ==
    /\ Active(rotation.old, rotation.at)
    /\ rotation.at >= keys[rotation.old].created
    /\ ~Stored(rotation.new)

\* rotate: both keys in one transaction, or neither.
FinishRotation(a) ==
    LET rotation == rotations[a]
    IN /\ rotation # NoKey
       /\ IF Rotatable(rotation)
          THEN /\ keys' = [keys EXCEPT
                      ![rotation.new] = [created |-> rotation.at, expires |-> rotation.expires,
                                         revoked |-> Never, from |-> rotation.old],
                      ![rotation.old].revoked = rotation.at]
               /\ ended' = [ended EXCEPT ![rotation.old] = clock]
          ELSE UNCHANGED <<keys, ended>>
       /\ rotations' = [rotations EXCEPT ![a] = NoKey]

\* The administrator's process ends before the transaction.
AbandonRotation(a) ==
    /\ rotations[a] # NoKey
    /\ rotations' = [rotations EXCEPT ![a] = NoKey]
    /\ UNCHANGED <<keys, ended>>

\* revoke: once, and not before the key was made.
RevokeKey(k, at) ==
    /\ Stored(k) /\ keys[k].revoked = Never
    /\ at >= keys[k].created
    /\ keys' = [keys EXCEPT ![k].revoked = at]
    /\ ended' = [ended EXCEPT ![k] = clock]
    /\ UNCHANGED rotations

KeysInit ==
    /\ clock = 0
    /\ keys = [k \in KeyIds |-> NoKey]
    /\ rotations = [a \in Admins |-> NoKey]
    /\ ended = [k \in KeyIds |-> Never]

Rotating(a) ==
    \/ FinishRotation(a) \/ AbandonRotation(a)
    \/ \E at \in Readings : \E old, new \in KeyIds : BeginRotation(a, old, new, at)

Managing ==
    \/ \E a \in Admins : Rotating(a)
    \/ \E k \in KeyIds, at \in Readings :
        \/ RevokeKey(k, at)
        \/ \E expires \in Times \cup {Never} : CreateKey(k, expires, at)

-----------------------------------------------------------------------------
\* Every variable has its type.
KeysTypeOK ==
    /\ clock \in Times
    /\ keys \in [KeyIds -> KeyRecords \cup {NoKey}]
    /\ rotations \in [Admins -> Rotations \cup {NoKey}]
    /\ ended \in [KeyIds -> Times \cup {Never}]

Successors(k) == {s \in KeyIds : Stored(s) /\ keys[s].from = k}

\* Rotations of one key that run at the same time, or while it is revoked, leave it one
\* successor at most, and none as long as it is valid; the successor ends when the old
\* key would have (ApiKeyManager.rotate, the repositories' rotate and revoke).
SuccessionIsLinear ==
    \A k \in KeyIds :
        /\ Cardinality(Successors(k)) <= 1
        /\ \A s \in Successors(k) :
            /\ Stored(k) /\ keys[k].revoked # Never
            /\ keys[s].created = keys[k].revoked
            /\ keys[s].expires = keys[k].expires
=============================================================================

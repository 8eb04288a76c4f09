---------------------------- MODULE MCCloudQuota ----------------------------
(***************************************************************************)
(* CloudQuota and KeyPublication for TLC.  The keys, the permits, the      *)
(* buckets and the ledger share the clock and the keys only, so a          *)
(* behaviour takes the steps of one of them, its focus, and the steps of   *)
(* the clock and the keys that matter to it; the publication of a secret   *)
(* is a focus of its own.  The state spaces are added, not multiplied.     *)
(***************************************************************************)
EXTENDS CloudQuota, KeyPublication, TLC

MCLimit == [pool \in Pools |-> 1]

VARIABLE focus

MCInit ==
    /\ focus \in {"keys", "permits", "requests", "runs", "publication"}
    /\ Init
    /\ PublicationInit
    /\ focus # "publication" => place.theirs = "away"

OtherThanKeys == <<clock, permitVars, buckets, ledgerVars>>

\* Outside the focus on keys there is one key, made at the start; it may be revoked under
\* an open stream.
MakeTheKey ==
    /\ \A k \in KeyIds : ~Stored(k)
    /\ \E k \in KeyIds, at \in Readings, expires \in Times \cup {Never} : CreateKey(k, expires, at)
    /\ UNCHANGED OtherThanKeys

RevokeTheKey ==
    /\ \E k \in KeyIds, at \in Readings : RevokeKey(k, at)
    /\ UNCHANGED OtherThanKeys

\* The clock, and the part that the behaviour is about.
Shared ==
    \/ Tick
    \/ focus = "keys" /\ KeyChanges
    \/ focus # "keys" /\ MakeTheKey
    \/ focus = "permits" /\ RevokeTheKey
    \/ focus = "permits" /\ \E p \in Replicas : PermitsOf(p)
    \/ focus = "requests" /\ Requests
    \/ focus = "runs" /\ Runs

MCNext ==
    /\ UNCHANGED focus
    /\ \/ focus = "publication" /\ PublicationNext /\ UNCHANGED vars
       \/ focus # "publication" /\ Shared /\ UNCHANGED publicationVars

MCSpec == MCInit /\ [][MCNext]_<<vars, publicationVars, focus>>

Symmetry == Permutations(KeyIds) \cup Permutations(Permits) \cup Permutations(Replicas)
                \cup Permutations(IdempotencyKeys) \cup Permutations(Admins)
=============================================================================

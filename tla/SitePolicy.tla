----------------------------- MODULE SitePolicy -----------------------------
(***************************************************************************)
(* Which sites may be read.  A domain is the sequence of its labels from   *)
(* the top, so a rule covers the domains it is a prefix of; an address is  *)
(* a domain of one label, its number.                                      *)
(***************************************************************************)
EXTENDS Integers, SequencesExt

CONSTANTS
    DeniedDomains, AllowedDomains, DeniedCategories, LocalDomains,
    CategoryOf,      \* domain_categories: a function on domains
    AllowedPorts,
    Addresses,       \* numbers in the order of (version, value)
    PublicAddresses, \* those that is_public_address accepts
    MaxRedirects

ASSUME PolicyAssumption ==
    /\ Addresses \subseteq Nat
    /\ PublicAddresses \subseteq Addresses
    /\ MaxRedirects \in 0..10
    /\ \A name \in LocalDomains : name # <<>> /\ Head(name) \notin Addresses

Covered(host, rules) == \E rule \in rules : IsPrefix(rule, host)

\* The longest rule of those that cover the host, if one does.
MostSpecific(host, rules) ==
    {rule \in rules : /\ IsPrefix(rule, host)
                      /\ \A other \in rules : IsPrefix(other, host) => Len(other) <= Len(rule)}

\* Denied domains first, then explicit allows, then denied categories.
SiteAllowed(host) ==
    /\ ~Covered(host, DeniedDomains)
    /\ \/ Covered(host, AllowedDomains)
       \/ \A rule \in MostSpecific(host, DOMAIN CategoryOf) :
             CategoryOf[rule] \notin DeniedCategories

IsLiteral(host) == Len(host) = 1 /\ Head(host) \in Addresses

IsPublic(address) == address \in PublicAddresses
=============================================================================

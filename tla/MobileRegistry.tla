--------------------------- MODULE MobileRegistry ---------------------------
(***************************************************************************)
(* pallet-mobile-registry: every account may register the public key of    *)
(* its mobile, and register again.  A key that is too short is refused     *)
(* with an error; one that is too long passes the check, and the unwrap    *)
(* after the event was deposited panics, which undoes the extrinsic.       *)
(***************************************************************************)
EXTENDS Naturals

CONSTANTS
    Accounts,
    KeyLengths,         \* lengths of the keys that are sent
    KeyNames,           \* tells keys of the same length apart
    None,               \* no entry, or no signature
    MIN_PUB_KEY_LEN,    \* bytes of the shortest key (32)
    MAX_PUB_KEY_LEN,    \* bytes that fit the storage (256)
    MaxRegistrations    \* bound: calls of an account that return Ok

ASSUME RegistryAssumption ==
    /\ KeyLengths \subseteq Nat
    /\ {MIN_PUB_KEY_LEN, MAX_PUB_KEY_LEN, MaxRegistrations} \subseteq Nat
    /\ None \notin Accounts

VARIABLES
    MobileRegistryMap,  \* account -> MobilePackage
    events,             \* the accounts of NewMobileRegistered, in how many events
    accepted            \* history: per account, how many calls returned Ok and the last key

vars == <<MobileRegistryMap, events, accepted>>

\* a public key as it is sent
PubKeys == [len : KeyLengths, name : KeyNames]

\* struct MobilePackage: BoundedVec<u8, MAX_PUB_KEY_LEN>
MobilePackage == {key \in PubKeys : key.len <= MAX_PUB_KEY_LEN}

Init ==
    /\ MobileRegistryMap = [a \in Accounts |-> None]
    /\ events = [a \in Accounts |-> 0]
    /\ accepted = [a \in Accounts |-> [count |-> 0, last |-> None]]

\* Mutant: one byte too few is enough.
ensure_pub_key_valid_OffByOne(key) == key.len + 1 >= MIN_PUB_KEY_LEN

ensure_pub_key_valid(key) == key.len >= MIN_PUB_KEY_LEN

deposit_event(who) == events' = [events EXCEPT ![who] = @ + 1]

register_mobile(who, key) ==
    /\ accepted[who].count < MaxRegistrations
    /\ ensure_pub_key_valid(key)
    /\ key \in MobilePackage
    /\ deposit_event(who)
    /\ MobileRegistryMap' = [MobileRegistryMap EXCEPT ![who] = key]
    /\ accepted' = [accepted EXCEPT ![who] = [count |-> @.count + 1, last |-> key]]

\* ensure_signed or ensure_pub_key_valid returns an error
register_mobile_fails(origin, key) ==
    /\ origin = None \/ ~ensure_pub_key_valid(key)
    /\ UNCHANGED <<MobileRegistryMap, events, accepted>>

\* Mutant: the conversion's error is returned with "?"; an Err undoes nothing.
register_mobile_panics_ReturnsErr(who, key) ==
    /\ ensure_pub_key_valid(key)
    /\ key \notin MobilePackage
    /\ deposit_event(who)
    /\ UNCHANGED <<MobileRegistryMap, accepted>>

\* Mutant: a key that is too long is cut.
register_mobile_panics_Truncates(who, key) ==
    /\ ensure_pub_key_valid(key)
    /\ key \notin MobilePackage
    /\ deposit_event(who)
    /\ MobileRegistryMap' = [MobileRegistryMap EXCEPT ![who] = [key EXCEPT !.len = MAX_PUB_KEY_LEN]]
    /\ accepted' = [accepted EXCEPT ![who] = [count |-> @.count + 1, last |-> key]]

\* try_into(..).unwrap() on a key that is too long: everything is undone
register_mobile_panics(who, key) ==
    /\ ensure_pub_key_valid(key)
    /\ key \notin MobilePackage
    /\ UNCHANGED <<MobileRegistryMap, events, accepted>>

Next ==
    \E key \in PubKeys :
        \/ \E who \in Accounts : register_mobile(who, key) \/ register_mobile_panics(who, key)
        \/ \E origin \in Accounts \cup {None} : register_mobile_fails(origin, key)

Spec == Init /\ [][Next]_vars

-----------------------------------------------------------------------------
(* Properties *)

\* Every stored key fits its BoundedVec and is at least as long as an elliptic
\* curve key, whatever register_mobile was called with.
TypeOK ==
    \A a \in Accounts :
        /\ MobileRegistryMap[a] \in MobilePackage \cup {None}
        /\ MobileRegistryMap[a] # None => MobileRegistryMap[a].len >= MIN_PUB_KEY_LEN
        /\ events[a] \in Nat

\* NewMobileRegistered is deposited before the key is stored and before the
\* conversion that may panic, and still there is one event for every call that
\* returned Ok and none for any other.
EventPerRegistration == \A a \in Accounts : events[a] = accepted[a].count

\* An account's entry is the key of its last registration that returned Ok, byte
\* for byte: a refused or panicking one in between leaves the older key usable.
StoredIsLastAccepted == \A a \in Accounts : MobileRegistryMap[a] = accepted[a].last
=============================================================================

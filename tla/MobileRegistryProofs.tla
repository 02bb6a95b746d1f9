------------------------ MODULE MobileRegistryProofs ------------------------
(***************************************************************************)
(* Theorems about MobileRegistry for every set of accounts and keys and    *)
(* every pair of length limits, also one in which no key is long enough    *)
(* and short enough.  RegistryInv is inductive: the storage map, the       *)
(* events and the history agree account by account.                        *)
(***************************************************************************)
EXTENDS MobileRegistry, TLAPS

\* the keys register_mobile may store
StorableKeys == {key \in MobilePackage : key.len >= MIN_PUB_KEY_LEN}

RegistryTypes ==
    /\ MobileRegistryMap \in [Accounts -> StorableKeys \cup {None}]
    /\ events \in [Accounts -> Nat]
    /\ accepted \in [Accounts -> [count : Nat, last : StorableKeys \cup {None}]]

RegistryInv == RegistryTypes /\ EventPerRegistration /\ StoredIsLastAccepted

\* Before the first call nothing is stored, deposited or accepted.
LEMMA RegistryInit == Init => RegistryInv
BY DEF Init, RegistryInv, RegistryTypes, EventPerRegistration, StoredIsLastAccepted

\* A call that returns Ok moves the map, the events and the history together,
\* and only those of the account that signed it.
LEMMA RegisterStep ==
  ASSUME RegistryInv, NEW who \in Accounts, NEW key \in PubKeys, register_mobile(who, key)
  PROVE  RegistryInv'
<1> USE DEF RegistryInv
<1>1. key \in StorableKeys
  BY DEF register_mobile, ensure_pub_key_valid, StorableKeys, MobilePackage
<1>2. /\ MobileRegistryMap' = [MobileRegistryMap EXCEPT ![who] = key]
      /\ events' = [events EXCEPT ![who] = events[who] + 1]
      /\ accepted' = [accepted EXCEPT ![who] = [count |-> accepted[who].count + 1, last |-> key]]
  BY DEF register_mobile, deposit_event
<1>3. RegistryTypes'
  BY <1>1, <1>2 DEF RegistryTypes
<1>4. EventPerRegistration'
  BY <1>2 DEF RegistryTypes, EventPerRegistration
<1>5. StoredIsLastAccepted'
  BY <1>2 DEF RegistryTypes, StoredIsLastAccepted
<1>6. QED
  BY <1>3, <1>4, <1>5

\* Every call keeps RegistryInv: one that is refused or that panics leaves no trace.
LEMMA RegistryStep == RegistryInv /\ [Next]_vars => RegistryInv'
<1> SUFFICES ASSUME RegistryInv, [Next]_vars PROVE RegistryInv'
  OBVIOUS
<1>1. ASSUME UNCHANGED <<MobileRegistryMap, events, accepted>> PROVE RegistryInv'
  BY <1>1 DEF RegistryInv, RegistryTypes, EventPerRegistration, StoredIsLastAccepted
<1>2. ASSUME NEW key \in PubKeys, NEW who \in Accounts, register_mobile(who, key)
      PROVE  RegistryInv'
  BY <1>2, RegisterStep
<1>3. ASSUME NEW key \in PubKeys, NEW who \in Accounts, register_mobile_panics(who, key)
      PROVE  RegistryInv'
  BY <1>3, <1>1 DEF register_mobile_panics
<1>4. ASSUME NEW key \in PubKeys, NEW origin, register_mobile_fails(origin, key)
      PROVE  RegistryInv'
  BY <1>4, <1>1 DEF register_mobile_fails
<1>5. CASE UNCHANGED vars
  BY <1>5, <1>1 DEF vars
<1>6. QED
  BY <1>2, <1>3, <1>4, <1>5 DEF Next

\* RegistryInv holds in every reachable state.
LEMMA RegistryInvariant == Spec => []RegistryInv
BY RegistryInit, RegistryStep, PTL DEF Spec

\* Whatever register_mobile is called with, a stored key fits its BoundedVec and
\* is at least MIN_PUB_KEY_LEN bytes long.
THEOREM RegistryTypeCorrect == Spec => []TypeOK
<1>1. RegistryInv => TypeOK
  BY DEF RegistryInv, RegistryTypes, StorableKeys, TypeOK
<1>2. QED
  BY <1>1, RegistryInvariant, PTL

\* NewMobileRegistered is deposited exactly once for every register_mobile that
\* returns Ok, although it is deposited before the conversion that may panic.
THEOREM EventPerRegistrationHolds == Spec => []EventPerRegistration
<1>1. RegistryInv => EventPerRegistration
  BY DEF RegistryInv
<1>2. QED
  BY <1>1, RegistryInvariant, PTL

\* The stored key is that of the account's last register_mobile that returned Ok:
\* no other account's call, no refused one and no panic replaces it.
THEOREM StoredIsLastAcceptedHolds == Spec => []StoredIsLastAccepted
<1>1. RegistryInv => StoredIsLastAccepted
  BY DEF RegistryInv
<1>2. QED
  BY <1>1, RegistryInvariant, PTL
=============================================================================

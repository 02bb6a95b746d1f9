----------------------------- MODULE OcwGarble -----------------------------
(***************************************************************************)
(* pallet-ocw-garble: a request draws the digits of a one-time code and    *)
(* the order of the pinpad's keys, and leaves them with the circuits of    *)
(* the current display package as a job for the off-chain worker.  A       *)
(* worker run has the message and the pinpad circuit garbled with these    *)
(* digits and publishes the cids and the digits with a callback, which     *)
(* stores the digits in pallet-tx-validation and appends the circuits to   *)
(* the pending list of the account that signed the callback.               *)
(*                                                                         *)
(* The worker has the control flow of pallet-ocw-circuits.  What the pool  *)
(* does with a callback (see Accepted in OcwCircuits) is here any outcome, *)
(* and so is whether a panicking run releases the lock: the properties are *)
(* about the digits, on whatever way they take.  A restart of the node     *)
(* stops its runs wherever they are and forgets its callbacks, which here  *)
(* are never included.                                                     *)
(*                                                                         *)
(* An account sends requests; that it sends a callback, or the extrinsic   *)
(* store_metadata of pallet-tx-validation, by itself is left out, although *)
(* any account may: a signing account that does can overwrite the digits   *)
(* of its own pending packages.                                            *)
(***************************************************************************)
EXTENDS Naturals, Sequences, FiniteSets, StorageLock

CONSTANTS
    Runs,              \* worker runs that may be in flight at the same time
    Users,             \* accounts that send requests
    SignerAccounts,    \* accounts of the node's keystore for KEY_TYPE "garb"
    None,              \* Option::None
    Radix,             \* keys of the pinpad (10)
    NbMessageDigits,   \* digits of a one-time code (2)
    MAX_NUMBER_PENDING_CIRCUITS_PER_ACCOUNT,
    NonceModulus,      \* the pallet's Nonce is a u64: 2^64
    MaxJobs,           \* bound: requests
    MaxBlock           \* bound: best block number

ASSUME GarbleAssumption ==
    /\ Radix \in 1 .. 10
    /\ NbMessageDigits \in 1 .. 10
    /\ MAX_NUMBER_PENDING_CIRCUITS_PER_ACCOUNT \in Nat
    /\ NonceModulus \in Nat \ {0}
    /\ MaxJobs \in Nat
    /\ MaxBlock \in Nat
    /\ IsFiniteSet(Runs)

VARIABLES
    \* chain state, of the block being built
    PackageReady,                 \* get_display_circuits_package() of pallet-ocw-circuits is Ok
    Nonce,
    AccountToPendingCircuitsMap,  \* account -> list of garbled packages
    CircuitServerMetadataMap,     \* of pallet-tx-validation
    announced,                    \* NewGarbleAndStrippedIpfsCid events: signer and message cid
    indexed,                      \* off-chain index write of the block being built
    \* node state
    block, pool, oci_mem, lock,
    \* worker runs
    pc, local,
    \* history
    nJobs,                        \* requests so far, numbered from 1
    requester,                    \* requester[j]: who sent request j
    seeds,                        \* seeds[j]: block and nonce the digits of j were drawn with
    attempts,                     \* attempts[j]: runs that took job j to its calls
    garbled                       \* what the service has garbled: cid and digits

chain == <<PackageReady, Nonce, AccountToPendingCircuitsMap, CircuitServerMetadataMap, announced>>
history == <<nJobs, requester, seeds, attempts>>
vars == <<chain, indexed, block, pool, oci_mem, lock, pc, local, history, garbled>>

-----------------------------------------------------------------------------
(* Data *)

Jobs == 1 .. MaxJobs
Accounts == Users \cup SignerAccounts

GrpcCallKind == {"GarbleStandard", "GarbleAndStrip"}

\* the digits of one request: every key once on the pinpad, any message
Pinpads == {p \in [1 .. Radix -> 0 .. Radix - 1] : \A i, j \in 1 .. Radix : p[i] = p[j] => i = j}
Messages == [1 .. NbMessageDigits -> 0 .. Radix - 1]

ASSUME NoneAssumption == None \notin [message_digits : Messages, pinpad_digits : Pinpads]

\* struct IndexingData, with the number of the job it stands for (0: none)
DefaultIndexingData ==
    [block_number |-> 0, grpc_kind |-> "GarbleStandard", job |-> 0,
     message_digits |-> None, pinpad_digits |-> None]

\* The cids of one reply: garbling is randomised, so every attempt has its own.
\* pgarbled_cid and packmsg_cid of a reply are one value here.
GarbledCid(job, attempt, part) == [job |-> job, attempt |-> attempt, part |-> part]
MessageCids == [job : Jobs, attempt : 1 .. Cardinality(Runs), part : {"message"}]
NoCid == [job |-> 0, attempt |-> 0, part |-> "none"]

PendingReply == [status |-> "pending", pgarbled_cid |-> NoCid]
ErrReply == [status |-> "err", pgarbled_cid |-> NoCid]
OkReply(c) == [status |-> "ok", pgarbled_cid |-> c]

NewLocal(b) == [block |-> b, attempt |-> 0, indexing_data |-> DefaultIndexingData,
                message |-> PendingReply, pinpad |-> PendingReply]
NoLocal == NewLocal(0)

TxV == INSTANCE TxValidation
    WITH Cids <- MessageCids, LongCids <- {}, MessageVectors <- Messages, PinpadVectors <- Pinpads,
         Inputs <- Messages, NonUtf8 <- {}, MaxDigits <- 10, LogInfo <- TRUE, MaxVerdicts <- 0,
         verdicts <- 0, last <- 0

Init ==
    /\ PackageReady = FALSE
    /\ Nonce = 0
    /\ AccountToPendingCircuitsMap = [a \in Accounts |-> <<>>]
    /\ CircuitServerMetadataMap = [k \in Accounts \X MessageCids |-> None]
    /\ announced = {}
    /\ indexed = DefaultIndexingData
    /\ block = 0
    /\ pool = {}
    /\ oci_mem = DefaultIndexingData
    /\ lock = NoLock
    /\ pc = [r \in Runs |-> "idle"]
    /\ local = [r \in Runs |-> NoLocal]
    /\ nJobs = 0
    /\ requester = [j \in Jobs |-> None]
    /\ seeds = [j \in Jobs |-> None]
    /\ attempts = [j \in Jobs |-> 0]
    /\ garbled = {}

-----------------------------------------------------------------------------
(* Requests *)

\* pallet-ocw-circuits stores a package; one with a digit count of 0 is
\* refused by get_display_circuits_package().  After the last request within
\* the bound nobody asks for it any more.
NewDisplayPackage ==
    /\ nJobs < MaxJobs
    /\ PackageReady' = ~PackageReady
    /\ UNCHANGED <<Nonce, AccountToPendingCircuitsMap, CircuitServerMetadataMap, announced,
                   indexed, block, pool, oci_mem, lock, pc, local, history, garbled>>

\* one fixed key: the last write of a block is the one that is imported
append_or_replace_skcd_hash(grpc_kind, message_digits, pinpad_digits) ==
    indexed' = [block_number |-> 1, grpc_kind |-> grpc_kind, job |-> nJobs + 1,
                message_digits |-> message_digits, pinpad_digits |-> pinpad_digits]

Request(who) ==
    /\ nJobs < MaxJobs
    /\ nJobs' = nJobs + 1
    /\ requester' = [requester EXCEPT ![nJobs + 1] = who]
    /\ UNCHANGED <<PackageReady, AccountToPendingCircuitsMap, CircuitServerMetadataMap, announced,
                   block, pool, oci_mem, lock, pc, local, attempts, garbled>>

garble_standard_signed(who) ==
    /\ Request(who)
    /\ append_or_replace_skcd_hash("GarbleStandard", None, None)
    /\ UNCHANGED <<Nonce, seeds>>

\* Mutant: the nonce is read and not written back.
get_nonce_NoIncrement ==
    /\ seeds' = [seeds EXCEPT ![nJobs + 1] = <<block, Nonce>>]
    /\ UNCHANGED Nonce

\* the digits are drawn with a generator seeded by the block and this nonce
get_and_increment_nonce ==
    /\ seeds' = [seeds EXCEPT ![nJobs + 1] = <<block, Nonce>>]
    /\ Nonce' = (Nonce + 1) % NonceModulus

\* Without a package it panics before the nonce moves: nothing changes.
garble_and_strip_display_circuits_package_signed(who) ==
    /\ PackageReady
    /\ Request(who)
    /\ get_and_increment_nonce
    /\ \E pinpad_digits \in Pinpads, message_digits \in Messages :
          append_or_replace_skcd_hash("GarbleAndStrip", message_digits, pinpad_digits)
-----------------------------------------------------------------------------
(* The callbacks, executed from the pool in the block being built.         *)

Include(tx) ==
    /\ pool' = pool \ {tx}
    /\ UNCHANGED <<PackageReady, Nonce, indexed, block, oci_mem, lock, pc, local, history, garbled>>

\* NewGarbledIpfsCid, and nothing is stored
callback_new_garbled_signed(tx) ==
    /\ tx.grpc_kind = "GarbleStandard"
    /\ Include(tx)
    /\ UNCHANGED <<AccountToPendingCircuitsMap, CircuitServerMetadataMap, announced>>

\* struct DisplayStrippedCircuitsPackage
DisplayStrippedCircuitsPackage(tx) ==
    [message_pgarbled_cid |-> tx.message.pgarbled_cid, pinpad_pgarbled_cid |-> tx.pinpad.pgarbled_cid,
     message_nb_digits |-> Len(tx.message_digits)]

\* Mutant: one package too many fits.
PendingIsFull_OffByOne(who) ==
    Len(AccountToPendingCircuitsMap[who]) = MAX_NUMBER_PENDING_CIRCUITS_PER_ACCOUNT + 1

PendingIsFull(who) ==
    Len(AccountToPendingCircuitsMap[who]) = MAX_NUMBER_PENDING_CIRCUITS_PER_ACCOUNT

\* The event, the digits for check_input and the pending list.  All of it is for
\* the account that signed the callback.
callback_new_garbled_and_strip_signed(tx) ==
    /\ tx.grpc_kind = "GarbleAndStrip"
    /\ ~PendingIsFull(tx.account)
    /\ Include(tx)
    /\ announced' = announced \cup {<<tx.account, tx.message.pgarbled_cid>>}
    /\ TxV!store_metadata_aux(tx.account, tx.message.pgarbled_cid,
                              tx.message_digits, tx.pinpad_digits)
    /\ AccountToPendingCircuitsMap' =
           [AccountToPendingCircuitsMap EXCEPT ![tx.account] =
               Append(@, DisplayStrippedCircuitsPackage(tx))]

\* Mutant: a full list is an error returned after the digits are stored; an Err
\* rolls nothing back.
callback_panics_ReturnsErr(tx) ==
    /\ tx.grpc_kind = "GarbleAndStrip"
    /\ PendingIsFull(tx.account)
    /\ Include(tx)
    /\ announced' = announced \cup {<<tx.account, tx.message.pgarbled_cid>>}
    /\ TxV!store_metadata_aux(tx.account, tx.message.pgarbled_cid,
                              tx.message_digits, tx.pinpad_digits)
    /\ UNCHANGED AccountToPendingCircuitsMap

\* try_push(..).unwrap() on a full list: the extrinsic is rolled back and dropped
callback_panics(tx) ==
    /\ tx.grpc_kind = "GarbleAndStrip"
    /\ PendingIsFull(tx.account)
    /\ Include(tx)
    /\ UNCHANGED <<AccountToPendingCircuitsMap, CircuitServerMetadataMap, announced>>

-----------------------------------------------------------------------------
(* The node *)

ImportBlock ==
    /\ block < MaxBlock
    /\ block' = block + 1
    /\ oci_mem' = IF indexed.block_number = 0 THEN oci_mem ELSE indexed
    /\ indexed' = DefaultIndexingData
    /\ UNCHANGED <<chain, pool, lock, pc, local, history, garbled>>

LockTimeout ==
    /\ lock.held /\ ~lock.timedOut
    /\ lock' = TimedOut(lock)
    /\ UNCHANGED <<chain, indexed, block, pool, oci_mem, pc, local, history, garbled>>

-----------------------------------------------------------------------------
(* A worker run: offchain_worker -> process_if_needed.                     *)

Goto(r, label) == pc' = [pc EXCEPT ![r] = label]

Return(r) ==
    /\ Goto(r, "idle")
    /\ local' = [local EXCEPT ![r] = NoLocal]

offchain_worker(r) ==
    /\ pc[r] = "idle"
    /\ block > 0
    /\ Goto(r, "started")
    /\ local' = [local EXCEPT ![r] = NewLocal(block)]
    /\ UNCHANGED <<chain, indexed, block, pool, oci_mem, lock, history, garbled>>

\* oci_mem.get(): nothing to do, or the job is kept until the lock is tried
ReadJob(r) ==
    /\ pc[r] = "started"
    /\ \/ /\ oci_mem.block_number = 0
          /\ Return(r)
       \/ /\ oci_mem.block_number # 0
          /\ Goto(r, "loaded")
          /\ local' = [local EXCEPT ![r].indexing_data = oci_mem]
    /\ UNCHANGED <<chain, indexed, block, pool, oci_mem, lock, history, garbled>>

try_lock(r) ==
    /\ pc[r] = "loaded"
    /\ \/ /\ CanLock(lock, local[r].block)
          /\ lock' = LockOf(local[r].block)
          /\ Goto(r, "locked")
          /\ UNCHANGED local
       \/ /\ ~CanLock(lock, local[r].block)
          /\ Return(r)
          /\ UNCHANGED lock
    /\ UNCHANGED <<chain, indexed, block, pool, oci_mem, history, garbled>>

\* Mutant: the job stays in the entry while it is worked on.
ClearSlot_KeepsJob(r) ==
    LET j == local[r].indexing_data.job
    IN  /\ pc[r] = "locked"
        /\ attempts' = [attempts EXCEPT ![j] = @ + 1]
        /\ local' = [local EXCEPT ![r].attempt = attempts[j] + 1]
        /\ Goto(r, "calling")
        /\ UNCHANGED <<chain, indexed, block, pool, oci_mem, lock,
                       nJobs, requester, seeds, garbled>>

\* oci_mem.set(default), whatever is there by now
ClearSlot(r) ==
    LET j == local[r].indexing_data.job
    IN  /\ pc[r] = "locked"
        /\ oci_mem' = DefaultIndexingData
        /\ attempts' = [attempts EXCEPT ![j] = @ + 1]
        /\ local' = [local EXCEPT ![r].attempt = attempts[j] + 1]
        /\ Goto(r, "calling")
        /\ UNCHANGED <<chain, indexed, block, pool, lock, nJobs, requester, seeds, garbled>>

\* native code unwinds and releases the lock, a wasm trap leaves it
Panic(r) ==
    /\ Return(r)
    /\ lock' \in {NoLock, lock}
    /\ UNCHANGED <<chain, indexed, block, pool, oci_mem, history, garbled>>

Data(r) == local[r].indexing_data

\* what a call of the garbling service gives back
RemoteReplies(r, part) ==
    {ErrReply, OkReply(GarbledCid(Data(r).job, local[r].attempt, part))}

\* a circuit exists that shows these digits
ServiceGarbles(reply, digits) ==
    garbled' = IF reply.status = "ok"
               THEN garbled \cup {[cid |-> reply.pgarbled_cid, digits |-> digits]}
               ELSE garbled

call_grpc_garble(r) ==
    /\ pc[r] = "calling" /\ Data(r).grpc_kind = "GarbleStandard"
    /\ \/ /\ \E reply \in RemoteReplies(r, "circuit") :
                /\ ServiceGarbles(reply, None)
                /\ local' = [local EXCEPT ![r].message = reply]
          /\ Goto(r, "finalize")
          /\ UNCHANGED <<chain, indexed, block, pool, oci_mem, lock, history>>
       \/ Panic(r)

\* the first call of call_grpc_garble_and_strip; its error is kept, not returned
call_grpc_garble_and_strip_message(r) ==
    /\ pc[r] = "calling" /\ Data(r).grpc_kind = "GarbleAndStrip"
    /\ \/ /\ \E reply \in RemoteReplies(r, "message") :
                /\ ServiceGarbles(reply, Data(r).message_digits)
                /\ local' = [local EXCEPT ![r].message = reply]
          /\ Goto(r, "calling_pinpad")
          /\ UNCHANGED <<chain, indexed, block, pool, oci_mem, lock, history>>
       \/ Panic(r)

\* the second call; then both replies are expected to be Ok
call_grpc_garble_and_strip_pinpad(r) ==
    /\ pc[r] = "calling_pinpad"
    /\ \/ /\ local[r].message.status = "ok"
          /\ \E reply \in RemoteReplies(r, "pinpad") :
                /\ reply.status = "ok"
                /\ ServiceGarbles(reply, Data(r).pinpad_digits)
                /\ local' = [local EXCEPT ![r].pinpad = reply]
          /\ Goto(r, "finalize")
          /\ UNCHANGED <<chain, indexed, block, pool, oci_mem, lock, history>>
       \/ Panic(r)

-----------------------------------------------------------------------------
(* finalize_grpc_call: a callback per account, with the digits of the run's *)
(* own job; the pool takes any of them, the outcome is ignored.             *)

\* Mutant: the callback carries the keys in order, not as they were shuffled.
CallbackTx_Unshuffled(r, a) ==
    [account |-> a, grpc_kind |-> Data(r).grpc_kind,
     message |-> local[r].message, message_digits |-> Data(r).message_digits,
     pinpad |-> local[r].pinpad, pinpad_digits |-> [i \in 1 .. Radix |-> i - 1]]

CallbackTx(r, a) ==
    [account |-> a, grpc_kind |-> Data(r).grpc_kind,
     message |-> local[r].message, message_digits |-> Data(r).message_digits,
     pinpad |-> local[r].pinpad, pinpad_digits |-> Data(r).pinpad_digits]

finalize_grpc_call(r) ==
    /\ pc[r] = "finalize"
    /\ \/ /\ local[r].message.status = "ok"
          /\ \E accepted \in SUBSET SignerAccounts :
                pool' = pool \cup {CallbackTx(r, a) : a \in accepted}
       \/ /\ local[r].message.status = "err"
          /\ UNCHANGED pool
    /\ Goto(r, "unlock")
    /\ UNCHANGED <<chain, indexed, block, oci_mem, lock, local, history, garbled>>

Unlock(r) ==
    /\ pc[r] = "unlock"
    /\ lock' = NoLock
    /\ Return(r)
    /\ UNCHANGED <<chain, indexed, block, pool, oci_mem, history, garbled>>

\* The node stops: the run is gone, what it has stored stays, the lock included.
NodeStops(r) ==
    /\ pc[r] # "idle"
    /\ Return(r)
    /\ UNCHANGED <<chain, indexed, block, pool, oci_mem, lock, history, garbled>>

-----------------------------------------------------------------------------
Extrinsic ==
    \/ \E who \in Users : \/ garble_standard_signed(who)
                          \/ garble_and_strip_display_circuits_package_signed(who)
    \/ \E tx \in pool : \/ callback_new_garbled_signed(tx)
                        \/ callback_new_garbled_and_strip_signed(tx)
                        \/ callback_panics(tx)

RunStep(r) ==
    \/ offchain_worker(r)
    \/ ReadJob(r)
    \/ try_lock(r)
    \/ ClearSlot(r)
    \/ call_grpc_garble(r)
    \/ call_grpc_garble_and_strip_message(r)
    \/ call_grpc_garble_and_strip_pinpad(r)
    \/ finalize_grpc_call(r)
    \/ Unlock(r)
    \/ NodeStops(r)

Next ==
    \/ NewDisplayPackage
    \/ Extrinsic
    \/ ImportBlock
    \/ LockTimeout
    \/ \E r \in Runs : RunStep(r)

Spec == Init /\ [][Next]_vars

-----------------------------------------------------------------------------
(* Properties *)

\* The variables have their types; a pending list is within its bound.
TypeOK ==
    /\ PackageReady \in BOOLEAN
    /\ Nonce \in 0 .. NonceModulus - 1
    /\ \A a \in Accounts :
          Len(AccountToPendingCircuitsMap[a]) <= MAX_NUMBER_PENDING_CIRCUITS_PER_ACCOUNT
    /\ \A k \in Accounts \X MessageCids :
          CircuitServerMetadataMap[k] \in
              [message_digits : Messages, pinpad_digits : Pinpads] \cup {None}
    /\ announced \subseteq SignerAccounts \X MessageCids
    /\ indexed.job \in 0 .. nJobs /\ oci_mem.job \in 0 .. nJobs
    /\ lock \in Lock

\* the digits the service garbled into the circuit of a cid
ShownBy(cid) == {g.digits : g \in {h \in garbled : h.cid = cid}}

PendingPackages(a) == {AccountToPendingCircuitsMap[a][i] : i \in DOMAIN AccountToPendingCircuitsMap[a]}

\* End to end: for every package in an account's pending list, the digits that
\* check_input compares with are those its message circuit and its own pinpad
\* circuit show, and exactly one sequence of keys passes, however requests,
\* doubled runs and callbacks interleave.
PendingCodeIsChecked ==
    \A a \in Accounts : \A p \in PendingPackages(a) :
        LET entry == CircuitServerMetadataMap[<<a, p.message_pgarbled_cid>>]
        IN  /\ entry # None
            /\ ShownBy(p.message_pgarbled_cid) = {entry.message_digits}
            /\ ShownBy(p.pinpad_pgarbled_cid) = {entry.pinpad_digits}
            /\ p.message_nb_digits = Len(entry.message_digits)
            /\ Cardinality({code \in Messages : TxV!CheckResult(entry, code) = "Ok"}) = 1

\* Event, digits and pending list are written together or not at all, also when
\* the callback panics on a full list after it has written the digits.
CallbackAllOrNothing ==
    \A a \in Accounts, cid \in MessageCids :
        LET isPending == \E p \in PendingPackages(a) : p.message_pgarbled_cid = cid
        IN  /\ isPending <=> CircuitServerMetadataMap[<<a, cid>>] # None
            /\ isPending <=> <<a, cid>> \in announced

\* Two requests never draw their digits with the same seed: get_and_increment_
\* nonce separates the requests of one block, and no run or callback moves it.
SeedsDistinct ==
    \A i, j \in Jobs : i # j /\ seeds[i] # None => seeds[i] # seeds[j]

\* "the list of pending txs for a given Account": the packages in an account's
\* list answer requests of that account.  Violated: the requester is not part
\* of the job, and the callback files it under the account that signs it.
PendingBelongsToRequester ==
    \A a \in Accounts : \A p \in PendingPackages(a) :
        requester[p.message_pgarbled_cid.job] = a
=============================================================================

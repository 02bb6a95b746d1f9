---------------------------- MODULE OcwCircuits ----------------------------
(***************************************************************************)
(* pallet-ocw-circuits: a user extrinsic leaves a job in one fixed key of  *)
(* the off-chain storage (through off-chain indexing, hence when its block *)
(* is imported); an off-chain worker run, started for an imported block,   *)
(* takes the job under a storage lock, calls the circuit generation        *)
(* service over grpc-web and publishes the reply with a signed callback    *)
(* extrinsic, which deposits an event and, in display mode, replaces the   *)
(* reference package that pallet-ocw-garble reads.                         *)
(*                                                                         *)
(* Several runs may be in flight at once (a run is started per best block, *)
(* blocks come every 6 s and a run may make two calls of up to 10 s).      *)
(* Everything a run does between two accesses to shared state is one step. *)
(***************************************************************************)
EXTENDS Naturals, FiniteSets, StorageLock

CONSTANTS
    Runs,              \* worker runs that may be in flight at the same time
    VerilogCids,       \* the verilog cids users submit
    NbDigits,          \* the nb_digits the remote service may return
    Users,             \* accounts that submit extrinsics
    SignerAccounts,    \* accounts of the node's keystore for KEY_TYPE "circ"
    Executors,         \* subset of {"native", "wasm"}: how a run is executed
    EnvVars,           \* environment variables set in the node's process
    None,              \* Option::None
    MaxJobs,           \* bound: jobs submitted
    MaxBlock,          \* bound: best block number
    MaxCrashes         \* bound: node restarts

ASSUME ConstantsAssumption ==
    /\ NbDigits \subseteq Nat
    /\ Executors \subseteq {"native", "wasm"}
    /\ MaxJobs \in Nat
    /\ MaxBlock \in Nat
    /\ MaxCrashes \in Nat
    /\ None \notin VerilogCids
    /\ None \notin Nat

\* a node has finitely many runs in flight and keys in its keystore
ASSUME FinitenessAssumption == IsFiniteSet(Runs) /\ IsFiniteSet(SignerAccounts)

VARIABLES
    \* chain state, of the block being built
    DisplaySkcdPackageValue,  \* the storage value of the pallet
    deposited,                \* deposited[j]: events deposited with a result of job j
    nonce,                    \* account nonces
    indexed,                  \* off-chain index write of the block being built
    \* node state
    block,                    \* number of the best block
    bestNonce,                \* account nonces in the state of the best block
    pool,                     \* callback transactions waiting in the pool
    oci_mem,                  \* the job entry of the off-chain storage
    lock,                     \* the lock entry of the off-chain storage
    \* worker runs
    pc,                       \* where each run is
    local,                    \* the local variables of each run
    \* history
    nJobs,                    \* jobs submitted so far, numbered from 1
    attempts,                 \* attempts[j]: runs that took job j to its calls
    clobbered,                \* jobs erased from oci_mem by a run that never read them
    stolen,                   \* a run took the lock over from an expired entry
    abandoned,                \* a run ended without releasing the lock
    crashes                   \* node restarts so far

chain == <<DisplaySkcdPackageValue, deposited, nonce, indexed>>
node == <<block, bestNonce, pool, oci_mem, lock>>
worker == <<pc, local>>
history == <<nJobs, attempts, clobbered, stolen, abandoned, crashes>>
vars == <<chain, node, worker, history>>

-----------------------------------------------------------------------------
(* Data *)

Jobs == 1 .. MaxJobs

\* enum GrpcCallKind
GrpcCallKind == {"Generic", "Display"}

\* struct IndexingData, with the number of the job it stands for (0: none)
IndexingData ==
    [verilog_ipfs_hash : VerilogCids \cup {None}, block_number : 0 .. 1,
     grpc_kind : GrpcCallKind, job : Nat]

DefaultIndexingData ==
    [verilog_ipfs_hash |-> None, block_number |-> 0, grpc_kind |-> "Generic", job |-> 0]

\* the ipfs cid of a generated circuit: the job and which of its circuits
Cid == [job : Nat, part : {"none", "skcd", "message", "pinpad"}]
NoCid == [job |-> 0, part |-> "none"]

\* Result<SkcdGenericFromIpfsReply or SkcdDisplayReply, Error>; a missing
\* server_metadata is nb_digits = None
Reply == [status : {"pending", "err", "ok"}, skcd_cid : Cid, nb_digits : NbDigits \cup {None}]
PendingReply == [status |-> "pending", skcd_cid |-> NoCid, nb_digits |-> None]
ErrReply == [status |-> "err", skcd_cid |-> NoCid, nb_digits |-> None]
OkReply(c, n) == [status |-> "ok", skcd_cid |-> c, nb_digits |-> n]

\* struct DisplaySkcdPackage
DisplaySkcdPackage ==
    [message_skcd_cid : Cid, message_skcd_server_metadata_nb_digits : Nat,
     pinpad_skcd_cid : Cid, pinpad_skcd_server_metadata_nb_digits : Nat]

DefaultDisplaySkcdPackage ==
    [message_skcd_cid |-> NoCid, message_skcd_server_metadata_nb_digits |-> 0,
     pinpad_skcd_cid |-> NoCid, pinpad_skcd_server_metadata_nb_digits |-> 0]

\* a signed callback transaction; a Generic one carries its circuit in "message"
Tx == [account : SignerAccounts, nonce : Nat, grpc_kind : GrpcCallKind,
       message : Reply, pinpad : Reply]

\* local variables of a run: the block it was started for, the account nonces
\* of that block's state, the executor, indexing_data and the replies
Local == [block : Nat, nonce : [SignerAccounts -> Nat], executor : {"native", "wasm"},
          indexing_data : IndexingData, message : Reply, pinpad : Reply]

NewLocal(b, nonces, executor) ==
    [block |-> b, nonce |-> nonces, executor |-> executor, indexing_data |-> DefaultIndexingData,
     message |-> PendingReply, pinpad |-> PendingReply]

NoLocal == NewLocal(0, [a \in SignerAccounts |-> 0], "native")

-----------------------------------------------------------------------------
Init ==
    /\ DisplaySkcdPackageValue = DefaultDisplaySkcdPackage
    /\ deposited = [j \in Jobs |-> 0]
    /\ nonce = [a \in SignerAccounts |-> 0]
    /\ indexed = DefaultIndexingData
    /\ block = 0
    /\ bestNonce = [a \in SignerAccounts |-> 0]
    /\ pool = {}
    /\ oci_mem = DefaultIndexingData
    /\ lock = NoLock
    /\ pc = [r \in Runs |-> "idle"]
    /\ local = [r \in Runs |-> NoLocal]
    /\ nJobs = 0
    /\ attempts = [j \in Jobs |-> 0]
    /\ clobbered = {}
    /\ stolen = FALSE
    /\ abandoned = FALSE
    /\ crashes = 0

-----------------------------------------------------------------------------
(* Extrinsics of users.  An extrinsic of an account that also signs        *)
(* callbacks moves that account's nonce; the pool would refuse it while a  *)
(* callback with the same nonce waits.                                     *)

BumpNonce(who) == [a \in SignerAccounts |-> IF a = who THEN nonce[a] + 1 ELSE nonce[a]]

\* one fixed key: the last write of a block is the one that is imported
append_or_replace_verilog_hash(verilog_cid, grpc_kind) ==
    /\ indexed' = [verilog_ipfs_hash |-> verilog_cid, block_number |-> 1,
                   grpc_kind |-> grpc_kind, job |-> nJobs + 1]
    /\ nJobs' = nJobs + 1

submit_config(who, verilog_cid, grpc_kind) ==
    /\ nJobs < MaxJobs
    /\ \A tx \in pool : tx.account # who
    /\ append_or_replace_verilog_hash(verilog_cid, grpc_kind)
    /\ nonce' = BumpNonce(who)
    /\ UNCHANGED <<DisplaySkcdPackageValue, deposited, node, worker,
                   attempts, clobbered, stolen, abandoned, crashes>>

submit_config_generic_signed(who, verilog_cid) ==
    submit_config(who, verilog_cid, "Generic")

submit_config_display_circuits_package_signed(who) ==
    submit_config(who, None, "Display")

-----------------------------------------------------------------------------
(* The callbacks, executed from the pool in the block being built.         *)

Include(tx) ==
    /\ tx.nonce = nonce[tx.account]
    /\ pool' = pool \ {tx}
    /\ nonce' = BumpNonce(tx.account)
    /\ UNCHANGED <<indexed, block, bestNonce, oci_mem, lock, worker, history>>

\* Mutant: the event is deposited by the callback and by a helper it calls.
deposit_event_Twice(job) == deposited' = [deposited EXCEPT ![job] = @ + 2]

deposit_event(job) == deposited' = [deposited EXCEPT ![job] = @ + 1]

\* NewSkcdIpfsCid
callback_new_skcd_signed(tx) ==
    /\ tx.grpc_kind = "Generic"
    /\ Include(tx)
    /\ deposit_event(tx.message.skcd_cid.job)
    /\ UNCHANGED DisplaySkcdPackageValue

\* Mutant: only the message circuit of the reference package is updated.
callback_new_display_MessageOnly(tx) ==
    /\ tx.grpc_kind = "Display"
    /\ Include(tx)
    /\ deposit_event(tx.message.skcd_cid.job)
    /\ DisplaySkcdPackageValue' =
           [DisplaySkcdPackageValue EXCEPT
               !.message_skcd_cid = tx.message.skcd_cid,
               !.message_skcd_server_metadata_nb_digits = tx.message.nb_digits]

\* NewDisplaySkcdPackageIpfsCid, and the reference package is replaced
callback_new_display_circuits_package_signed(tx) ==
    /\ tx.grpc_kind = "Display"
    /\ Include(tx)
    /\ deposit_event(tx.message.skcd_cid.job)
    /\ DisplaySkcdPackageValue' =
           [message_skcd_cid |-> tx.message.skcd_cid,
            message_skcd_server_metadata_nb_digits |-> tx.message.nb_digits,
            pinpad_skcd_cid |-> tx.pinpad.skcd_cid,
            pinpad_skcd_server_metadata_nb_digits |-> tx.pinpad.nb_digits]

-----------------------------------------------------------------------------
(* The node.                                                               *)

\* the block being built becomes the best block; its off-chain index write
\* reaches the off-chain storage
ImportBlock ==
    /\ block < MaxBlock
    /\ block' = block + 1
    /\ bestNonce' = nonce
    /\ oci_mem' = IF indexed.block_number = 0 THEN oci_mem ELSE indexed
    /\ indexed' = DefaultIndexingData
    /\ UNCHANGED <<DisplaySkcdPackageValue, deposited, nonce, pool, lock, worker, history>>

LockTimeout ==
    /\ lock.held /\ ~lock.timedOut
    /\ lock' = TimedOut(lock)
    /\ UNCHANGED <<chain, block, bestNonce, pool, oci_mem, worker, history>>

InCriticalSection(r) == pc[r] \in {"locked", "calling", "calling_pinpad", "finalize", "unlock"}

\* The node stops and starts again: runs and pool are gone, the off-chain
\* storage stays.  A crash that also loses an unfinished block is this step
\* taken before the extrinsics of that block.
Crash ==
    /\ crashes < MaxCrashes
    /\ indexed = DefaultIndexingData /\ nonce = bestNonce
    /\ crashes' = crashes + 1
    /\ pool' = {}
    /\ pc' = [r \in Runs |-> "idle"]
    /\ local' = [r \in Runs |-> NoLocal]
    /\ abandoned' = (abandoned \/ \E r \in Runs : InCriticalSection(r))
    /\ UNCHANGED <<chain, block, bestNonce, oci_mem, lock, nJobs, attempts, clobbered, stolen>>

-----------------------------------------------------------------------------
(* A worker run: offchain_worker -> process_if_needed.                     *)

Goto(r, label) == pc' = [pc EXCEPT ![r] = label]

Return(r) ==
    /\ Goto(r, "idle")
    /\ local' = [local EXCEPT ![r] = NoLocal]

\* Runs may be skipped, doubled and late: any number per block, at any time.
offchain_worker(r) ==
    /\ pc[r] = "idle"
    /\ block > 0
    /\ Goto(r, "started")
    /\ \E executor \in Executors :
          local' = [local EXCEPT ![r] = NewLocal(block, bestNonce, executor)]
    /\ UNCHANGED <<chain, node, history>>

\* oci_mem.get(), "nothing to do, returning..."
NothingToDo(r) ==
    /\ pc[r] = "started"
    /\ oci_mem.block_number = 0
    /\ Return(r)
    /\ UNCHANGED <<chain, node, history>>

\* Mutant: the job is taken out of the entry when it is read, before the lock.
ReadJob_Takes(r) ==
    /\ pc[r] = "started"
    /\ oci_mem.block_number # 0
    /\ Goto(r, "loaded")
    /\ local' = [local EXCEPT ![r].indexing_data = oci_mem]
    /\ oci_mem' = DefaultIndexingData
    /\ UNCHANGED <<chain, block, bestNonce, pool, lock, history>>

\* oci_mem.get(), before the lock is taken
ReadJob(r) ==
    /\ pc[r] = "started"
    /\ oci_mem.block_number # 0
    /\ Goto(r, "loaded")
    /\ local' = [local EXCEPT ![r].indexing_data = oci_mem]
    /\ UNCHANGED <<chain, node, history>>

\* Mutant: "if lock.try_lock().is_ok()" drops the guard before the locked part.
try_lock_GuardDropped(r) ==
    /\ pc[r] = "loaded"
    /\ CanLock(lock, local[r].block)
    /\ lock' = NoLock
    /\ Goto(r, "locked")
    /\ UNCHANGED <<chain, block, bestNonce, pool, oci_mem, local, history>>

try_lock(r) ==
    /\ pc[r] = "loaded"
    /\ CanLock(lock, local[r].block)
    /\ lock' = LockOf(local[r].block)
    /\ Goto(r, "locked")
    /\ stolen' = (stolen \/ lock.held)
    /\ UNCHANGED <<chain, block, bestNonce, pool, oci_mem, local,
                   nJobs, attempts, clobbered, abandoned, crashes>>

\* another run has the lock: process_if_needed returns
try_lock_fails(r) ==
    /\ pc[r] = "loaded"
    /\ ~CanLock(lock, local[r].block)
    /\ Return(r)
    /\ UNCHANGED <<chain, node, history>>

\* Mutant: the job stays in the entry while it is worked on.
ClearSlot_KeepsJob(r) ==
    /\ pc[r] = "locked"
    /\ attempts' = [attempts EXCEPT ![local[r].indexing_data.job] = @ + 1]
    /\ Goto(r, "calling")
    /\ UNCHANGED <<chain, node, local, nJobs, clobbered, stolen, abandoned, crashes>>

\* oci_mem.set(default), whatever is there by now
ClearSlot(r) ==
    /\ pc[r] = "locked"
    /\ oci_mem' = DefaultIndexingData
    /\ clobbered' = IF oci_mem.job \in {0, local[r].indexing_data.job}
                    THEN clobbered ELSE clobbered \cup {oci_mem.job}
    /\ attempts' = [attempts EXCEPT ![local[r].indexing_data.job] = @ + 1]
    /\ Goto(r, "calling")
    /\ UNCHANGED <<chain, block, bestNonce, pool, lock, local,
                   nJobs, stolen, abandoned, crashes>>

\* A panic ends the run.  Native code unwinds, and the guard releases the
\* lock on the way; a wasm trap runs no destructor and leaves it.
Panic(r) ==
    /\ Return(r)
    /\ lock' = IF local[r].executor = "native" THEN NoLock ELSE lock
    /\ abandoned' = (abandoned \/ local[r].executor = "wasm")
    /\ UNCHANGED <<chain, block, bestNonce, pool, oci_mem,
                   nJobs, attempts, clobbered, stolen, crashes>>

\* What fetch_from_remote_grpc_web and decode_body give back.  The wasm build
\* has no environment and sends to "PLACEHOLDER_no_std", which fails.
RemoteReplies(r, uri_root, part, digits) ==
    IF local[r].executor = "wasm" THEN {ErrReply}
    ELSE IF uri_root \notin EnvVars THEN {}
    ELSE {ErrReply} \cup {OkReply([job |-> local[r].indexing_data.job, part |-> part], n) : n \in digits}

\* A missing variable, a reply without content-type or a truncated body panics.
RemoteCallPanics(r) == local[r].executor = "native" /\ Panic(r)

Kind(r) == local[r].indexing_data.grpc_kind

call_grpc_generic(r) ==
    /\ pc[r] = "calling" /\ Kind(r) = "Generic"
    /\ \/ /\ \E reply \in RemoteReplies(r, "aaa", "skcd", {None}) :
                local' = [local EXCEPT ![r].message = reply]
          /\ Goto(r, "finalize")
          /\ UNCHANGED <<chain, node, history>>
       \/ RemoteCallPanics(r)

\* the first call of call_grpc_display; its error is kept, not returned
call_grpc_display_message(r) ==
    /\ pc[r] = "calling" /\ Kind(r) = "Display"
    /\ \/ /\ \E reply \in RemoteReplies(r, "INTERSTELLAR_URI_ROOT_API_CIRCUITS", "message",
                                          NbDigits \cup {None}) :
                local' = [local EXCEPT ![r].message = reply]
          /\ Goto(r, "calling_pinpad")
          /\ UNCHANGED <<chain, node, history>>
       \/ RemoteCallPanics(r)

\* the second call; then both replies are expected to be Ok
call_grpc_display_pinpad(r) ==
    /\ pc[r] = "calling_pinpad"
    /\ \/ \E reply \in RemoteReplies(r, "INTERSTELLAR_URI_ROOT_API_CIRCUITS", "pinpad",
                                       NbDigits \cup {None}) :
             IF local[r].message.status = "ok" /\ reply.status = "ok"
             THEN /\ local' = [local EXCEPT ![r].pinpad = reply]
                  /\ Goto(r, "finalize")
                  /\ UNCHANGED <<chain, node, history>>
             ELSE Panic(r)
       \/ RemoteCallPanics(r)

-----------------------------------------------------------------------------
(* finalize_grpc_call: one transaction per account of the keystore, with   *)
(* the nonce of the state the run was started in.  The pool refuses a      *)
(* nonce that is used; of two transactions with one nonce it keeps the one *)
(* with the higher priority, the older one when they are equal.  The       *)
(* outcome is ignored.                                                     *)

CallbackTx(r, a) ==
    [account |-> a, nonce |-> local[r].nonce[a], grpc_kind |-> Kind(r),
     message |-> local[r].message, pinpad |-> local[r].pinpad]

\* without a tip, priority falls with the encoded length; a Generic callback
\* has one cid, a Display one has two and the digit counts
Outbids(tx, other) == tx.grpc_kind = "Generic" /\ other.grpc_kind = "Display"

Accepted(tx) ==
    /\ tx.nonce = nonce[tx.account]
    /\ \A other \in pool : other.account = tx.account => Outbids(tx, other)

\* the pool after txs were submitted to it
Submit(txs) ==
    LET accepted == {tx \in txs : Accepted(tx)}
    IN  {old \in pool : \A tx \in accepted : tx.account # old.account} \cup accepted

\* Mutant: a reply without server_metadata is sent on.
MetadataMissing_Ignored(r) == FALSE /\ r \in Runs

\* server_metadata.unwrap() in the closure, run once per account
MetadataMissing(r) ==
    /\ SignerAccounts # {}
    /\ Kind(r) = "Display"
    /\ None \in {local[r].message.nb_digits, local[r].pinpad.nb_digits}

send_signed_transaction(r) ==
    /\ pc[r] = "finalize"
    /\ local[r].message.status = "ok"
    /\ ~MetadataMissing(r)
    /\ pool' = Submit({CallbackTx(r, a) : a \in SignerAccounts})
    /\ Goto(r, "unlock")
    /\ UNCHANGED <<chain, block, bestNonce, oci_mem, lock, local, history>>

finalize_panics(r) ==
    /\ pc[r] = "finalize"
    /\ local[r].message.status = "ok"
    /\ MetadataMissing(r)
    /\ Panic(r)

\* the error is only logged
finalize_error(r) ==
    /\ pc[r] = "finalize"
    /\ local[r].message.status = "err"
    /\ Goto(r, "unlock")
    /\ UNCHANGED <<chain, node, local, history>>

\* Mutant: the guard outlives the run (mem::forget, or a leaked lock).
Unlock_Forgotten(r) ==
    /\ pc[r] = "unlock"
    /\ Return(r)
    /\ UNCHANGED <<chain, node, history>>

\* Mutant: a job whose call failed is put back for a retry.
Unlock_RetriesJob(r) ==
    /\ pc[r] = "unlock"
    /\ lock' = NoLock
    /\ oci_mem' = IF local[r].message.status = "err" THEN local[r].indexing_data ELSE oci_mem
    /\ Return(r)
    /\ UNCHANGED <<chain, block, bestNonce, pool, history>>

\* the guard goes out of scope: the entry is erased, whoever wrote it
Unlock(r) ==
    /\ pc[r] = "unlock"
    /\ lock' = NoLock
    /\ Return(r)
    /\ UNCHANGED <<chain, block, bestNonce, pool, oci_mem, history>>

-----------------------------------------------------------------------------
User ==
    \E who \in Users :
        \/ \E cid \in VerilogCids : submit_config_generic_signed(who, cid)
        \/ submit_config_display_circuits_package_signed(who)

Author ==
    \E tx \in pool :
        \/ callback_new_skcd_signed(tx)
        \/ callback_new_display_circuits_package_signed(tx)

RunStep(r) ==
    \/ NothingToDo(r)
    \/ ReadJob(r)
    \/ try_lock(r)
    \/ try_lock_fails(r)
    \/ ClearSlot(r)
    \/ call_grpc_generic(r)
    \/ call_grpc_display_message(r)
    \/ call_grpc_display_pinpad(r)
    \/ send_signed_transaction(r)
    \/ finalize_panics(r)
    \/ finalize_error(r)
    \/ Unlock(r)

Next ==
    \/ User
    \/ Author
    \/ ImportBlock
    \/ LockTimeout
    \/ Crash
    \/ \E r \in Runs : offchain_worker(r) \/ RunStep(r)

Spec == Init /\ [][Next]_vars

\* Blocks keep coming, every best block that is not skipped starts a run, a
\* started run goes on (each call has a deadline), and time passes.
Fairness ==
    /\ WF_vars(ImportBlock)
    /\ WF_vars(LockTimeout)
    /\ WF_vars(\E r \in Runs : offchain_worker(r))
    /\ \A r \in Runs : WF_vars(RunStep(r))

FairSpec == Spec /\ Fairness

-----------------------------------------------------------------------------
(* Properties *)

Labels == {"idle", "started", "loaded", "locked", "calling", "calling_pinpad", "finalize", "unlock"}

ChainTypeOK ==
    /\ DisplaySkcdPackageValue \in DisplaySkcdPackage
    /\ deposited \in [Jobs -> Nat]
    /\ nonce \in [SignerAccounts -> Nat]
    /\ indexed \in IndexingData

NodeTypeOK ==
    /\ block \in Nat
    /\ bestNonce \in [SignerAccounts -> Nat]
    /\ pool \subseteq Tx
    /\ oci_mem \in IndexingData
    /\ lock \in Lock

WorkerTypeOK ==
    /\ pc \in [Runs -> Labels]
    /\ local \in [Runs -> Local]

HistoryTypeOK ==
    /\ nJobs \in 0 .. MaxJobs
    /\ attempts \in [Jobs -> Nat]
    /\ clobbered \subseteq Jobs
    /\ stolen \in BOOLEAN
    /\ abandoned \in BOOLEAN
    /\ crashes \in Nat

\* Every variable has the type the code gives it; in particular the digit
\* counts stored on chain are numbers, although a reply may lack them.
TypeOK == ChainTypeOK /\ NodeTypeOK /\ WorkerTypeOK /\ HistoryTypeOK

\* the run has cleared the slot and works on its job
Working(r) == pc[r] \in {"calling", "calling_pinpad", "finalize", "unlock"}

\* "remove the task from the job queue whether it worked or not": once a run
\* works on a job, that job is in no storage entry any more, so neither a
\* panic, nor a crash, nor a later block can make another run read it again.
CalledJobIsGone ==
    \A r \in Runs : Working(r) => local[r].indexing_data.job \notin {oci_mem.job, indexed.job}

\* The storage lock keeps runs out of process_if_needed's locked part one
\* from another as long as no run has outlived its deadline.
MutualExclusion ==
    ~stolen => \A r, s \in Runs : InCriticalSection(r) /\ InCriticalSection(s) => r = s

\* The lock is never left behind by a run that ended, except after a wasm
\* trap or a node crash: every early return, error path and native panic
\* of process_if_needed releases it.
LockHasOwner ==
    lock.held /\ ~stolen /\ ~abandoned => \E r \in Runs : InCriticalSection(r)

\* The newest job is still stored, or some run took it to its calls, or a run
\* that held an older job erased it (ClearSlot of a stale reader): there is no
\* other way for submit_config_*_signed to come to nothing.
NewestJobAccounted ==
    nJobs > 0 => \/ nJobs \in {indexed.job, oci_mem.job}
                 \/ attempts[nJobs] > 0
                 \/ nJobs \in clobbered

\* A job is taken to its calls at most once by each run that read it before a run
\* cleared its entry: restarts, panics and later runs never add another attempt.
AttemptsBounded == \A j \in Jobs : attempts[j] <= Cardinality(Runs)

\* A job's result is on chain at most once per attempt and signing account:
\* no callback is replayed, and none exists for a job no run has worked on.
PublishedOncePerAttempt ==
    \A j \in Jobs : deposited[j] <= attempts[j] * Cardinality(SignerAccounts)

\* The reference package pairs the message and the pinpad circuit of one job,
\* one whose result was published, however runs and callbacks interleave.
PackageFromOneJob ==
    LET m == DisplaySkcdPackageValue.message_skcd_cid
        p == DisplaySkcdPackageValue.pinpad_skcd_cid
    IN  \/ DisplaySkcdPackageValue = DefaultDisplaySkcdPackage
        \/ /\ m.job = p.job /\ m.part = "message" /\ p.part = "pinpad"
           /\ deposited[m.job] > 0

\* A stored job leaves the storage entry: a run takes it (or a newer job or
\* a stale reader replaces it), even when the lock was left behind by a trap
\* or by the last crash of the node, thanks to the lock's deadline.  The block
\* bound leaves the blocks a left-behind lock needs to expire.
PendingJobTaken ==
    \A j \in Jobs :
        (oci_mem.job = j /\ crashes = MaxCrashes /\ block + LOCK_BLOCK_EXPIRATION < MaxBlock)
            ~> (oci_mem.job # j)

\* "for some the worker runs twice (re-orgs), so the code should be able to
\* handle that": a job is not worked on twice.  Violated: the job is read
\* before the lock is taken and not read again.
TwiceRunHandled == \A j \in Jobs : attempts[j] <= 1

\* "Publish the result back via send_signed_transaction": the first run that
\* finalizes an Ok result of a job has its callback in the pool.  Violated: the
\* nonce of the run's own block may be used by then, or waiting with a callback of
\* the same priority, and the outcome is ignored.
ResultIsPublished ==
    [][\A r \in Runs :
         (/\ pc[r] = "finalize" /\ local[r].message.status = "ok" /\ pc'[r] = "unlock"
          /\ attempts[local[r].indexing_data.job] = 1)
         => \A a \in SignerAccounts : CallbackTx(r, a) \in pool']_vars
=============================================================================

------------------------- MODULE OcwCircuitsProofs -------------------------
(***************************************************************************)
(* Theorems about OcwCircuits for every number of runs, jobs, blocks,      *)
(* restarts, accounts and cids.  Three inductive invariants carry them:    *)
(*   - TypeInv: the types, plus what makes them inductive (callbacks of    *)
(*     the pool have their digit counts, no job number is from the future);*)
(*   - JobInv: where the job of a run that is past the lock can still be;  *)
(*   - LockInv: what the lock entry says while nobody outlived a deadline. *)
(* One lemma per action shows that the action preserves the invariant.     *)
(***************************************************************************)
EXTENDS OcwCircuits, TLAPS

\* the pool only holds display callbacks whose server_metadata was present
PoolHasDigits ==
    \A tx \in pool : tx.grpc_kind = "Display" =>
        tx.message.nb_digits # None /\ tx.pinpad.nb_digits # None

\* no entry or run holds a job that was not submitted; the index write of the
\* block being built is the newest job
JobNumbers ==
    /\ indexed.job \in {0, nJobs}
    /\ oci_mem.job <= nJobs
    /\ \A r \in Runs : local[r].indexing_data.job <= nJobs

TypeInv == TypeOK /\ PoolHasDigits /\ JobNumbers

\* The cleared entry of the off-chain storage is a well-typed IndexingData.
LEMMA DefaultIndexingDataType == DefaultIndexingData \in IndexingData
  BY DEF DefaultIndexingData, IndexingData, GrpcCallKind

\* The replies of a call not made yet and of a failed call are replies.
LEMMA ReplyTypes == PendingReply \in Reply /\ ErrReply \in Reply
  BY DEF PendingReply, ErrReply, NoCid, Reply, Cid

\* A run starts with well-typed local variables and with no job.
LEMMA NewLocalType ==
  ASSUME NEW b \in Nat, NEW n \in [SignerAccounts -> Nat], NEW e \in {"native", "wasm"}
  PROVE  NewLocal(b, n, e) \in Local /\ NewLocal(b, n, e).indexing_data.job = 0
<1>1. DefaultIndexingData.job = 0
  BY DEF DefaultIndexingData
<1>2. QED
  BY <1>1, DefaultIndexingDataType, ReplyTypes DEF NewLocal, Local

\* The same for a run that is not there.
LEMMA NoLocalType == NoLocal \in Local /\ NoLocal.indexing_data.job = 0
  BY NewLocalType DEF NoLocal

\* The erased lock entry is a lock entry.
LEMMA NoLockType == NoLock \in Lock
  BY DEF NoLock, Lock

\* Counting one more event or attempt keeps a per-job counter well typed.
LEMMA CounterType ==
  ASSUME NEW f \in [Jobs -> Nat], NEW j
  PROVE  [f EXCEPT ![j] = @ + 1] \in [Jobs -> Nat]
<1> DEFINE g == [f EXCEPT ![j] = @ + 1]
<1>1. g = [k \in Jobs |-> IF k = j THEN f[j] + 1 ELSE f[k]]
  BY Zenon
<1>2. \A k \in Jobs : g[k] \in Nat
  BY <1>1
<1>3. QED
  BY <1>1, <1>2

\* The initial state has the types.
LEMMA TypeInit == Init => TypeInv
<1> SUFFICES ASSUME Init PROVE TypeInv
  OBVIOUS
<1> USE ConstantsAssumption DEF Init
<1>1. ChainTypeOK
  BY DefaultIndexingDataType
  DEF ChainTypeOK, DefaultDisplaySkcdPackage, DisplaySkcdPackage, Cid, NoCid
<1>2. NodeTypeOK
  BY DefaultIndexingDataType, NoLockType DEF NodeTypeOK
<1>3. WorkerTypeOK
  BY NoLocalType DEF WorkerTypeOK, Labels
<1>4. HistoryTypeOK
  <2>1. nJobs \in 0 .. MaxJobs /\ attempts \in [Jobs -> Nat] /\ crashes \in Nat
    OBVIOUS
  <2>2. clobbered \subseteq Jobs /\ stolen \in BOOLEAN /\ abandoned \in BOOLEAN
    BY Zenon
  <2>3. QED
    BY <2>1, <2>2, Zenon DEF HistoryTypeOK
<1>5. PoolHasDigits
  BY DEF PoolHasDigits
<1>6. JobNumbers
  BY NoLocalType DEF JobNumbers, DefaultIndexingData
<1>7. QED
  BY <1>1, <1>2, <1>3, <1>4, <1>5, <1>6, Zenon DEF TypeInv, TypeOK

\* A run that returns leaves well-typed program counters and local variables.
LEMMA ReturnType ==
  ASSUME WorkerTypeOK, NEW r \in Runs, Return(r)
  PROVE  WorkerTypeOK' /\ \A s \in Runs : local'[s] \in {local[s], NoLocal}
BY NoLocalType DEF WorkerTypeOK, Labels, Return, Goto

\* A panic of a run, native or wasm, keeps the types.
LEMMA PanicType ==
  ASSUME TypeInv, NEW r \in Runs, Panic(r)
  PROVE  TypeInv'
<1> USE DEF TypeInv, TypeOK, Panic, chain
<1>1. ChainTypeOK'
  BY DEF ChainTypeOK
<1>2. NodeTypeOK'
  BY NoLockType DEF NodeTypeOK
<1>3. WorkerTypeOK'
  BY ReturnType
<1>4. HistoryTypeOK'
  BY Zenon DEF HistoryTypeOK
<1>5. PoolHasDigits'
  BY DEF PoolHasDigits
<1>6. JobNumbers'
  BY ReturnType, NoLocalType DEF JobNumbers, HistoryTypeOK
<1>7. QED
  BY <1>1, <1>2, <1>3, <1>4, <1>5, <1>6, Zenon

\* An action of a run that only moves its program counter and its own
\* indexing_data and replies keeps the types.
LEMMA LocalStepType ==
  ASSUME TypeInv, NEW r \in Runs, NEW l \in Local, NEW label \in Labels,
         Goto(r, label), local' = [local EXCEPT ![r] = l],
         l.indexing_data.job <= nJobs,
         UNCHANGED <<chain, node, history>>
  PROVE  TypeInv'
<1> USE DEF TypeInv, TypeOK, chain, node, history
<1>1. ChainTypeOK' /\ NodeTypeOK'
  BY DEF ChainTypeOK, NodeTypeOK
<1>2. WorkerTypeOK'
  BY DEF WorkerTypeOK, Goto
<1>3. HistoryTypeOK'
  BY Zenon DEF HistoryTypeOK
<1>4. PoolHasDigits'
  BY DEF PoolHasDigits
<1>5. JobNumbers'
  BY DEF JobNumbers, WorkerTypeOK
<1>6. QED
  BY <1>1, <1>2, <1>3, <1>4, <1>5, Zenon

\* Whatever the remote service answers decodes to a well-typed reply.
LEMMA RemoteRepliesType ==
  ASSUME WorkerTypeOK, NEW r \in Runs, NEW uri_root, NEW part \in {"skcd", "message", "pinpad"},
         NEW digits \in SUBSET (NbDigits \cup {None})
  PROVE  RemoteReplies(r, uri_root, part, digits) \subseteq Reply
BY ReplyTypes
DEF RemoteReplies, OkReply, Reply, Cid, WorkerTypeOK, Local, IndexingData

\* The step in which a run keeps its label's successor and a reply.
LEMMA ReplyStepType ==
  ASSUME TypeInv, NEW r \in Runs, NEW label \in Labels, NEW reply \in Reply,
         Goto(r, label),
         \/ local' = [local EXCEPT ![r].message = reply]
         \/ local' = [local EXCEPT ![r].pinpad = reply],
         UNCHANGED <<chain, node, history>>
  PROVE  TypeInv'
<1> USE DEF TypeInv, TypeOK
<1>1. local[r] \in Local /\ local[r].indexing_data.job <= nJobs
  BY DEF WorkerTypeOK, JobNumbers
<1>2. CASE local' = [local EXCEPT ![r].message = reply]
  <2> DEFINE l == [local[r] EXCEPT !.message = reply]
  <2>1. l \in Local /\ l.indexing_data.job <= nJobs
    BY <1>1 DEF Local
  <2>2. local' = [local EXCEPT ![r] = l]
    BY <1>2
  <2> HIDE DEF l
  <2>3. QED
    BY <2>1, <2>2, LocalStepType
<1>3. CASE local' = [local EXCEPT ![r].pinpad = reply]
  <2> DEFINE l == [local[r] EXCEPT !.pinpad = reply]
  <2>1. l \in Local /\ l.indexing_data.job <= nJobs
    BY <1>1 DEF Local
  <2>2. local' = [local EXCEPT ![r] = l]
    BY <1>3
  <2> HIDE DEF l
  <2>3. QED
    BY <2>1, <2>2, LocalStepType
<1>4. QED
  BY <1>2, <1>3

\* Return(r) with everything else unchanged.
LEMMA ReturnStepType ==
  ASSUME TypeInv, NEW r \in Runs, Return(r), UNCHANGED <<chain, node, history>>
  PROVE  TypeInv'
<1>1. NoLocal \in Local /\ NoLocal.indexing_data.job <= nJobs /\ "idle" \in Labels
  BY NoLocalType DEF Labels, TypeInv, TypeOK, HistoryTypeOK
<1>2. QED
  BY <1>1, LocalStepType DEF Return

\* A step that leaves every variable alone.
LEMMA StutterType == ASSUME TypeInv, UNCHANGED vars PROVE TypeInv'
<1> USE DEF TypeInv, TypeOK, vars, chain, node, worker, history
<1>1. ChainTypeOK' /\ NodeTypeOK' /\ WorkerTypeOK'
  BY DEF ChainTypeOK, NodeTypeOK, WorkerTypeOK
<1>2. HistoryTypeOK'
  BY Zenon DEF HistoryTypeOK
<1>3. PoolHasDigits' /\ JobNumbers'
  BY DEF PoolHasDigits, JobNumbers
<1>4. QED
  BY <1>1, <1>2, <1>3, Zenon

\* submit_config_*_signed keeps the types, and its job is the newest.
LEMMA UserType ==
  ASSUME TypeInv, NEW who, NEW cid \in VerilogCids \cup {None}, NEW kind \in GrpcCallKind,
         submit_config(who, cid, kind)
  PROVE  TypeInv'
<1> USE ConstantsAssumption DEF TypeInv, TypeOK, submit_config, append_or_replace_verilog_hash,
    node, worker
<1>1. ChainTypeOK'
  BY DEF ChainTypeOK, BumpNonce, IndexingData, HistoryTypeOK
<1>2. NodeTypeOK' /\ WorkerTypeOK'
  BY DEF NodeTypeOK, WorkerTypeOK
<1>3. HistoryTypeOK'
  <2>1. nJobs' \in 0 .. MaxJobs
    BY DEF HistoryTypeOK
  <2>2. QED
    BY <2>1, Zenon DEF HistoryTypeOK
<1>4. PoolHasDigits'
  BY DEF PoolHasDigits
<1>5. JobNumbers'
  BY DEF JobNumbers, HistoryTypeOK, NodeTypeOK, WorkerTypeOK, IndexingData, Local
<1>6. QED
  BY <1>1, <1>2, <1>3, <1>4, <1>5, Zenon

\* A callback taken from the pool keeps the types: its digit counts are numbers.
LEMMA AuthorType ==
  ASSUME TypeInv, NEW tx \in pool,
         callback_new_skcd_signed(tx) \/ callback_new_display_circuits_package_signed(tx)
  PROVE  TypeInv'
<1> USE DEF TypeInv, TypeOK
<1>1. Include(tx) /\ deposit_event(tx.message.skcd_cid.job) /\ tx \in Tx
  BY DEF callback_new_skcd_signed, callback_new_display_circuits_package_signed, NodeTypeOK
<1>2. DisplaySkcdPackageValue' \in DisplaySkcdPackage
  <2>1. CASE callback_new_skcd_signed(tx)
    BY <2>1 DEF callback_new_skcd_signed, ChainTypeOK
  <2>2. CASE callback_new_display_circuits_package_signed(tx)
    <3>1. tx.message \in Reply /\ tx.pinpad \in Reply
      BY <1>1 DEF Tx
    <3>2. tx.message.nb_digits \in Nat /\ tx.pinpad.nb_digits \in Nat
      BY <2>2, <3>1, ConstantsAssumption
      DEF PoolHasDigits, Reply, callback_new_display_circuits_package_signed
    <3>3. QED
      BY <2>2, <3>1, <3>2
      DEF callback_new_display_circuits_package_signed, DisplaySkcdPackage, Reply
  <2>3. QED
    BY <2>1, <2>2
<1>3. ChainTypeOK'
  <2>1. deposited' \in [Jobs -> Nat]
    BY <1>1, CounterType DEF ChainTypeOK, deposit_event
  <2>2. nonce' \in [SignerAccounts -> Nat]
    BY <1>1 DEF ChainTypeOK, Include, BumpNonce
  <2>3. indexed' \in IndexingData
    BY <1>1 DEF ChainTypeOK, Include
  <2>4. QED
    BY <1>2, <2>1, <2>2, <2>3 DEF ChainTypeOK
<1>4. NodeTypeOK' /\ WorkerTypeOK' /\ PoolHasDigits'
  BY <1>1 DEF NodeTypeOK, WorkerTypeOK, Include, worker, PoolHasDigits
<1>5. HistoryTypeOK'
  BY <1>1, Zenon DEF HistoryTypeOK, Include, history
<1>6. JobNumbers'
  BY <1>1 DEF JobNumbers, Include, worker, history
<1>7. QED
  BY <1>3, <1>4, <1>5, <1>6, Zenon

\* Importing a block keeps the types.
LEMMA ImportBlockType == ASSUME TypeInv, ImportBlock PROVE TypeInv'
<1> USE DEF TypeInv, TypeOK, ImportBlock, worker, history
<1>1. ChainTypeOK' /\ NodeTypeOK' /\ WorkerTypeOK'
  BY DefaultIndexingDataType DEF ChainTypeOK, NodeTypeOK, WorkerTypeOK
<1>2. HistoryTypeOK'
  BY Zenon DEF HistoryTypeOK
<1>3. PoolHasDigits' /\ JobNumbers'
  BY DEF PoolHasDigits, JobNumbers, HistoryTypeOK, DefaultIndexingData
<1>4. QED
  BY <1>1, <1>2, <1>3, Zenon

\* The passing of time keeps the types.
LEMMA LockTimeoutType == ASSUME TypeInv, LockTimeout PROVE TypeInv'
<1> USE DEF TypeInv, TypeOK, LockTimeout, chain, worker, history
<1>1. ChainTypeOK' /\ WorkerTypeOK'
  BY DEF ChainTypeOK, WorkerTypeOK
<1>2. NodeTypeOK'
  BY DEF NodeTypeOK, Lock, TimedOut
<1>3. HistoryTypeOK'
  BY Zenon DEF HistoryTypeOK
<1>4. PoolHasDigits' /\ JobNumbers'
  BY DEF PoolHasDigits, JobNumbers
<1>5. QED
  BY <1>1, <1>2, <1>3, <1>4, Zenon

\* A restart of the node keeps the types.
LEMMA CrashType == ASSUME TypeInv, Crash PROVE TypeInv'
<1> USE DEF TypeInv, TypeOK, Crash, chain
<1>1. ChainTypeOK' /\ NodeTypeOK'
  BY DEF ChainTypeOK, NodeTypeOK
<1>2. WorkerTypeOK'
  BY NoLocalType DEF WorkerTypeOK, Labels
<1>3. HistoryTypeOK'
  <2>1. crashes' \in Nat
    BY DEF HistoryTypeOK
  <2>2. abandoned' \in BOOLEAN
    BY Zenon
  <2>3. QED
    BY <2>1, <2>2, Zenon DEF HistoryTypeOK
<1>4. PoolHasDigits' /\ JobNumbers'
  BY NoLocalType DEF PoolHasDigits, JobNumbers, HistoryTypeOK
<1>5. QED
  BY <1>1, <1>2, <1>3, <1>4, Zenon

\* Starting a run keeps the types.
LEMMA OffchainWorkerType ==
  ASSUME TypeInv, NEW r \in Runs, offchain_worker(r) PROVE TypeInv'
<1>1. PICK executor \in Executors :
        local' = [local EXCEPT ![r] = NewLocal(block, bestNonce, executor)]
  BY DEF offchain_worker
<1> DEFINE l == NewLocal(block, bestNonce, executor)
<1>2. l \in Local /\ l.indexing_data.job = 0
  BY NewLocalType, ConstantsAssumption DEF TypeInv, TypeOK, NodeTypeOK
<1>3. l.indexing_data.job <= nJobs
  BY <1>2 DEF TypeInv, TypeOK, HistoryTypeOK
<1>4. Goto(r, "started") /\ "started" \in Labels /\ UNCHANGED <<chain, node, history>>
  BY DEF offchain_worker, Labels
<1>5. QED
  BY <1>1, <1>2, <1>3, <1>4, LocalStepType

\* Reading the job entry keeps the types.
LEMMA ReadJobType ==
  ASSUME TypeInv, NEW r \in Runs, ReadJob(r) PROVE TypeInv'
<1> DEFINE l == [local[r] EXCEPT !.indexing_data = oci_mem]
<1>1. l \in Local /\ l.indexing_data.job <= nJobs
  BY DEF Local, TypeInv, TypeOK, NodeTypeOK, WorkerTypeOK, JobNumbers
<1>2. local' = [local EXCEPT ![r] = l] /\ Goto(r, "loaded") /\ "loaded" \in Labels
  BY DEF ReadJob, Labels
<1>3. UNCHANGED <<chain, node, history>>
  BY DEF ReadJob
<1> HIDE DEF l
<1>4. QED
  BY <1>1, <1>2, <1>3, LocalStepType

\* Taking the lock keeps the types.
LEMMA TryLockType ==
  ASSUME TypeInv, NEW r \in Runs, try_lock(r) PROVE TypeInv'
<1> USE DEF TypeInv, TypeOK, try_lock, chain
<1>1. ChainTypeOK'
  BY DEF ChainTypeOK
<1>2. NodeTypeOK'
  BY LockBlockExpirationAssumption DEF NodeTypeOK, LockOf, Lock, WorkerTypeOK, Local
<1>3. WorkerTypeOK'
  BY DEF WorkerTypeOK, Goto, Labels
<1>4. HistoryTypeOK'
  <2>1. stolen' \in BOOLEAN
    BY Zenon
  <2>2. QED
    BY <2>1, Zenon DEF HistoryTypeOK
<1>5. PoolHasDigits' /\ JobNumbers'
  BY DEF PoolHasDigits, JobNumbers
<1>6. QED
  BY <1>1, <1>2, <1>3, <1>4, <1>5, Zenon

\* Clearing the job entry keeps the types.
LEMMA ClearSlotType ==
  ASSUME TypeInv, NEW r \in Runs, ClearSlot(r) PROVE TypeInv'
<1> USE DEF TypeInv, TypeOK, ClearSlot, chain
<1>1. ChainTypeOK'
  BY DEF ChainTypeOK
<1>2. NodeTypeOK' /\ WorkerTypeOK'
  BY DefaultIndexingDataType DEF NodeTypeOK, WorkerTypeOK, Goto, Labels
<1>3. HistoryTypeOK'
  <2>1. attempts' \in [Jobs -> Nat]
    BY CounterType DEF HistoryTypeOK
  <2>2. clobbered' \subseteq Jobs
    <3>1. oci_mem.job \in Nat /\ oci_mem.job <= nJobs /\ nJobs \in Nat /\ nJobs <= MaxJobs
      BY ConstantsAssumption DEF HistoryTypeOK, NodeTypeOK, JobNumbers, IndexingData
    <3>2. oci_mem.job # 0 => oci_mem.job \in Jobs
      BY <3>1, ConstantsAssumption DEF Jobs
    <3>3. QED
      BY <3>2 DEF HistoryTypeOK
  <2>3. QED
    BY <2>1, <2>2, Zenon DEF HistoryTypeOK
<1>4. PoolHasDigits' /\ JobNumbers'
  BY DEF PoolHasDigits, JobNumbers, HistoryTypeOK, DefaultIndexingData
<1>5. QED
  BY <1>1, <1>2, <1>3, <1>4, Zenon

\* finalize_grpc_call sends only callbacks whose digit counts are present.
LEMMA SendType ==
  ASSUME TypeInv, NEW r \in Runs, send_signed_transaction(r) PROVE TypeInv'
<1> USE DEF TypeInv, TypeOK, send_signed_transaction, chain, history
<1>1. ChainTypeOK' /\ WorkerTypeOK'
  BY DEF ChainTypeOK, WorkerTypeOK, Goto, Labels
<1>2. \A a \in SignerAccounts : CallbackTx(r, a) \in Tx
  BY DEF CallbackTx, Tx, Kind, WorkerTypeOK, Local, IndexingData
<1>0. \A tx \in pool' : tx \in pool \/ \E a \in SignerAccounts : tx = CallbackTx(r, a)
  BY DEF Submit
<1>3. NodeTypeOK'
  BY <1>0, <1>2 DEF NodeTypeOK
<1>4. HistoryTypeOK'
  BY Zenon DEF HistoryTypeOK
<1>5. PoolHasDigits'
  BY <1>0 DEF PoolHasDigits, CallbackTx, MetadataMissing
<1>6. JobNumbers'
  BY DEF JobNumbers
<1>7. QED
  BY <1>1, <1>3, <1>4, <1>5, <1>6, Zenon

\* Dropping the guard keeps the types.
LEMMA UnlockType ==
  ASSUME TypeInv, NEW r \in Runs, Unlock(r) PROVE TypeInv'
<1> USE DEF TypeInv, TypeOK, Unlock, chain, history
<1>1. ChainTypeOK' /\ NodeTypeOK' /\ WorkerTypeOK'
  BY ReturnType, NoLockType DEF ChainTypeOK, NodeTypeOK
<1>2. HistoryTypeOK'
  BY Zenon DEF HistoryTypeOK
<1>3. PoolHasDigits' /\ JobNumbers'
  BY ReturnType, NoLocalType DEF PoolHasDigits, JobNumbers, HistoryTypeOK
<1>4. QED
  BY <1>1, <1>2, <1>3, Zenon

\* Every step of a run keeps the types.
LEMMA RunStepType ==
  ASSUME TypeInv, NEW r \in Runs, RunStep(r) PROVE TypeInv'
<1> USE DEF TypeInv, TypeOK
<1>1. CASE NothingToDo(r)
  BY <1>1, ReturnStepType DEF NothingToDo
<1>2. CASE ReadJob(r)
  BY <1>2, ReadJobType
<1>3. CASE try_lock(r)
  BY <1>3, TryLockType
<1>4. CASE try_lock_fails(r)
  BY <1>4, ReturnStepType DEF try_lock_fails
<1>5. CASE ClearSlot(r)
  BY <1>5, ClearSlotType
<1>6. CASE call_grpc_generic(r)
  <2>1. CASE RemoteCallPanics(r)
    BY <2>1, PanicType DEF RemoteCallPanics
  <2>2. CASE ~RemoteCallPanics(r)
    <3>1. PICK reply \in RemoteReplies(r, "aaa", "skcd", {None}) :
            local' = [local EXCEPT ![r].message = reply]
      BY <1>6, <2>2 DEF call_grpc_generic
    <3>2. reply \in Reply
      BY RemoteRepliesType
    <3>3. Goto(r, "finalize") /\ "finalize" \in Labels /\ UNCHANGED <<chain, node, history>>
      BY <1>6, <2>2 DEF call_grpc_generic, Labels
    <3>4. QED
      BY <3>1, <3>2, <3>3, ReplyStepType
  <2>3. QED
    BY <2>1, <2>2
<1>7. CASE call_grpc_display_message(r)
  <2>1. CASE RemoteCallPanics(r)
    BY <2>1, PanicType DEF RemoteCallPanics
  <2>2. CASE ~RemoteCallPanics(r)
    <3>1. PICK reply \in RemoteReplies(r, "INTERSTELLAR_URI_ROOT_API_CIRCUITS", "message",
                                       NbDigits \cup {None}) :
            local' = [local EXCEPT ![r].message = reply]
      BY <1>7, <2>2 DEF call_grpc_display_message
    <3>2. reply \in Reply
      BY RemoteRepliesType
    <3>3. /\ Goto(r, "calling_pinpad") /\ "calling_pinpad" \in Labels
          /\ UNCHANGED <<chain, node, history>>
      BY <1>7, <2>2 DEF call_grpc_display_message, Labels
    <3>4. QED
      BY <3>1, <3>2, <3>3, ReplyStepType
  <2>3. QED
    BY <2>1, <2>2
<1>8. CASE call_grpc_display_pinpad(r)
  <2>1. CASE Panic(r)
    BY <2>1, PanicType
  <2>2. CASE ~Panic(r)
    <3>1. PICK reply \in RemoteReplies(r, "INTERSTELLAR_URI_ROOT_API_CIRCUITS", "pinpad",
                                       NbDigits \cup {None}) :
            /\ local' = [local EXCEPT ![r].pinpad = reply]
            /\ Goto(r, "finalize")
            /\ UNCHANGED <<chain, node, history>>
      BY <1>8, <2>2 DEF call_grpc_display_pinpad, RemoteCallPanics
    <3>2. reply \in Reply /\ "finalize" \in Labels
      BY RemoteRepliesType DEF Labels
    <3>3. QED
      BY <3>1, <3>2, ReplyStepType
  <2>3. QED
    BY <2>1, <2>2
<1>9. CASE send_signed_transaction(r)
  BY <1>9, SendType
<1>10. CASE finalize_panics(r)
  BY <1>10, PanicType DEF finalize_panics
<1>11. CASE finalize_error(r)
  <2>1. local' = [local EXCEPT ![r] = local[r]] /\ local[r] \in Local
    BY <1>11 DEF finalize_error, WorkerTypeOK
  <2>2. /\ Goto(r, "unlock") /\ "unlock" \in Labels
        /\ UNCHANGED <<chain, node, history>> /\ local[r].indexing_data.job <= nJobs
    BY <1>11 DEF finalize_error, Labels, JobNumbers
  <2>3. QED
    BY <2>1, <2>2, LocalStepType
<1>12. CASE Unlock(r)
  BY <1>12, UnlockType
<1>13. QED
  BY <1>1, <1>2, <1>3, <1>4, <1>5, <1>6, <1>7, <1>8, <1>9, <1>10, <1>11, <1>12 DEF RunStep

\* Every step keeps the types.
LEMMA TypeStep == TypeInv /\ [Next]_vars => TypeInv'
<1> SUFFICES ASSUME TypeInv, [Next]_vars PROVE TypeInv'
  OBVIOUS
<1>1. CASE User
  <2>1. PICK who \in Users :
          \/ \E cid \in VerilogCids : submit_config_generic_signed(who, cid)
          \/ submit_config_display_circuits_package_signed(who)
    BY <1>1 DEF User
  <2>2. QED
    BY <2>1, UserType
    DEF submit_config_generic_signed, submit_config_display_circuits_package_signed, GrpcCallKind
<1>2. CASE Author
  BY <1>2, AuthorType DEF Author
<1>3. CASE ImportBlock
  BY <1>3, ImportBlockType
<1>4. CASE LockTimeout
  BY <1>4, LockTimeoutType
<1>5. CASE Crash
  BY <1>5, CrashType
<1>6. ASSUME NEW r \in Runs, offchain_worker(r) PROVE TypeInv'
  BY <1>6, OffchainWorkerType
<1>7. ASSUME NEW r \in Runs, RunStep(r) PROVE TypeInv'
  BY <1>7, RunStepType
<1>8. CASE UNCHANGED vars
  BY <1>8, StutterType
<1>9. QED
  BY <1>1, <1>2, <1>3, <1>4, <1>5, <1>6, <1>7, <1>8 DEF Next

\* The types hold in every reachable state.  The strengthening says why the
\* digit counts stored by callback_new_display_circuits_package_signed are
\* numbers: finalize_grpc_call panics before it sends a callback without them.
THEOREM TypeCorrect == Spec => []TypeOK
<1>1. Spec => []TypeInv
  BY TypeInit, TypeStep, PTL DEF Spec
<1>2. TypeInv => TypeOK
  BY DEF TypeInv
<1>3. QED
  BY <1>1, <1>2, PTL
-----------------------------------------------------------------------------
(* A job is taken away before it is worked on.                             *)

\* the run holds a job it read from the storage entry
Holding(r) == pc[r] \in {"loaded", "locked"} \/ Working(r)

\* an entry without a job is the default one; the entry and the index write
\* never hold the same job; no run holds the job of the index write
JobInv ==
    /\ indexed.block_number = 0 <=> indexed.job = 0
    /\ oci_mem.block_number = 0 <=> oci_mem.job = 0
    /\ indexed.job # 0 => indexed.job # oci_mem.job
    /\ \A r \in Runs : Holding(r) => /\ local[r].indexing_data.job # 0
                                    /\ local[r].indexing_data.job # indexed.job
    /\ CalledJobIsGone

\* the step leaves run s with the job it held, or with none
SameJob(s) ==
    \/ pc'[s] \in {"idle", "started"}
    \/ /\ local'[s].indexing_data = local[s].indexing_data
       /\ Holding(s)' => Holding(s)
       /\ Working(s)' => Working(s)

\* JobInv holds before the first block.
LEMMA JobInit == Init => JobInv
BY DEF Init, JobInv, CalledJobIsGone, Holding, Working, DefaultIndexingData

\* A step that moves no job keeps JobInv.
LEMMA SameJobStep ==
  ASSUME JobInv, UNCHANGED <<indexed, oci_mem>>, \A s \in Runs : SameJob(s)
  PROVE  JobInv'
BY DEF JobInv, CalledJobIsGone, SameJob, Holding, Working

\* A new submission has a number no run works on.
LEMMA UserJob ==
  ASSUME TypeInv, JobInv, NEW who, NEW cid, NEW kind, submit_config(who, cid, kind)
  PROVE  JobInv'
<1> USE DEF submit_config, append_or_replace_verilog_hash, node, worker
<1>1. nJobs \in Nat /\ oci_mem.job \in Nat /\ oci_mem.job <= nJobs
  BY ConstantsAssumption DEF TypeInv, TypeOK, HistoryTypeOK, NodeTypeOK, JobNumbers, IndexingData
<1>2. indexed'.job = nJobs + 1 /\ indexed'.block_number = 1
  OBVIOUS
<1>3. \A r \in Runs : /\ local[r].indexing_data.job \in Nat
                      /\ local[r].indexing_data.job <= nJobs
  BY DEF TypeInv, TypeOK, WorkerTypeOK, Local, IndexingData, JobNumbers
<1>4. QED
  BY <1>1, <1>2, <1>3 DEF JobInv, CalledJobIsGone, Holding, Working

\* Importing the index write of a block keeps JobInv.
LEMMA ImportBlockJob ==
  ASSUME JobInv, ImportBlock PROVE JobInv'
BY DEF JobInv, CalledJobIsGone, Holding, Working, ImportBlock, worker, DefaultIndexingData

\* A run that reads the entry is not past the lock yet.
LEMMA ReadJobJob ==
  ASSUME TypeInv, JobInv, NEW r \in Runs, ReadJob(r) PROVE JobInv'
<1> USE DEF ReadJob, chain, node, Goto
<1>1. pc'[r] = "loaded" /\ local'[r].indexing_data = oci_mem
  BY DEF TypeInv, TypeOK, WorkerTypeOK, Local
<1>2. \A s \in Runs \ {r} : pc'[s] = pc[s] /\ local'[s] = local[s]
  BY DEF TypeInv, TypeOK, WorkerTypeOK
<1>3. QED
  BY <1>1, <1>2 DEF JobInv, CalledJobIsGone, Holding, Working

\* Clearing the entry removes the job the run goes on to work on.
LEMMA ClearSlotJob ==
  ASSUME TypeInv, JobInv, NEW r \in Runs, ClearSlot(r) PROVE JobInv'
<1> USE DEF ClearSlot, chain, Goto
<1>1. oci_mem'.job = 0 /\ oci_mem'.block_number = 0 /\ UNCHANGED <<indexed, local>>
  BY DEF DefaultIndexingData
<1>2. \A s \in Runs : Holding(s)' => Holding(s)
  BY DEF TypeInv, TypeOK, WorkerTypeOK, Holding, Working
<1>3. QED
  BY <1>1, <1>2 DEF JobInv, CalledJobIsGone, Holding, Working

\* A run that returns moves no job.
LEMMA ReturnSameJob ==
  ASSUME TypeInv, NEW r \in Runs, Return(r) PROVE \A s \in Runs : SameJob(s)
BY DEF TypeInv, TypeOK, WorkerTypeOK, Return, Goto, SameJob, Holding, Working

\* a run that goes on working on its job
LEMMA AdvanceSameJob ==
  ASSUME TypeInv, NEW r \in Runs, NEW label \in Labels, Goto(r, label),
         Holding(r), pc[r] \in {"loaded", "locked"} => label = "locked",
         \/ UNCHANGED local
         \/ \E reply : local' = [local EXCEPT ![r].message = reply]
         \/ \E reply : local' = [local EXCEPT ![r].pinpad = reply]
  PROVE  \A s \in Runs : SameJob(s)
BY DEF TypeInv, TypeOK, WorkerTypeOK, Local, Goto, SameJob, Holding, Working
\* Every step of a run but ReadJob and ClearSlot leaves the jobs where they are.
LEMMA OtherRunStepSameJob ==
  ASSUME TypeInv, NEW r \in Runs, RunStep(r), ~ReadJob(r), ~ClearSlot(r)
  PROVE  UNCHANGED <<indexed, oci_mem>> /\ \A s \in Runs : SameJob(s)
<1> USE DEF chain, node
<1>1. CASE NothingToDo(r) \/ try_lock_fails(r)
  BY <1>1, ReturnSameJob DEF NothingToDo, try_lock_fails
<1>2. CASE Unlock(r)
  BY <1>2, ReturnSameJob DEF Unlock
<1>3. CASE Panic(r)
  BY <1>3, ReturnSameJob DEF Panic
<1>4. CASE try_lock(r)
  BY <1>4, AdvanceSameJob DEF try_lock, Holding, Labels
<1>5. CASE call_grpc_generic(r) /\ ~Panic(r)
  BY <1>5, AdvanceSameJob
  DEF call_grpc_generic, RemoteCallPanics, Holding, Working, Labels
<1>6. CASE call_grpc_display_message(r) /\ ~Panic(r)
  BY <1>6, AdvanceSameJob
  DEF call_grpc_display_message, RemoteCallPanics, Holding, Working, Labels
<1>7. CASE call_grpc_display_pinpad(r) /\ ~Panic(r)
  <2>1. PICK reply \in RemoteReplies(r, "INTERSTELLAR_URI_ROOT_API_CIRCUITS", "pinpad",
                                     NbDigits \cup {None}) :
          /\ local' = [local EXCEPT ![r].pinpad = reply]
          /\ Goto(r, "finalize")
          /\ UNCHANGED <<chain, node, history>>
    BY <1>7 DEF call_grpc_display_pinpad, RemoteCallPanics
  <2>2. pc[r] = "calling_pinpad"
    BY <1>7 DEF call_grpc_display_pinpad
  <2>3. QED
    BY <2>1, <2>2, AdvanceSameJob DEF Holding, Working, Labels
<1>8. CASE send_signed_transaction(r)
  BY <1>8, AdvanceSameJob DEF send_signed_transaction, Holding, Working, Labels
<1>9. CASE finalize_panics(r)
  BY <1>9, <1>3 DEF finalize_panics
<1>10. CASE finalize_error(r)
  BY <1>10, AdvanceSameJob DEF finalize_error, Holding, Working, Labels
<1>11. QED
  BY <1>1, <1>2, <1>3, <1>4, <1>5, <1>6, <1>7, <1>8, <1>9, <1>10 DEF RunStep

\* Every step keeps JobInv.
LEMMA JobStep == TypeInv /\ JobInv /\ [Next]_vars => JobInv'
<1> SUFFICES ASSUME TypeInv, JobInv, [Next]_vars PROVE JobInv'
  OBVIOUS
<1>1. CASE User
  BY <1>1, UserJob
  DEF User, submit_config_generic_signed, submit_config_display_circuits_package_signed
<1>2. CASE Author
  <2>1. UNCHANGED <<indexed, oci_mem, worker>>
    BY <1>2 DEF Author, callback_new_skcd_signed, callback_new_display_circuits_package_signed,
                Include
  <2>2. QED
    BY <2>1, SameJobStep DEF worker, SameJob, Holding, Working
<1>3. CASE ImportBlock
  BY <1>3, ImportBlockJob
<1>4. CASE LockTimeout
  BY <1>4, SameJobStep DEF LockTimeout, chain, worker, SameJob, Holding, Working
<1>5. CASE Crash
  BY <1>5, SameJobStep DEF Crash, chain, SameJob
<1>6. ASSUME NEW r \in Runs, offchain_worker(r) PROVE JobInv'
  <2>1. \A s \in Runs : SameJob(s)
    BY <1>6 DEF offchain_worker, Goto, SameJob, Holding, Working, TypeInv, TypeOK, WorkerTypeOK
  <2>2. QED
    BY <1>6, <2>1, SameJobStep DEF offchain_worker, chain, node
<1>7. ASSUME NEW r \in Runs, RunStep(r) PROVE JobInv'
  BY <1>7, ReadJobJob, ClearSlotJob, OtherRunStepSameJob, SameJobStep
<1>8. CASE UNCHANGED vars
  BY <1>8, SameJobStep DEF vars, chain, node, worker, SameJob, Holding, Working
<1>9. QED
  BY <1>1, <1>2, <1>3, <1>4, <1>5, <1>6, <1>7, <1>8 DEF Next

\* process_if_needed removes a job before it works on it, for good: whatever
\* panics, crashes, traps, doubled runs and later blocks come, no entry that a
\* later run could read holds the job a run is working on.
THEOREM CalledJobIsGoneHolds == Spec => []CalledJobIsGone
<1>1. Init => TypeInv /\ JobInv
  BY TypeInit, JobInit
<1>2. TypeInv /\ JobInv /\ [Next]_vars => (TypeInv /\ JobInv)'
  BY TypeStep, JobStep
<1>3. TypeInv /\ JobInv => CalledJobIsGone
  BY DEF JobInv
<1>4. QED
  BY <1>1, <1>2, <1>3, PTL DEF Spec

-----------------------------------------------------------------------------
(* No job is lost but by a newer one or by a stale reader.                 *)

NewestInv == TypeInv /\ JobInv /\ NewestJobAccounted

\* Every step accounts for the newest job: it is kept, taken or erased by a stale reader.
LEMMA NewestStep == NewestInv /\ [Next]_vars => NewestJobAccounted'
<1> SUFFICES ASSUME NewestInv, [Next]_vars PROVE NewestJobAccounted'
  OBVIOUS
<1> USE DEF NewestInv
<1>1. ASSUME UNCHANGED <<indexed, oci_mem, nJobs, attempts, clobbered>>
      PROVE  NewestJobAccounted'
  BY <1>1 DEF NewestJobAccounted
<1>2. CASE User
  <2>1. indexed'.job = nJobs'
    BY <1>2 DEF User, submit_config_generic_signed, submit_config_display_circuits_package_signed,
                submit_config, append_or_replace_verilog_hash
  <2>2. QED
    BY <2>1 DEF NewestJobAccounted
<1>3. CASE Author
  BY <1>3, <1>1 DEF Author, callback_new_skcd_signed,
                    callback_new_display_circuits_package_signed, Include, history
<1>4. CASE ImportBlock
  BY <1>4 DEF ImportBlock, history, NewestJobAccounted, JobInv, TypeInv, JobNumbers
<1>5. CASE LockTimeout
  BY <1>5, <1>1 DEF LockTimeout, chain, history
<1>6. CASE Crash
  BY <1>6, <1>1 DEF Crash, chain
<1>7. ASSUME NEW r \in Runs, offchain_worker(r) \/ ReadJob(r) PROVE NewestJobAccounted'
  BY <1>7, <1>1 DEF offchain_worker, ReadJob, chain, node, history
<1>8. ASSUME NEW r \in Runs, ClearSlot(r) PROVE NewestJobAccounted'
  <2> DEFINE j == local[r].indexing_data.job
  <2>1. nJobs' = nJobs /\ indexed' = indexed /\ clobbered \subseteq clobbered'
    BY <1>8 DEF ClearSlot, chain
  <2>2. nJobs > 0 => nJobs \in Jobs
    BY ConstantsAssumption DEF TypeInv, TypeOK, HistoryTypeOK, Jobs
  <2>3. attempts \in [Jobs -> Nat] /\ attempts' = [attempts EXCEPT ![j] = @ + 1]
    BY <1>8 DEF ClearSlot, TypeInv, TypeOK, HistoryTypeOK
  <2> HIDE DEF j
  <2>4. nJobs > 0 /\ attempts[nJobs] > 0 => attempts'[nJobs] > 0
    BY <2>2, <2>3
  <2>5. nJobs > 0 /\ nJobs = j => attempts'[nJobs] > 0
    BY <2>2, <2>3
  <2>6. nJobs > 0 /\ oci_mem.job = nJobs /\ nJobs # j => nJobs \in clobbered'
    BY <1>8 DEF ClearSlot, j, TypeInv, TypeOK, HistoryTypeOK
  <2>7. QED
    BY <2>1, <2>4, <2>5, <2>6 DEF NewestJobAccounted
<1>9. ASSUME NEW r \in Runs, RunStep(r), ~ReadJob(r), ~ClearSlot(r) PROVE NewestJobAccounted'
  <2>1. UNCHANGED <<indexed, oci_mem>>
    BY <1>9, OtherRunStepSameJob
  <2>2. UNCHANGED <<nJobs, attempts, clobbered>>
    BY <1>9 DEF RunStep, NothingToDo, try_lock, try_lock_fails, call_grpc_generic,
       call_grpc_display_message, call_grpc_display_pinpad, RemoteCallPanics, Panic,
       send_signed_transaction, finalize_panics, finalize_error, Unlock, history
  <2>3. QED
    BY <2>1, <2>2, <1>1
<1>10. CASE UNCHANGED vars
  BY <1>10, <1>1 DEF vars, chain, node, history
<1>11. QED
  BY <1>2, <1>3, <1>4, <1>5, <1>6, <1>7, <1>8, <1>9, <1>10 DEF Next

\* The newest submission is stored, or was worked on, or was erased by a run
\* that had read an older one before it took the lock.
THEOREM NewestJobAccountedHolds == Spec => []NewestJobAccounted
<1>1. Init => NewestInv
  BY TypeInit, JobInit DEF NewestInv, NewestJobAccounted, Init
<1>2. NewestInv /\ [Next]_vars => NewestInv'
  BY TypeStep, JobStep, NewestStep DEF NewestInv
<1>3. NewestInv => NewestJobAccounted
  BY DEF NewestInv
<1>4. QED
  BY <1>1, <1>2, <1>3, PTL DEF Spec
-----------------------------------------------------------------------------
(* The storage lock.                                                       *)

\* As long as no entry was taken over, a run in the locked part has an entry.
LockInv ==
    /\ MutualExclusion
    /\ ~stolen => \A r \in Runs : InCriticalSection(r) => lock.held
    /\ LockHasOwner

\* A step that moves neither lock nor runs keeps LockInv.
LEMMA LockQuietStep ==
  ASSUME LockInv, lock'.held = lock.held, UNCHANGED <<stolen, abandoned>>,
         \A s \in Runs : InCriticalSection(s)' <=> InCriticalSection(s)
  PROVE  LockInv'
BY DEF LockInv, MutualExclusion, LockHasOwner

\* a run that returns is out of the locked part, the others stay where they are
LEMMA ReturnCS ==
  ASSUME TypeInv, NEW r \in Runs, Return(r)
  PROVE  /\ ~InCriticalSection(r)'
         /\ \A s \in Runs \ {r} : InCriticalSection(s)' <=> InCriticalSection(s)
BY DEF TypeInv, TypeOK, WorkerTypeOK, Return, Goto, InCriticalSection

\* A run that moves on inside or outside of the locked part moves no other run.
LEMMA GotoCS ==
  ASSUME TypeInv, NEW r \in Runs, NEW label, Goto(r, label)
  PROVE  /\ pc'[r] = label
         /\ \A s \in Runs \ {r} : InCriticalSection(s)' <=> InCriticalSection(s)
BY DEF TypeInv, TypeOK, WorkerTypeOK, Goto, InCriticalSection

\* a native panic and the end of the locked part release the lock; a trap
\* counts as abandoning it
LEMMA PanicLock ==
  ASSUME TypeInv, LockInv, NEW r \in Runs, InCriticalSection(r), Panic(r)
  PROVE  LockInv'
<1>1. /\ ~InCriticalSection(r)'
      /\ \A s \in Runs \ {r} : InCriticalSection(s)' <=> InCriticalSection(s)
  BY ReturnCS DEF Panic
<1>2. stolen' = stolen
  BY DEF Panic
<1>3. CASE local[r].executor = "native"
  <2>1. lock'.held = FALSE
    BY <1>3 DEF Panic, NoLock
  <2>2. ~stolen => \A s \in Runs : ~InCriticalSection(s)'
    BY <1>1 DEF LockInv, MutualExclusion
  <2>3. QED
    BY <1>2, <2>1, <2>2 DEF LockInv, MutualExclusion, LockHasOwner
<1>4. CASE local[r].executor # "native"
  <2>1. local[r].executor = "wasm"
    BY <1>4 DEF TypeInv, TypeOK, WorkerTypeOK, Local
  <2>2. abandoned' = TRUE
    BY <2>1, Zenon DEF Panic
  <2>3. ~stolen => \A s \in Runs : ~InCriticalSection(s)'
    BY <1>1 DEF LockInv, MutualExclusion
  <2>4. QED
    BY <1>2, <2>2, <2>3 DEF LockInv, MutualExclusion, LockHasOwner
<1>5. QED
  BY <1>3, <1>4

\* Dropping the guard leaves no entry and nobody in the locked part.
LEMMA UnlockLock ==
  ASSUME TypeInv, LockInv, NEW r \in Runs, Unlock(r)
  PROVE  LockInv'
<1>1. /\ ~InCriticalSection(r)'
      /\ \A s \in Runs \ {r} : InCriticalSection(s)' <=> InCriticalSection(s)
  BY ReturnCS DEF Unlock
<1>2. InCriticalSection(r) /\ lock'.held = FALSE /\ stolen' = stolen
  BY DEF Unlock, InCriticalSection, NoLock, history
<1>3. QED
  BY <1>1, <1>2 DEF LockInv, MutualExclusion, LockHasOwner

\* try_lock lets a run in when nobody is in, or marks the entry as stolen.
LEMMA TryLockLock ==
  ASSUME TypeInv, LockInv, NEW r \in Runs, try_lock(r)
  PROVE  LockInv'
<1>1. InCriticalSection(r)'
  BY GotoCS DEF try_lock, InCriticalSection
<1>2. \A s \in Runs \ {r} : InCriticalSection(s)' <=> InCriticalSection(s)
  BY GotoCS DEF try_lock
<1>3. lock'.held = TRUE
  BY DEF try_lock, LockOf
<1>4. ~stolen' => ~stolen /\ ~lock.held
  BY Zenon DEF try_lock
<1>5. ~stolen' => \A s \in Runs : ~InCriticalSection(s)
  BY <1>4 DEF LockInv
<1>6. QED
  BY <1>1, <1>2, <1>3, <1>5 DEF LockInv, MutualExclusion, LockHasOwner

\* A restart empties the locked part; an entry it leaves counts as abandoned.
LEMMA CrashLock ==
  ASSUME TypeInv, LockInv, Crash PROVE LockInv'
<1>1. \A s \in Runs : ~InCriticalSection(s)'
  BY DEF Crash, InCriticalSection
<1>2. lock' = lock /\ stolen' = stolen
  BY DEF Crash
<1>3. ~abandoned' => ~abandoned /\ \A s \in Runs : ~InCriticalSection(s)
  BY Zenon DEF Crash
<1>4. QED
  BY <1>1, <1>2, <1>3 DEF LockInv, MutualExclusion, LockHasOwner

\* Steps of a run inside the locked part, or outside of it, that do not cross
\* its border.
LEMMA InnerStepLock ==
  ASSUME TypeInv, LockInv, NEW r \in Runs, NEW label, Goto(r, label),
         InCriticalSection(r)
           <=> label \in {"locked", "calling", "calling_pinpad", "finalize", "unlock"},
         UNCHANGED <<lock, stolen, abandoned>>
  PROVE  LockInv'
<1>1. \A s \in Runs : InCriticalSection(s)' <=> InCriticalSection(s)
  BY GotoCS DEF InCriticalSection
<1>2. QED
  BY <1>1, LockQuietStep

\* Every step of a run keeps LockInv.
LEMMA RunStepLock ==
  ASSUME TypeInv, LockInv, NEW r \in Runs, offchain_worker(r) \/ RunStep(r)
  PROVE  LockInv'
<1> USE DEF node, history
<1>1. CASE offchain_worker(r) \/ ReadJob(r)
  BY <1>1, InnerStepLock DEF offchain_worker, ReadJob, InCriticalSection
<1>2. CASE NothingToDo(r) \/ try_lock_fails(r)
  BY <1>2, InnerStepLock DEF NothingToDo, try_lock_fails, Return, InCriticalSection
<1>3. CASE try_lock(r)
  BY <1>3, TryLockLock
<1>4. CASE ClearSlot(r)
  BY <1>4, InnerStepLock DEF ClearSlot, InCriticalSection
<1>5. CASE call_grpc_generic(r)
  BY <1>5, InnerStepLock, PanicLock DEF call_grpc_generic, RemoteCallPanics, InCriticalSection
<1>6. CASE call_grpc_display_message(r)
  BY <1>6, InnerStepLock, PanicLock
  DEF call_grpc_display_message, RemoteCallPanics, InCriticalSection
<1>7. CASE call_grpc_display_pinpad(r)
  BY <1>7, InnerStepLock, PanicLock
  DEF call_grpc_display_pinpad, RemoteCallPanics, InCriticalSection
<1>8. CASE send_signed_transaction(r) \/ finalize_error(r)
  BY <1>8, InnerStepLock DEF send_signed_transaction, finalize_error, InCriticalSection
<1>9. CASE finalize_panics(r)
  BY <1>9, PanicLock DEF finalize_panics, InCriticalSection
<1>10. CASE Unlock(r)
  BY <1>10, UnlockLock
<1>11. QED
  BY <1>1, <1>2, <1>3, <1>4, <1>5, <1>6, <1>7, <1>8, <1>9, <1>10 DEF RunStep

\* Every step keeps LockInv.
LEMMA LockStep == TypeInv /\ LockInv /\ [Next]_vars => LockInv'
<1> SUFFICES ASSUME TypeInv, LockInv, [Next]_vars PROVE LockInv'
  OBVIOUS
<1>1. ASSUME lock'.held = lock.held, UNCHANGED <<worker, stolen, abandoned>> PROVE LockInv'
  BY <1>1, LockQuietStep DEF worker, InCriticalSection
<1>2. CASE User
  BY <1>2, <1>1 DEF User, submit_config_generic_signed,
                    submit_config_display_circuits_package_signed, submit_config, node
<1>3. CASE Author
  BY <1>3, <1>1 DEF Author, callback_new_skcd_signed,
                    callback_new_display_circuits_package_signed, Include, history
<1>4. CASE ImportBlock
  BY <1>4, <1>1 DEF ImportBlock, history
<1>5. CASE LockTimeout
  BY <1>5, <1>1 DEF LockTimeout, TimedOut, history, TypeInv, TypeOK, NodeTypeOK, Lock
<1>6. CASE Crash
  BY <1>6, CrashLock
<1>7. ASSUME NEW r \in Runs, offchain_worker(r) \/ RunStep(r) PROVE LockInv'
  BY <1>7, RunStepLock
<1>8. CASE UNCHANGED vars
  BY <1>8, <1>1 DEF vars, node, history
<1>9. QED
  BY <1>2, <1>3, <1>4, <1>5, <1>6, <1>7, <1>8 DEF Next

\* LockInv holds before the first block.
LEMMA LockInit == Init => LockInv
BY DEF Init, LockInv, MutualExclusion, LockHasOwner, InCriticalSection, NoLock

\* Runs exclude each other while no run outlives the deadline of its lock.
THEOREM MutualExclusionHolds == Spec => []MutualExclusion
<1>1. Init => TypeInv /\ LockInv
  BY TypeInit, LockInit
<1>2. TypeInv /\ LockInv /\ [Next]_vars => (TypeInv /\ LockInv)'
  BY TypeStep, LockStep
<1>3. LockInv => MutualExclusion
  BY DEF LockInv
<1>4. QED
  BY <1>1, <1>2, <1>3, PTL DEF Spec

\* Every way out of process_if_needed releases the lock but a trap or a crash.
THEOREM LockHasOwnerHolds == Spec => []LockHasOwner
<1>1. Init => TypeInv /\ LockInv
  BY TypeInit, LockInit
<1>2. TypeInv /\ LockInv /\ [Next]_vars => (TypeInv /\ LockInv)'
  BY TypeStep, LockStep
<1>3. LockInv => LockHasOwner
  BY DEF LockInv
<1>4. QED
  BY <1>1, <1>2, <1>3, PTL DEF Spec
=============================================================================
